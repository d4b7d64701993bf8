CONSTANTS
    Timelines <- OneTimeline
    Times <- FewTimes
    Components <- OneComponent
    Datatypes <- OneDatatype
    MaxRows = 2
    Inputs <- CuttingInputs
SPECIFICATION Spec
INVARIANT UnsortedWithinThreshold
CHECK_DEADLOCK FALSE

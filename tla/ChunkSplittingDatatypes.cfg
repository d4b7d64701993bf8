CONSTANTS
    Timelines <- OneTimeline
    Times <- FewTimes
    Components <- ThreeComponents
    Datatypes <- TwoDatatypes
    MaxRows = 2
    Inputs <- GroupingInputs
SPECIFICATION Spec
INVARIANT OneDatatypePerComponent
CHECK_DEADLOCK FALSE

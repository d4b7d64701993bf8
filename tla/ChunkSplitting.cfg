CONSTANTS
    Timelines <- TwoTimelines
    Times <- FewTimes
    Components <- TwoComponents
    Datatypes <- TwoDatatypes
    MaxRows = 2
    Inputs <- AllInputs
SPECIFICATION Spec
INVARIANTS
    RowsPartitioned
    UnsortedByLastRow
CHECK_DEADLOCK FALSE

SPECIFICATION Spec
CONSTANTS
    InitialLogs <- TwoLogs
    Filters <- AllFilters
    MaxDiffOps = 2
    Batch = 1
    MaxOps = 3
    MaxFaults = 1
    DisturbRebuild = FALSE
CHECK_DEADLOCK FALSE
INVARIANTS
    FastLogKnowsItsQsos
PROPERTIES
    ViewCatchesUp
    

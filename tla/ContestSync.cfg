SPECIFICATION Spec
CONSTANTS
    None = None
    Contests <- OneContest
    QsoIds <- TwoQsos
    PresetIds <- ThreePresets
    SessionIds <- ThreeSessions
    Starts <- TwoStarts
    MaxOps = 3
    MaxFaults = 1
    MaxSyncs = 2
CHECK_DEADLOCK FALSE
INVARIANTS
    NoSecondSession
    SerialsDistinct
PROPERTIES
    SyncLeavesNothingOut

SPECIFICATION Spec
CONSTANTS
    Latest = 5
    InitialDisks <- FreshOrUpdated
    MaxOps = 2
    MaxFaults = 1
    MaxDiskFaults = 2
    Slots <- ThreeSlots
    RestartWhileTuning = FALSE
CHECK_DEADLOCK FALSE
INVARIANTS
    NoProgramLeaks
    PollingGoesOn
PROPERTIES
    ControlsComeBack
    UpdateKeepsHamlib

SPECIFICATION Spec
CONSTANTS
    a = a
    b = b
    c = c
    NoJournal = NoJournal
    NoCache = NoCache
    Unreadable = Unreadable
    Rec <- MCRec
    Batches <- MCBatches
    InitialLogs <- MCInitialLogs
    InitialEncodings = {"utf8", "latin1"}
    ForeignLogs <- MCForeignLogs
    ForeignEncodings = {"utf8", "latin1"}
    MaxForeign = 1
    UnreadableReads = TRUE
    MaxBatch = 2
INVARIANTS
    TornOnlyUnderJournal
    PendingAppendRecoverable
    CacheCoherent
    UniqueIds
PROPERTIES
    AcknowledgedIsDurable
    ContradictionIsFrozen
    ImplementsDurableLog

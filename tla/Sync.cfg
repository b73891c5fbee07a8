SPECIFICATION FairSpec
CONSTANTS
    Record = {1, 2, 3}
    KindOf <- SyncKindOf
    Session = {1, 2}
    Serial = {0, 1}
    Data <- SyncData
    VersionOf <- SyncVersionOf
    IntervalMode = "DEFAULT_MIN_MAX"
    ExpirationMin = 1
    ExpirationMax = 2
    ExpireOffered = {0, 1, 3}
    Faults = {"alloc", "intr", "errors"}
    MaxPdus = 3
    MaxAge = 4
INVARIANTS
    Coherent
    EstablishedIsSynced
    RollbackInv
    CoherenceInv
    SpeaksSessionVersion
    ExpireInRange
PROPERTIES
    AtomicReset
    Recovers
    StopReturns
    Expires

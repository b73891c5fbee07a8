SPECIFICATION Spec
CONSTANTS
    Record = {1, 2, 3}
    KindOf <- AnyKindOf
    Session = {1, 2}
    Serial = {0}
    Data <- AnyData
    VersionOf <- AnyVersionOf
    IntervalMode = "IGNORE_ANY"
    ExpirationMin = 0
    ExpirationMax = 0
    ExpireOffered = {0}
    Faults = {"cache", "alloc", "shadow", "clock", "intr", "errors", "callback"}
    MaxPdus = 1
    MaxAge = 1
INVARIANTS
    TypeOK
    OpensClosed
    RollbackExact

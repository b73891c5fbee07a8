SPECIFICATION FairSpec
CONSTANTS
    Customer = {1, 2, 3}
    Providers = {{7}, {8}}
    Socket = {"a", "b"}
    Answer <- Answers
    ReplaceMore = FALSE
    Faults = {"alloc"}
INVARIANTS
    ComputeExact
    ArraysSorted
    NoDangling
    LinkHolds
    ClientFollows
PROPERTIES
    IsRecordTable
    LockReleased
CHECK_DEADLOCK FALSE

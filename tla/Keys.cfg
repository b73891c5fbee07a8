SPECIFICATION Spec
CONSTANTS
    Record <- Keys
    Socket = {"a", "b"}
    BucketOf <- OneBucket
    Overlap = FALSE
    KeyOf <- SignsWith
    Broken = {"broken"}
    Receiver = 0
    SigLenOf <- Lengths
    Nlri <- Prefixes24
    Alg = {1, 2}
    Paths <- Taken
INVARIANTS
    StructuresAgree
    ClientFollows
    RoundsExact
    VerdictExact
PROPERTIES
    IsRecordTable

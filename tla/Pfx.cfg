SPECIFICATION Spec
CONSTANTS
    W = 3
    Record <- Records
    Socket = {"a", "b"}
    Overlap = FALSE
INVARIANTS
    TrieShape
    LookupExact
    ValidateExact
    ClientFollows
PROPERTIES
    IsRecordTable
    SocketGone

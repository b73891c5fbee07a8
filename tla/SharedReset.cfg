SPECIFICATION Spec
CONSTANTS
    W = 3
    Record <- Records
    Socket = {"a", "b"}
    Overlap = TRUE
PROPERTIES
    IsRecordTable

SPECIFICATION Spec
CONSTANTS
    Customer = {1, 2, 3}
    Providers = {{7}, {8}}
    Socket = {"a", "b"}
    Answer <- Answers
    ReplaceMore = TRUE
    Faults = {}
INVARIANTS
    ArraysSorted

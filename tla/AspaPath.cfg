SPECIFICATION Spec
CONSTANTS
    AsnBits = 4
    Call <- MCCall
INVARIANTS
    LoopInv
    VerdictExact
    HopExact
CHECK_DEADLOCK FALSE

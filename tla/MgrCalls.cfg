SPECIFICATION FairSpec
CONSTANTS
    Group = {1, 2}
    Sockets <- TwoGroups
    GroupOf <- TwoGroupsOf
    Configured = {1, 2}
    App = "app"
    Calls = {"start", "stop", "add", "remove"}
    Faults = {"expire", "thread"}
INVARIANT MgrInv
INVARIANT Downhill
INVARIANT MakeBeforeBreak
PROPERTY CallReturns
CHECK_DEADLOCK FALSE

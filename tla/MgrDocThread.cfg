SPECIFICATION Spec
CONSTANTS
    Group = {1, 2, 3}
    Sockets <- ThreeGroups
    GroupOf <- ThreeGroupsOf
    Configured = {1, 2, 3}
    App = "app"
    Calls = {"start"}
    Faults = {}
INVARIANT OneThread
CHECK_DEADLOCK FALSE

SPECIFICATION FairSpec
CONSTANTS
    Group = {1, 2}
    Sockets <- TwoGroups
    GroupOf <- TwoGroupsOf
    Configured = {1, 2}
    App = "app"
    Calls = {"start"}
    Faults = {"outage", "recovery", "expire"}
INVARIANT OneThread
PROPERTY Failover

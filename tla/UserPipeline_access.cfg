\* One user over two lives of its name, expiry, clients and one restart.
CONSTANTS
    Free = Free
    Users = {u1}
    Requests = {r1}
    MaxId = 2
    MaxPw = 3
    MaxCrashes = 1
    MaxFailures = 2
    Ops = {"create", "reset", "enable", "disable", "delete"}
    Enabled = {TRUE, FALSE}
    Dates = {"never", "later"}
    Faults = {"db", "write", "reload", "term", "list"}
SPECIFICATION Spec
PROPERTIES
    ExpiryDisablesOnlyDue
    RestartDropsOrphans
    RestartServesEnabled

\* Two handlers that contend for reloadMu, the expiry loop, charon that never
\* confirms a Terminate of the expiry loop.
CONSTANTS
    Free = Free
    Users = {u1}
    Requests = {r1, r2}
    MaxId = 1
    MaxPw = 1
    MaxCrashes = 0
    MaxFailures = 1
    Ops = {"create", "enable", "delete"}
    Enabled = {TRUE}
    Dates = {"later"}
    Faults = {"term", "reload"}
SPECIFICATION FairSpec
PROPERTIES
    RequestsEnd
    ExpiredAreDisabled

\* Two users and two handlers at once, one failure of any kind.
\* The admin stops when the bounds on ids and passwords are used up.
CONSTANTS
    Free = Free
    Users = {u1, u2}
    Requests = {r1, r2}
    MaxId = 2
    MaxPw = 2
    MaxCrashes = 0
    MaxFailures = 1
    Ops = {"create", "reset", "delete"}
    Enabled = {TRUE}
    Dates = {"never"}
    Faults = {"db", "write", "remove", "reload", "limit", "term", "list", "gone"}
SPECIFICATION Spec
SYMMETRY Symmetry
INVARIANTS
    TypeOK
    CharonTracksConfD
    SoleSuccessKeepsItsPromise
    SingleFileFaultRollsBack
CHECK_DEADLOCK FALSE

\* Two handlers, or one and the watcher; one failure, one restart.
CONSTANTS
    Free = Free
    AutoV6 = AutoV6
    Unset = Unset
    NoAddr = NoAddr
    EnvV4 = e4
    DetectedV6 = d6
    Addrs = {a1, a2}
    Handlers = {h1, h2}
    V4s = {p4}
    V6s = {p6}
    EnvV6 = AutoV6
    Modes = {TRUE, FALSE}
    MaxWatched = 1
    MaxFailures = 1
    MaxRestarts = 1
SPECIFICATION FairSpec
INVARIANTS
    TypeOK
    CharonTracksFile
    ConfirmedPoolsStay
    SavedIsInForce
PROPERTIES
    FileAddressSettles

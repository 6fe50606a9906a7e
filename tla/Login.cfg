\* Two clients, two requests, two passwords; four arrivals, one tick, one fault.
\* A panel without requests rests.
CONSTANTS
    Clients = {c1, c2}
    Requests = {r1, r2}
    Passwords = {p0, p1}
    Initial = p0
    Sessions = {s1}
    None = None
    Threshold = 2
    Window = 1
    LockFor = 1
    PostLimit = 3
    SessionTTL = 1
    MaxArrivals = 4
    MaxTicks = 1
    MaxFaults = 1
SYMMETRY MCSymmetry
SPECIFICATION Spec
INVARIANTS
    TypeOK
    GuessesBounded
    FileKeepsLocks
    BannerTellsTheTruth
PROPERTIES
    SessionsAreEarned
CHECK_DEADLOCK FALSE

\* Two handlers, three requests, one failure, one restart.  A panel without
\* requests rests.
CONSTANTS
    Handlers = {h1, h2}
    Levels = {"info", "debug"}
    Certs = {k1}
    Halves = {x, y}
    Forms <- MCForms
    Unset = Unset
    None = None
    MaxSaves = 3
    MaxFailures = 1
    MaxRestarts = 1
SYMMETRY MCSymmetry
SPECIFICATION Spec
INVARIANTS
    TypeOK
    PageShowsTheFile
    SettingsInForce
    PlainCookieWorks
PROPERTIES
    OtherHalfStays
CHECK_DEADLOCK FALSE

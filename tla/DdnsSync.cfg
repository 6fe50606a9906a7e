\* Both families and one handler: one change, one failure, one restart.  The
\* loop rests when it is switched off or has no access key.
CONSTANTS
    Families = {"A", "AAAA"}
    EnvFamily = {"A", "AAAA"}
    Handlers = {h1}
    Choices <- MCChoices
    Addrs = {a1, a2}
    NoAddr = NoAddr
    NoRec = NoRec
    MaxAttempts = 2
    MaxChanges = 1
    MaxFailures = 1
    MaxRestarts = 1
SPECIFICATION Spec
INVARIANTS
    TypeOK
    RestartKeepsState
PROPERTIES
    OneRoundPerWindow
CHECK_DEADLOCK FALSE

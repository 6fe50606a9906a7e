\* One family: three changes, two failures, one restart.
CONSTANTS
    Families = {"A"}
    EnvFamily = {"A"}
    Handlers = {h1}
    Choices = {{}, {"A"}}
    Addrs = {a1, a2}
    NoAddr = NoAddr
    NoRec = NoRec
    MaxAttempts = 2
    MaxChanges = 3
    MaxFailures = 2
    MaxRestarts = 1
SPECIFICATION FairSpec
PROPERTIES
    RecordFollowsAddress
    BannerClears
CHECK_DEADLOCK FALSE

\* One user, one link, two messages, two sessions, two handlers; two saves or
\* clears of the defaults, one failure, one restart.  Everything used up, the
\* system rests.
CONSTANTS
    Users = {u1}
    Tokens = {t1}
    Messages = {n1, n2}
    Sessions = {s1, s2}
    Handlers = {h1, h2}
    Forms <- MCForms
    Names = {"own", "bad", "builtin"}
    Bad = "bad"
    Unset = Unset
    None = None
    MaxSaves = 2
    MaxFailures = 1
    MaxRestarts = 1
SYMMETRY MCSymmetry
SPECIFICATION Spec
INVARIANTS
    TypeOK
    ProfilesFollowTheFiles
    OwnRulesAreWhole
PROPERTIES
    LinksAreOneTime
    MessagesAreOneTime
CHECK_DEADLOCK FALSE

\* Two renewals, one crash, one failed command, one file left behind; MaxNew is
\* as many pairs as these can ask for.
CONSTANTS
    None = None
    Empty = Empty
    MaxNew = 9
    MaxRenewals = 2
    MaxCrashes = 1
    MaxFaults = 1
    MaxLosses = 1
SPECIFICATION Spec
INVARIANTS
    TypeOK
    EnrolledCaStays
    RenewalSettles

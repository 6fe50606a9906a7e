\* One renewal; nothing fails.
CONSTANTS
    None = None
    Empty = Empty
    MaxNew = 5
    MaxRenewals = 1
    MaxCrashes = 0
    MaxFaults = 0
    MaxLosses = 0
SPECIFICATION Spec
PROPERTIES
    GoodRenewalsStay

\* Two users and two keys: three SAs or rekeyings, one deletion, failed call or restart.
CONSTANTS
    Users = {u1, u2}
    Sas = {s1, s2}
    NoSa = NoSa
    NoSample = NoSample
    MaxBytes = 2
    MaxConnects = 3
    MaxUpsets = 1
SPECIFICATION Spec
SYMMETRY MCSymmetry
INVARIANTS
    TypeOK
    NoTrafficInvented
    EveryByteIsCounted

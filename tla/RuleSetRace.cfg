SPECIFICATION Spec
CONSTANTS
    Clients = {k1, k2}
    Absent = Absent
    Bad = Bad
    MaxInstalls = 1
    MaxCrashes = 0
    MaxFaults = 0
INVARIANT PairNeverMixed

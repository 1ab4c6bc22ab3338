SPECIFICATION Spec
CONSTANTS
    Configs = {mixed, tun}
    TunConfigs = {tun}
    Helpers = {h1, h2}
    None = None
    Clients = {k1}
    MaxAttempts = 3
    MaxRequests = 5
    MaxCrashes = 0
    Faults = {}
SYMMETRY HelperSymmetry
INVARIANT NoDanglingProxy

SPECIFICATION Spec
CONSTANTS
    Configs = {mixed, tun}
    TunConfigs = {tun}
    Helpers = {h1, h2}
    None = None
    Clients = {k1, k2}
    MaxAttempts = 2
    MaxRequests = 3
    MaxCrashes = 0
    Faults = {}
PROPERTY OffStopsUnderNoProxy

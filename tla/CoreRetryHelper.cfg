SPECIFICATION Spec
CONSTANTS
    Configs = {mixed, tun}
    TunConfigs = {tun}
    Helpers = {h1, h2}
    None = None
    Clients = {k1}
    MaxAttempts = 2
    MaxRequests = 1
    MaxCrashes = 0
    Faults = {}
INVARIANT RetryKeepsHelper

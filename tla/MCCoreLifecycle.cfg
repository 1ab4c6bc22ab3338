SPECIFICATION FairSpec
CONSTANTS
    Configs = {mixed, tun}
    TunConfigs = {tun}
    Helpers = {h1, h2}
    None = None
    Clients = {k1, k2}
    MaxAttempts = 2
    MaxRequests = 3
    MaxCrashes = 1
    Faults = {"osread", "osapply", "oswrite", "helper"}
INVARIANTS
    LifecycleTypeOK
    ConfigDescribesCore
    RestartTellsTheTruth
PROPERTIES
    RequestsEnd

SPECIFICATION HostSpec
CONSTANTS
    Configs = {mixed, tun}
    TunConfigs = {tun}
    Helpers = {h1, h2, h3}
    None = None
    MaxHelperCalls = 4
    MaxHelperMishaps = 2
    MaxMacCalls = 4
    MaxMacMishaps = 2
    Processes = {p1}
    Readers = {r1, r2}
    LoadFirst = TRUE
    MaxVersions = 3
    MaxStoreMishaps = 1
    Clients = {k1}
    Absent = Absent
    Bad = Bad
    MaxInstalls = 2
    MaxCrashes = 2
    MaxFaults = 1
    Starters = {s1, s2}
    MaxProbes = 2
    MaxDaemonMishaps = 2
CHECK_DEADLOCK FALSE
INVARIANTS
    HostTypeOK
    NoOrphanHelper
    RunningCoreIsReachable
    PreparedIsNotLive
    AnswersAreCurrent
    ShutdownMeansGone
    DnsImpliesRoute
    ReadyMeansPair
    RecoveryIsSafe
    DaemonStartIsTruthful
    AckedIsKept
PROPERTIES
    FileIsAtomic
    InstallsThePair
    NothingLingers

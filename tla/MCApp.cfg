SPECIFICATION AppSpec
CONSTANTS
    Windows = {w1, w2}
    ProbeTags = {a}
    MaxLatencySessions = 1
    LatencySessionTtl = 1
    MaxLatencyPolls = 2
    MaxSessionsStarted = 2
    CardWindows = {w1}
    CardActions = {a}
    CheckInterval = 1
    MaxClock = 2
    MaxRelease = 1
    MaxCardActions = 2
    MaxUpdateFaults = 1
    MaxClicks = 2
    MaxUiMishaps = 1
    Canonical <- MCCanon
    Shortened <- MCShort
    MaxCustomRules = 2
    MaxSubscriptions = 2
    MaxNodes = 4
    MaxNodesPerSubscription = 2
    MaxSelections = 2
    RawNodes = {a, b}
    Groups = {"media"}
    MaxBookSteps = 4
    MaxRestarts = 2
    RuleDrafts <- MCDrafts
    DnsDrafts = {"d"}
    MaxEdits = 6
    SyncWindows = {w1}
    LocalEdits = {l}
    OtherEdits = {o}
    Interrupts = FALSE
    MaxReloads = 1
    MaxUploads = 3
    MaxSyncBytes = 5
    MaxBundleFiles = 4
    MaxYamlLines = 3
    MaxYamlDepth = 1
    MaxYamlMarks = 2
CHECK_DEADLOCK FALSE
INVARIANTS
    AppTypeOK
    ResultsAreAccounted
    UpdateStateIsObeyed
    ShownIsTrue
    OneRuntimeCall
    ShownIsCurrent
    RulesStayUsable
    ConfigsAreClosed
    RoutesFollowPolicy
PROPERTIES
    OnlyOldOrDoneLeave
    AnswersNeverRegress
    SafePushKeepsOthers
    AppSettles

SPECIFICATION PartsSpec
CONSTANTS
    i = i
    d = d
    PTicket = {a}
    Sandbox = {}
    Job = {1, 2, 3}
    Profiles <- MCProfiles
    Base <- MCBase
    MaxPools = 2
    TreePool = 1
    PRateLimits = TRUE
    SubmitRefuses = TRUE
    PMayCrash = TRUE
    SJob = {"j1"}
    JobKind <- MCJobKind
    Priority <- MCPriority
    Run = {r1, r2}
    PoolSize = 2
    RunRetries = 1
    ByHand = FALSE
    Prompt = TRUE
    Machine = {"m1", "m2", "m3"}
    TeamOf <- MCTeamOf
    CTicket = {"t"}
    OwnerOf <- MCOwnerOf
    LockTicks = 2
    MaxRuns = 4
    AnswersLost = TRUE
    Overrides = FALSE
    BreakerWindow = 3
    MinResults = 2
    PauseFor = 2
    LockFor = 2
    Configured = "m1"
    Fallbacks <- MCFallbacks
    ProbeTTL = 1
    FirstCooldown = 1
    LongestCooldown = 2
    RecoverySuccesses = 2
    MaxLevel = 1
    InFlight = 1
    RequestMax = 2
    RequestWindow = 1
    DiskFails = FALSE
    CoolWorker = {k1, k2}
    CoolFor <- MCCoolFor
    ProbeFor <- MCProbeFor
    ResetIn = {2}
    CoolRetries = 1
    MaxAge = 1
    StoreFails = TRUE
    GIssue = {1, 2}
    CriticalIssue = {2}
    SkipIssue = {}
    MaxStored = 2
    ListLimit = 5
    JsonTickets = FALSE
    GhFails = TRUE
    GRunnerDies = TRUE
    FailureThreshold = 2
    RetryAfter = 2
    EscalateAfter = 3
    UsedEngines = {"claude", "copilot", "openclaw", "devin", "aider"}
    Agent = {i, d}
    RoleOf <- MCRoleOf
    SessTicket = {"t"}
    MaxIds = 3
    DevAttempts = 2
    ProcessDies = TRUE
    Stages <- MCStages
    StopOnFailure = FALSE
    SkipOn = TRUE
    StageCost = {0, 1}
    Sender = {"s1", "s2"}
    Alert = {"stability_gate", "rollback"}
    AlertCooldown = 3
    PerMinute = 1
    GatewayLies = TRUE
    Pid = {1, 2}
    WTicket = {"t"}
    LogStall = 1
    TicketStall = 1
    AuditGap = 1
    ByOperator = TRUE
    MonitorDies = TRUE
    Fp = {"e", "f"}
    FileOf <- MCFileOf
    SeverityOf <- MCSeverityOf
    Slot = {1, 2, 3}
    MaxNew = 1
    SevFloor = 0
    DedupFor = 1
    RegressFor = 1
    PropagateFor = 1
    VerifyFor = 1
    DepTicket = {"x", "y", "z"}
    DependsOn <- MCDependsOn
    BlockTimeout = 1
    BlockEscalateAfter = 2
    MaxReopen = 1
INVARIANTS
    RunnerPartsSound
    NoOverlap
    ExclusiveCheckout
    OneTicketPerIssue
    OneAlertPerOutage
    
    NoAlertTwice
    OneDaemon
PROPERTIES
    PausesOutliveRestarts
    NoMissedRecurrence
CHECK_DEADLOCK FALSE

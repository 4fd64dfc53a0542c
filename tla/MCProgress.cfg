SPECIFICATION PartsSpec
CONSTANTS
    t1 = t1
    t2 = t2
    Task = {t1, t2}
    Type = {"investigate"}
    Worker = {w1}
    NoWorker = NoWorker
    TypeOf <- MCTypeOf
    PriorityOf <- MCPriorityOf
    MaxRetries = 2
    RetryDelay = 1
    Lease = 1
    Skew = 0
    MaxTasks = 2
    Timely = TRUE
    SubmitMayRaise = FALSE
    Ticket = {a}
    NoTicket = NoTicket
    Unfit = {}
    MaxSessions = 2
    MaxTimeouts = 2
    MaxReinvestigations = 1
    MaxRejections = 2
    Allowed = {"develop", "review"}
    SharedObjects = TRUE
    MayCrash = TRUE
    RateLimits = TRUE
    PTicket = {a}
    Sandbox = {}
    Job = {1, 2}
    Profiles <- MCProfiles
    Base <- MCBase
    MaxPools = 1
    TreePool = 1
    PRateLimits = TRUE
    SubmitRefuses = FALSE
    PMayCrash = FALSE
    CoolWorker = {k1, k2}
    CoolFor <- MCCoolFor
    ProbeFor <- MCProbeFor
    ResetIn = {2}
    CoolRetries = 1
    MaxAge = 1
    StoreFails = FALSE
    Machine = {"m1", "m2"}
    TeamOf <- MCTeamOf
    CTicket = {"t"}
    OwnerOf <- MCOwnerOf
    LockTicks = 2
    MaxRuns = 3
    AnswersLost = TRUE
    Overrides = TRUE
    OTicket = {a}
    Feature = {a}
    Vm = {v}
    Bot = {x}
    OIssue = {}
    StuckHours = 1
    MaxHours = 2
    Exhausted = 1
    CascadeMin = 1
    CascadeSpan = 1
    MaxLoad = 1
    AssignCap = 2
    MaxFiled = 1
    OPatchFails = FALSE
    Sender = {"s1"}
    Alert = {"rollback"}
    AlertCooldown = 2
    PerMinute = 1
    GatewayLies = FALSE
    Pid = {1, 2}
    WTicket = {}
    LogStall = 1
    TicketStall = 1
    AuditGap = 1
    ByOperator = FALSE
    MonitorDies = FALSE
    Fp = {"e"}
    FileOf <- MCFileOf
    SeverityOf <- MCSeverityOf
    Slot = {1}
    MaxNew = 1
    SevFloor = 0
    DedupFor = 1
    RegressFor = 1
    PropagateFor = 1
    VerifyFor = 1
    DepTicket = {"x", "y", "z"}
    DependsOn <- MCDependsOn
    BlockTimeout = 1
    BlockEscalateAfter = 2
    MaxReopen = 1
PROPERTIES
    EveryTaskFinishes
    InvestigationEnds
    
    EngineComesBack
    CheckoutComesFree
    StuckIsReset
    DaemonComesBack
    
CHECK_DEADLOCK FALSE

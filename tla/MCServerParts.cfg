SPECIFICATION PartsSpec
CONSTANTS
    Thread = {h1, h2}
    DTicket = {"", "t1"}
    Item = {"s1"}
    MaxRequests = 2
    DRunner = TRUE
    AddRaises = TRUE
    OTicket = {a}
    Feature = {a}
    Vm = {v}
    Bot = {x, y}
    OIssue = {i, j}
    StuckHours = 1
    MaxHours = 2
    Exhausted = 1
    CascadeMin = 1
    CascadeSpan = 1
    MaxLoad = 1
    AssignCap = 2
    MaxFiled = 2
    OPatchFails = TRUE
    AThread = {"t1", "t2"}
    Login = {"u", "v"}
    Admins = {}
    Pref = {"p", "q"}
    SecretName = {"n"}
    SlugTries = 4
    MaxAct = 4
    Ttl = 1
    KeyIsSet = TRUE
    RequestsFail = TRUE
    UsageTicket = {"", "t"}
    UsageModel = {"o", "s"}
    FamilyOf <- MCFamilyOf
    Rate <- MCRate
    LimitChoices <- MCLimitChoices
    DefaultLimits <- MCDefaultLimits
    DaysPerMonth = 2
    MaxDay = 3
    HistoryMax = 1
    MaxUsage = 2
    WithDatabase = TRUE
    DatabaseFails = FALSE
    DiskFills = TRUE
    CHandler = {"h1", "h2"}
    EntryName = {"p", "q"}
    FirstConfig <- MCFirstConfig
    MaxChanges = 2
    ServerDies = TRUE
    CpThread = {h1, h2}
    CpTicket = {"t"}
    TopPriority = 1
    MaxCalls = 3
    MaxEdits = 1
    CpDies = TRUE
    Client = {"c", "d"}
    Msg = {"m", "n"}
    BadMsg = {"n"}
    HubIsSet = TRUE
    MaxLine = 2
    ServerStops = TRUE
    RemoteAgent = {"r"}
    LocalAgent = {"l"}
    Skilled = {"r", "l"}
    CardTtl = 2
    HubLists = TRUE
    MaxDead = 4
    Quota = 4
    Tiers <- MCTiers
    OperatorRules <- MCOperatorRules
    PeakMult = 6
    WeekendMult = 15
    MinAgents = 1
    MaxAgents = 3
    FullDay = 2
    PeakHours = {1}
    DayHours = 2
    MaxCost = 1
    Sustain = 1
    AlertGap = 0
    CriticalPct = 10
    Bands <- MCBands
    BaseLimit = 2
    BaseSeverity = 2
    Surge = 1
    CritSurge = 1
    SurgeMult = 15
    CritSurgeMult = 20
    MaxBacklog = 1
    TrackerFails = FALSE
INVARIANTS
    
    AcceptedHasTicket
    
    StopOutlivesRestarts
    TicketsListedOnce
    
PROPERTIES
    LoginHasAccount
CHECK_DEADLOCK FALSE

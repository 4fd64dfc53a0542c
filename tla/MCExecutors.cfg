SPECIFICATION ExecutorsSpec
CONSTANTS
    t1 = t1
    t2 = t2
    Investigate = Investigate
    Task = {t1, t2}
    Type = {Investigate}
    Worker = {w1, w2}
    NoWorker = NoWorker
    TypeOf <- MCTypeOf
    PriorityOf <- MCPriorityOf
    MaxRetries = 2
    RetryDelay = 1
    Lease = 1
    Skew = 0
    MaxTasks = 2
    Timely = TRUE
    SubmitMayRaise = FALSE
    PTicket = {a, b}
    Sandbox = {}
    Job = {1, 2}
    Profiles <- MCProfiles
    Base <- MCBase
    MaxPools = 1
    TreePool = 1
    PRateLimits = TRUE
    SubmitRefuses = TRUE
    PMayCrash = TRUE
INVARIANTS
    WorkIsHeld
    NoHeartbeatLeft
    OneInvestigationAtATime
SYMMETRY Symmetry

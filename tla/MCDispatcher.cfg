SPECIFICATION DispatcherSpec
CONSTANTS
    t1 = t1
    t2 = t2
    Investigate = Investigate
    Task = {t1, t2}
    Type = {Investigate}
    Worker = {w1}
    NoWorker = NoWorker
    TypeOf <- MCTypeOf
    PriorityOf <- MCPriorityOf
    MaxRetries = 2
    RetryDelay = 1
    Lease = 1
    Skew = 0
    MaxTasks = 2
    Timely = FALSE
    SubmitMayRaise = TRUE
PROPERTIES
    ImplementsLease

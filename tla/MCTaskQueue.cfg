SPECIFICATION QueueSpec
CONSTANTS
    t1 = t1
    t2 = t2
    t3 = t3
    Investigate = Investigate
    Develop = Develop
    w1 = w1
    NoWorker = NoWorker
    Task <- MCTask
    Type <- MCType
    Worker <- MCWorker
    TypeOf <- MCTypeOf
    PriorityOf <- MCPriorityOf
    MaxRetries = 2
    RetryDelay = 1
    Lease = 1
    Skew = 1
INVARIANTS
    QueueTypeOK
    OneEntryPerQueuedTask
    DeadLetterExact
    RecoveryHandsOut
    WaitingIsUnowned
PROPERTIES
    FinishedIsFinal

SPECIFICATION AlertsOnly
CONSTANTS
    Sender = {"s1"}
    Alert = {"rollback"}
    AlertCooldown = 2
    PerMinute = 2
    GatewayLies = FALSE
    Pid = {}
    WTicket = {}
    LogStall = 1
    TicketStall = 1
    AuditGap = 1
    ByOperator = FALSE
    MonitorDies = FALSE
INVARIANT FallbackIsTried
CHECK_DEADLOCK FALSE

SPECIFICATION Spec
CONSTANTS
    a = a
    b = b
    Ticket = {a, b}
    NoTicket = NoTicket
    Unfit = {b}
    MaxSessions = 2
    MaxTimeouts = 2
    MaxReinvestigations = 1
    MaxRejections = 1
    Allowed = {"develop", "review"}
    SharedObjects = FALSE
    MayCrash = TRUE
    RateLimits = TRUE
INVARIANTS
    ReportOrAutomation
PROPERTIES
    ResolvedIsFinal
    

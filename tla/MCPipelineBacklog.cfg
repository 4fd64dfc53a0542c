SPECIFICATION FairSpec
CONSTANTS
    a = a
    b = b
    Ticket = {a}
    NoTicket = NoTicket
    Unfit = {}
    MaxSessions = 2
    MaxTimeouts = 2
    MaxReinvestigations = 1
    MaxRejections = 2
    Allowed = {"develop", "review"}
    SharedObjects = TRUE
    MayCrash = FALSE
    RateLimits = FALSE
PROPERTIES
    DevBacklogIsWorked

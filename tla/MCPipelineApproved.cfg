SPECIFICATION Spec
CONSTANTS
    a = a
    b = b
    Ticket = {a, b}
    NoTicket = NoTicket
    Unfit = {b}
    MaxSessions = 2
    MaxTimeouts = 2
    MaxReinvestigations = 1
    MaxRejections = 2
    Allowed = {"develop", "review"}
    SharedObjects = TRUE
    MayCrash = FALSE
    RateLimits = FALSE
PROPERTIES
    ApprovedStaysInReview

SPECIFICATION FilesSpec
CONSTANTS
    CHandler = {"h1", "h2"}
    EntryName = {"p", "q"}
    FirstConfig <- MCFirstConfig
    MaxChanges = 2
    ServerDies = FALSE
INVARIANT ConfigSurvives
CHECK_DEADLOCK FALSE

\* Ctrl-C while a check waits: does the host stop?
SPECIFICATION FairSpec
CONSTANTS
    Clients = {c1, c2}
    Requests = {"check", "notify"}
    Files = {"source"}
    None = None
    StartMode = "watch"
    IOFails = FALSE
    MaxEdits = 1
    MaxRequests = 2
CHECK_DEADLOCK FALSE
PROPERTIES StopCompletes

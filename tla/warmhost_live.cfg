\* check --watch becomes the host, with failing reads, under fair threads.
SPECIFICATION FairSpec
CONSTANTS
    Clients = {c1, c2}
    Requests = {"check", "notify"}
    Files = {"source"}
    None = None
    StartMode = "watch"
    IOFails = TRUE
    MaxEdits = 1
    MaxRequests = 2
CHECK_DEADLOCK FALSE
PROPERTIES DirtyIsRerun RequestsSettle

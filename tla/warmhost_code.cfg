\* A promoted standby, whose event source is older than its warm-up: two kinds of
\* file edited; checks, hook notifications and shutdowns from two clients.
SPECIFICATION Spec
CONSTANTS
    Clients = {c1, c2}
    Requests = {"check", "notify", "otherOptions", "status", "shutdown"}
    Files = {"source", "manifest"}
    None = None
    StartMode = "standby"
    IOFails = FALSE
    MaxEdits = 2
    MaxRequests = 2
CHECK_DEADLOCK FALSE
SYMMETRY ClientSymmetry
INVARIANTS TypeOK WaitedAnswerIsFresh IdleReportReflectsDisk

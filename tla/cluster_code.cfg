\* Three hosts and a crash: slow warm-ups and `check --watch`, or two requests of a client.
SPECIFICATION Spec
CONSTANTS
    Hosts = {h1, h2, h3}
    Client = Client
    None = None
    Torn = Torn
    Settings <- InParts
    MaxCrashes = 1
CHECK_DEADLOCK FALSE
SYMMETRY HostSymmetry
INVARIANTS TypeOK RecordIsTrue ServingLeaderIsReachable

\* Two standbys: the one elected is not the one that elects.
SPECIFICATION FairSpec
CONSTANTS
    Hosts = {h1, h2, h3}
    Client = Client
    None = None
    Torn = Torn
    Settings <- Plain
    MaxCrashes = 0
CHECK_DEADLOCK FALSE
PROPERTIES FailoverCompletesUnlessMisled

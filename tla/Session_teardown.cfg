SPECIFICATION Spec
CONSTANTS
    None = None
    NOffers = 2
    Overlapping = FALSE
    Keys = {}
    Rates = {}
    ConfigRate = 1
    MinPort = 1
    MaxPort = 2
    Interfaces <- MCInterfaces
    eth = eth
    docker = docker
    PublicIp = ip
    MaxEvents = 2
    MaxMsgs = 0
PROPERTY TeardownSparesNewer
\* A server with no further offer and no live client just waits.
CHECK_DEADLOCK FALSE

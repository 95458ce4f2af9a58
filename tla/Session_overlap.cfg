SPECIFICATION Spec
CONSTANTS
    None = None
    NOffers = 2
    Overlapping = TRUE
    Keys = {}
    Rates = {}
    ConfigRate = 1
    MinPort = 1
    MaxPort = 2
    Interfaces <- MCInterfaces
    eth = eth
    docker = docker
    PublicIp = ip
    MaxEvents = 1
    MaxMsgs = 0
INVARIANT OneClient
\* A server with no further offer and no live client just waits.
CHECK_DEADLOCK FALSE

SPECIFICATION Spec
CONSTANTS
    None = None
    NOffers = 1
    Overlapping = FALSE
    Keys = {k}
    Rates = {}
    ConfigRate = 1
    MinPort = 1
    MaxPort = 1
    Interfaces <- MCInterfaces
    eth = eth
    docker = docker
    PublicIp = ip
    MaxEvents = 2
    MaxMsgs = 1
INVARIANT NoKeyWhileUnreachable
\* A server with no further offer and no live client just waits.
CHECK_DEADLOCK FALSE

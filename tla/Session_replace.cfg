SPECIFICATION FairSpec
CONSTANTS
    None = None
    NOffers = 2
    Overlapping = FALSE
    Keys = {k}
    Rates = {1}
    ConfigRate = 1
    MinPort = 1
    MaxPort = 2
    Interfaces <- MCInterfaces
    eth = eth
    docker = docker
    PublicIp = ip
    MaxEvents = 2
    MaxMsgs = 2
INVARIANT TypeOK
INVARIANT LiveIsRegistered
INVARIANT LiveClientServed
INVARIANT LateInputBounded
INVARIANT PortsRotate
INVARIANT AddressKept
PROPERTY ClosedSessionEnds
\* A server with no further offer and no live client just waits.
CHECK_DEADLOCK FALSE

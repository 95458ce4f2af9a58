SPECIFICATION FairSpec
CONSTANTS
    None = None
    Screens <- OnePicture
    Sessions = {1, 2}
    Bitrates = {1}
    ConfigRate = 1
    IntMax = 13
    SinkCap = 1
    Faults = {"writer"}
    MaxFaults = 1
PROPERTY KeyframeArrives
PROPERTY IdleWithoutClient

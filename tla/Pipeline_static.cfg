SPECIFICATION FairSpec
CONSTANTS
    None = None
    Screens <- TwoModes
    Sessions = {1}
    Bitrates = {1}
    ConfigRate = 1
    IntMax = 13
    SinkCap = 1
    Faults = {"encode", "skip", "unforced", "capture"}
    MaxFaults = 1
PROPERTY LatestScreenShown

SPECIFICATION FairSpec
CONSTANTS
    None = None
    MaxFbs = 2
    MaxBuffers = 3
    Unmappable = {}
PROPERTY SettledFrameIsCurrent

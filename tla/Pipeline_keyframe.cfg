SPECIFICATION Spec
CONSTANTS
    None = None
    Screens <- OnePicture
    Sessions = {1, 2}
    Bitrates = {1, 4}
    ConfigRate = 1
    IntMax = 13
    SinkCap = 1
    Faults = {"create", "encode", "rate", "halfrate", "capture"}
    MaxFaults = 1
INVARIANT TypeOK
INVARIANT BuffersBounded
INVARIANT KeyframeRequestKept
INVARIANT BitrateBelieved
INVARIANT TargetWithinCeiling
PROPERTY KeyframeServed
PROPERTY SkippedFrameWasHandedOver

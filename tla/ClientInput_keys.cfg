SPECIFICATION FairSpec
CONSTANTS
    Radix = 18
    KeyCodes <- AllKeyCodes
    Keys = {19, 193}
    Buttons = {0}
    Unmapped = {193}
    Windows <- ThreeWindows
    StartWindow <- SideBars
    Sources <- TwoModes
    StartMode <- Wide
    Points <- TwoPoints
    NoPosition = NoPosition
    Deltas <- HalfNotches
    Notch = 2
    WheelMax = 1
    Version = 1
    StartBitrate = 12000
    Failures = {"press", "release", "wheel", "move", "scale", "present"}
    Scenarios <- FourScenarios
    MaxFailures = 1
\* A closed window and delivered messages are the end.
CHECK_DEADLOCK FALSE
INVARIANT TypeOK
INVARIANT HeldIsPressed
INVARIANT WheelConserved
INVARIANT Understood
INVARIANT Framed
INVARIANT PointerOnPicture
PROPERTY AwayReleases
PROPERTY PictureFitted

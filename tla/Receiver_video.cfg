SPECIFICATION FairSpec
CONSTANTS
    AuCap = 2
    HwLimit = 2
    MaxPending = 2
    MaxFaults = 2
\* Once the decode thread has given up, read_track ends and nothing is left to do.
CHECK_DEADLOCK FALSE
INVARIANT TypeOK
PROPERTY PictureArrives
PROPERTY SmearCleared

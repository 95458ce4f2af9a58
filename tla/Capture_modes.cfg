SPECIFICATION FrameSpec
CONSTANTS
    None = None
    MaxFbs = 2
    MaxBuffers = 4
    Unmappable = {2}
    Image <- SmallImages
INVARIANT TypeOK
INVARIANT StaleOnlyByReuse
INVARIANT FrameIsPicture
INVARIANT LimitedRange
PROPERTY FramesResume

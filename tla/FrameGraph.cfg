CONSTANTS
    BackBuffers = 2
    IterMax = 2
    Frames <- MCFrames
SPECIFICATION FairSpec
INVARIANTS
    UsesSound
    FrameWhole
PROPERTY TileArrives

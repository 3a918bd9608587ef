SPECIFICATION FairSpec
CONSTANTS
    Looks <- MCLooks
    Cameras <- MCCameras
    Phis <- MCPhis
    Starts <- MCStarts
    Surfaces <- MCSurfaces
    StillCap = 3
    ReprojectCaps <- MCCaps
    EmaCaps <- MCEma
    FrameModulus = 6
    DenoiseReady = TRUE
    MaxTunes = 3
    MaxEdits = 1
INVARIANTS
    TypeOK
    OneImage
PROPERTIES
    HistoryAligned
    Converges
    MotionForgets

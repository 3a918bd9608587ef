SPECIFICATION Spec
CONSTANTS
    Looks <- MCLooks
    Cameras <- MCCameras
    Phis <- MCPhis
    Starts <- MCStarts
    Surfaces <- MCSurfaces
    StillCap = 3
    ReprojectCaps <- MCCaps
    EmaCaps <- MCEma
    FrameModulus = 6
    DenoiseReady = TRUE
    MaxTunes = 2
    MaxEdits = 1
INVARIANTS
    KnobsNotStored

SPECIFICATION SceneSpec
CONSTANTS
    Axes <- MCAxes
    ChunkSize = 1
    WorldDim = 2
    PaletteSize = 6
    Colors = {0, 1, 2, 3, 4, 5}
    NoColor = 0
    Distance <- MCDistance
    Space <- MCSpace
    Writes = {}
    Models <- MCModels
    Offsets <- MCOffsets
    Radii = {0, 1}
    Demo <- MCDemo
    Setups <- MCPinned
    NoModel = NoModel
    DebrisColor = 4
INVARIANTS
    DebrisStaysColored

SPECIFICATION Spec
CONSTANTS
    Axes <- MCAxes
    ChunkSize = 2
    WorldDim = 4
    PaletteSize = 2
    Colors = {0}
    NoColor = 0
    Distance <- MCDistance
    Space <- MCSpace
    Writes <- MCWrites
    Models <- MCModels
    Offsets <- MCOffsets
    Radii = {1}
INVARIANTS
    NoEmptyChunks
    BakeExact
    StampsWhole
PROPERTIES
    GridSpec

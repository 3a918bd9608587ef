SPECIFICATION FairSpec
CONSTANTS
    Cells <- MCCells
    BrickOf <- MCBrickOf
    Materials = {1, 2}
    Air = 0
    Blasts <- MCBlasts
    Poses <- MCPoses
    Stamps <- MCStamps
    MaxLives <- MCMaxLivesSmall
    MaxBodies = 2
    Reservations <- MCMaxLivesSmall
    Ttl = 1
    CmdsPerDrain = 1
    RendererValid = FALSE
PROPERTIES
    ChunksExpire

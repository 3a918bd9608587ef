SPECIFICATION FairSpec
CONSTANTS
    Cells <- MCCells
    BrickOf <- MCBrickOf
    Materials = {1, 2}
    Air = 0
    Blasts <- MCBlasts
    Poses <- MCPoses
    Stamps <- MCStamps
    MaxLives <- MCMaxLives
    MaxBodies = 3
    Reservations <- MCMaxLives
    Ttl = 1
    CmdsPerDrain = 1
    RendererValid = TRUE
INVARIANTS
    NoGhosts
    BricksExact
    ChunksOwnBodies
PROPERTIES
    SpawnsRecycle
    ChunksExpire

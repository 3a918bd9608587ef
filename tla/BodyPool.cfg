SPECIFICATION Spec
CONSTANTS
    MaxBodies <- MCMaxBodies
    Reservations <- MCReservations
INVARIANTS
    TypeOK
    FreeListSound
    SceneMatchesSlots
    PoolRecycles
PROPERTIES
    NoDoubleLend
    IdsStable

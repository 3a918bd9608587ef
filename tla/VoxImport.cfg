CONSTANTS
    Heads <- MCHeads
    Chunks <- MCChunks
    MaxChunks = 3
    ColorSlots = 4
SPECIFICATION ImportSpec
INVARIANT ImportExact
CHECK_DEADLOCK FALSE

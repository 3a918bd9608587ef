SPECIFICATION StoreSpec
CONSTANTS
    Registry <- MCRegistry
    Texts <- MCTexts
    NumberOf <- MCNumberOf
    TextOf <- MCTextOf
    TrueTexts <- MCTrueTexts
    One <- MCOne
    Zero <- MCZero
    Rejected <- MCRejected
    NotString <- MCNotString
    Files <- MCFiles
    Off <- MCOff
INVARIANTS
    ValuesNormal
PROPERTIES
    RestartRestores
    UnknownRoundTrips

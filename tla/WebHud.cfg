CONSTANTS
    page = page
    mode = mode
    number = number
    Pages <- MCPages
    Cvars <- MCCvars
    DeckCvars <- MCDeckCvars
    Values <- MCValues
    Offered <- MCOffered
    Accepted <- MCAccepted
    Defaults <- MCDefaults
    Presets <- MCPresets
    Refused = Refused
    Unlisted = Unlisted
    Nobody = Nobody
    MaxEdits = 2
    MaxOthers = 1
    MaxOpens = 2
SPECIFICATION FairSpec
INVARIANT LastWordHolds
INVARIANT UntouchedShown
PROPERTY PagesSettle
CHECK_DEADLOCK FALSE

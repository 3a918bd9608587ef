CONSTANTS
    page = page
    mode = mode
    number = number
    Pages <- MCPages
    Cvars <- MCCvars
    DeckCvars <- MCDeckCvars
    Values <- MCValues
    Offered <- MCOffered
    Accepted <- MCFree
    Defaults <- MCDefaults
    Presets <- MCPresets
    Refused = Refused
    Unlisted = Unlisted
    Nobody = Nobody
    MaxEdits = 2
    MaxOthers = 1
    MaxOpens = 2
SPECIFICATION Spec
INVARIANT ExternalRebuilds
CHECK_DEADLOCK FALSE

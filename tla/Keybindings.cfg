SPECIFICATION Spec
CONSTANTS
    Chords = {"Esc", "F3"}
    Targets = {"quit", "toggle", ""}
    Blank <- MCBlank
    Defaults <- MCDefaults
    Edits <- MCEdits
    MaxWrites = 5
INVARIANTS
    NoShadowing
    OwnSavesStick

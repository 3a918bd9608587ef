SPECIFICATION Spec
CONSTANTS
    LineClients = {c1, c2}
    Conns = {w1}
    MaxLines = 1
    MaxSessions = 2
    MaxMessages = 2
    NoSession = NoSession
INVARIANTS
    RepliesToSender
CHECK_DEADLOCK FALSE

SPECIFICATION FairSpec
CONSTANTS
    LineClients = {c1, c2}
    Conns = {w1}
    MaxLines = 2
    MaxSessions = 1
    MaxMessages = 1
    NoSession = NoSession
INVARIANTS
    LinesOncePerOrder
    AnswersMatch
PROPERTIES
    StopsWhenAsked
CHECK_DEADLOCK FALSE

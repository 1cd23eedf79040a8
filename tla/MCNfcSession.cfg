SPECIFICATION Spec
CONSTANTS
    t1 = t1
    t2 = t2
    url = url
    huge = huge
    NoMessage = NoMessage
    Messages <- MCAllMessages
    Tokens <- MCAllTokens
    LenOf <- MCAllLenOf
    Writers <- MCAllWriters
    Room = 4
    MaxChunk = 2
    MaxSessions = 3
    Callers <- MCKeypad
    MaySlow = FALSE
CHECK_DEADLOCK FALSE
INVARIANT OneSession
INVARIANT ResultIsOwn
INVARIANT IdleIsIdle
INVARIANT TokensWhole
PROPERTY KeypadReturns
PROPERTY AnsweredIsTaken

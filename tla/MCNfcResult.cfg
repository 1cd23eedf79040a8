SPECIFICATION Spec
CONSTANTS
    t1 = t1
    t2 = t2
    url = url
    huge = huge
    NoMessage = NoMessage
    Messages <- MCMessages
    Tokens <- MCTokens
    LenOf <- MCLenOf
    Writers <- MCWriters
    Room = 1
    MaxChunk = 1
    MaxSessions = 3
    Callers <- MCKeypad
    MaySlow = TRUE
CHECK_DEADLOCK FALSE
INVARIANT PaidIsOwn

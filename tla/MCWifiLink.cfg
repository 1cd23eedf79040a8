SPECIFICATION Spec
CONSTANTS
    a = a
    b = b
    c = c
    r1 = r1
    r2 = r2
    Origins <- MCOrigins
    NoOrigin = NoOrigin
    Requesters <- MCRequesters
    Closer = sup
    NoTask = NoTask
    FastRetryCount = 3
INVARIANT TypeOK
INVARIANT RequestOwnsClient
INVARIANT StaleNeverFails
PROPERTY LinkReturns

\* Tokens, amounts, signatures and stored forms through the wallet's flows.
SPECIFICATION Spec
CONSTANTS
    None = None
    Keysets <- MCKeysets
    IdOrder <- MCIdOrder
    NotHex <- MCNotHex
    Q <- MCQ
    Starts <- MCStarts
    OurLocks <- MCOurLocks
    TheirLocks <- MCTheirLocks
    Requests <- MCRequests
    LockKey = "key"
    Damages <- MCDamages
    MeltTerms <- MCMeltTerms
    Refunds = {0, 1}
    MaxOps = 3
    MaxPaid = 3
INVARIANT Inv
INVARIANT ProofsGenuine
INVARIANT PostsAddUp
INVARIANT TokensReadBack
INVARIANT FlashReadsBack
INVARIANT SelectionsRight
INVARIANT RequestsReadBack
PROPERTY Balanced
CHECK_DEADLOCK FALSE

\* The offline queue through drains, removals and power losses.
SPECIFICATION Spec
CONSTANTS
    a = a
    b = b
    t1 = t1
    t2 = t2
    MaxMints = 2
    PendMax = 2
    Mints <- MCMints
    NoMint = NoMint
    Tokens <- MCTokens
    NoToken = NoToken
    MintOf <- MCMintOf
    MaxStash = 3
INVARIANTS TypeOK StashedKept WalletPure QueueDense
SYMMETRY MCSymmetry

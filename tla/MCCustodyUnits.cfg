\* Two units and every flash fault: what the blob holds.
SPECIFICATION Spec
CONSTANTS
    sat = sat
    usd = usd
    Keysets <- MCKeysets
    MaxIndex = 1
    Foreign = 0
    Quotes = {q1, q2}
    NoQuote = NoQuote
    MaxOutputs = 1
    MaxWire = 1
    BlobMax = 1
    Seeded = TRUE
    NvsFaults <- MCAllFaults
INVARIANT OnlyPaidReturn
PROPERTY VaultSpec

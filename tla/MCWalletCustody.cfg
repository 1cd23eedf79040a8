\* One unit: derivation indexes, lost answers, late delivery, power loss.
SPECIFICATION FairSpec
CONSTANTS
    sat = sat
    usd = usd
    Keysets = {sat}
    MaxIndex = 2
    Foreign = 1
    Quotes = {q1}
    NoQuote = NoQuote
    MaxOutputs = 2
    MaxWire = 2
    BlobMax = 1
    Seeded = TRUE
    NvsFaults <- MCFaults
INVARIANTS TypeOK OutputsReserved
PROPERTIES NoOutputReuse FlowEnds

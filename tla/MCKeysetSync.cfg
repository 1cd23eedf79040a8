SPECIFICATION Spec
CONSTANTS
    k1 = k1
    k2 = k2
    k3 = k3
    Ids <- MCIds
    UnitOf <- MCUnitOf
    Derived <- MCDerived
    OldIds = {}
    Repriced = {k1}
    PrefixOf <- MCPrefixOf
    MaxKeysets = 2
    LegacyLists <- MCLegacy
    MayRefuse = TRUE
INVARIANT TypeOK
INVARIANT HeldListed
PROPERTY CapKeepsHeld

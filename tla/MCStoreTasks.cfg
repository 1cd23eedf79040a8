SPECIFICATION FairSpec
CONSTANTS
    NoTask = NoTask
    Slots <- MCTwoSlots
INVARIANT TypeOK
INVARIANT FrameHeals
INVARIANT NoCircle
PROPERTY DrainRearms

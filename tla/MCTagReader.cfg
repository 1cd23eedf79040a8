SPECIFICATION Spec
CONSTANTS
    sticker = sticker
    bolt = bolt
    poster = poster
    NoTag = NoTag
    Tags <- MCTags
    Kind <- MCKind
    Delay <- MCDelay
    Asks <- MCAsks
    TokenTags <- MCTokenTags
    Blocks = 2
    MaxSessions = 1
CHECK_DEADLOCK FALSE
INVARIANT TextsWhole
INVARIANT RestsClean
PROPERTY HeldTagTaken

SPECIFICATION EventsSpec
CONSTANTS
    id1 = id1
    id2 = id2
    id3 = id3
    NoNode = NoNode
    Ids <- MCIds
    MaxSize = 2
    MaxSets = 3
    MaxFailures = 1
    MaxCopies = 3
    MaxList = 2
    ChannelParts <- MCChannelParts
    MessageParts <- MCMessageParts
    InteractionParts <- MCInteractionParts
SYMMETRY Symmetry
INVARIANTS
    SharedOnlyIcons
    KnownLeaks
    DanglingOnlyIcons
    OldIsPrevious
    ListIntact
CHECK_DEADLOCK FALSE

SPECIFICATION CodecSpec
CHECK_DEADLOCK FALSE
CONSTANTS
    HeaderSize = 2
    SkipHeaderSize = 2
    WindowSize = 2
    BlockSizeMax = 2
    BoundMargin = 6
    TotalMax = 7
    WireMax = 0
    CRooms = {9}
    Feeds = {0, 7}
    SkipSizes = {0, 1}
    DBlockSizeMax = 2
    MinWindow = 1
    WildcopyLength = 0
    DTooLargeFactor = 3
    DMaxDuration = 1
    MaxFailures = 1
    DRooms = {1, 7}
    Arrivals = {0, 1, 20}
    MINMATCH = 2
    LASTLITERALS = 2
    MFLIMIT = 4
    DistanceMax = 7
    U16Max = 7
    HashSize = 2
    Byte = {0, 1}
    ShortHash <- MCShortHash
    LongHash <- MCLongHash
    CopySize = 4
    WordSize = 4
    SkipTrigger = 1
    NibbleMask = 3
    ByteMax = 4
    OffsetSize = 1
    LzBoundMargin = 4
    Window = 8
    SmallPage = 7
    IndexMax = 17
    RenormMax = 30
    HashUnit = 3
    Lz4Memory = 14
    Places = {1, 4}
    SaveSizes = {3, 8}
    Pages <- MCPages
    Caps = {0, 4, 6}
    Speeds = {1}
    Dictionary <- MCDictionary
    Calls = 3
    Stores <- MCStores
    FirstReach = 2
    DefaultReach = 3
    BasicMax = 1
    BlocksMax = 2
INVARIANTS
    ZeroMeansDone
    HistoryHeld
    DecodesToPage
    FitsItsRoom
    DecoderInStep
PROPERTIES
    DeliversInOrder
    FrameArrives

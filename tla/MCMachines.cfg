SPECIFICATION MachinesSpec
CONSTANTS
    Alignment = 2
    TooLargeFactor = 3
    MaxDuration = 1
    Base = 3
    Capacity = {8}
    Sizes = {1, 2, 4}
    StartIndex = 2
    HashReadSize = 2
    CurrentMax = 11
    CycleSize = 1
    MaxDist = 2
    BlockMax = 2
    Margin = 2
    Memory = 4
    ChunkMax = 3
    Profiles <- MCProfiles
    OptSizes <- MCOptSizes
    SizeofCCtx = 3
    SizeofBlockState = 3
    TmpWorkspaceSize = 2
    CellSize = 2
    SeqDefSize = 3
    WildcopyOverlength = 3
    Starts = {5, 6}
    MinTableLog = 5
    MaxTableLog = 12
    TableLogMax = 12
    FastTableLog = 11
    LitSources <- MCLitSources
    Strategies = {3, 5, 8}
    DictCounts <- MCDictCounts
    SampleSize = 28
    SectionsMax = 2
    SeqLists <- MCSeqLists
    SeqStrategies = {3, 5}
    SeqSectionsMax = 2
    Short = 3
    Long = 4
    HashRead = 4
    SearchStep = 4
    Buckets = 8
    Chain = 4
    MfWindow = 12
    StepSize = 2
    Attempts = 4
    LazySkipping = 1
    Unfound = 999999999
    FoundTexts <- MCFoundTexts
    Kinds = {"fast", "dfast", "greedy", "lazy", "lazy2", "btlazy2"}
    StaleCells = {3}
    FirstIndex = 4
    UpdateGap = 6
    UpdateBack = 3
    FoundSize = 38
INVARIANTS
    Disjoint
    ContentsKnown
    HistoryIntact
    EntryFaithful
    OffsetsDecodable
    IndicesBounded
    EstimateSuffices
    ReadyForFrame
    NothingLeaks
    LiteralsArrive
    SequencesArrive
    FoundTells

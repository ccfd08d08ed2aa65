CONSTANTS
    Threads <- LockThreads
    ProcessOf <- LockProcess
    ReaderThreads <- ThreeReaders
    MmapLimit = 1
    FdLimit = 1
    BufferSize = 3
    AppendSizes <- DataSizes
    MaxBytes = 9
    MaxErrors = 1
    Schedulers <- TwoSchedulers
    MaxItems = 3
    CacheThreads <- CacheUsers
    FileNumbers <- TwoFiles
    Handles <- FiveHandles
    Capacities <- CacheCapacities
    EntryCharge <- FileCharge
    UserKeys <- TwoUserKeys
    Sequence = 3
    MaxSequence = 4
    BadFiles <- SecondFile
    MaxKey = 3
    kMaxHeight = 3
    BlockSize = 6
    HeaderSize = 2
    Sizes <- RecordSizes
    MaxRecords = 3
    Offsets <- LogOffsets
    Field <- EncodeTable
    Order <- EncodeOrder
    Root = "Root"
    Contents <- EncodeContents
    Buffers <- BufferSizes
    Chunks <- CallbackChunks
SPECIFICATION PartsSpec
INVARIANTS
    ReadsAreRecords
    NoNeedlessLoss
    ReadsKept
    IteratorFollowsSnapshot
    CacheAccountsForAll
    ReadersMissNothing
    TableFindsEntries
    OneHolderInProcess
    LimitsHold
    BytesInOrder
    WorkIsTaken
    MemoryOwned
    LengthsTrue
CHECK_DEADLOCK FALSE

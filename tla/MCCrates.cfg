CONSTANTS
    Radix = 4
    MaxDepth = 5
    Values <- XdrValues
    Encodings <- XdrEncodings
    MAGIC = 27
    VERSION = 1
    FILENAME_CHARSET_MAX = 2
    STREAM_AFFIX_MAX = 2
    Formats <- Settings
    Holders = {a, b}
    Entries <- TableEntries
    Filters <- TableFilters
    MaxSlots = 3
    MaxAdds = 3
    MaxNext = 2
    MaxCalls = 3
    MaxBatch = 2
    MaxObjects = 8
    MaxOut = 2
    Plaintexts <- SignedMessages
    Headers = {0, 1}
    Paddings = {0, 1}
    Trailers = {0, 2}
    MaxMessages = 2
    MaxTxnRounds = 2
    MaxOps = 2
    MaxCommits = 2
    WalkKeys <- StoredKeys
    Starts <- WalkStarts
SPECIFICATION CratesSpec
CHECK_DEADLOCK FALSE
INVARIANTS
    
    IteratesWhole
    VerdictIsTrue
    FramesAreTheMessages
    AnswerIsForItsCall
    RefusalsNameTheirRequest
    RemovalIsExact
    ReleasedOnce
    InPlaceIsExact
    ResultIsTheHandshakes
    ReportsItsRounds
    AnswersHandedOrBurned
    WalksInOrder

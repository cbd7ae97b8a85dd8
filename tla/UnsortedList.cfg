\* Every list of four identifiers out of three, and for the trees lists of
\* seven that continue them: sixteen parentheses, eight superblocks of two words each.
SPECIFICATION ListSpec
CONSTANTS
    NumDocs = 3
    ListSize = 4
    MaxK = 3
    ScanThreshold = 1
    RankBlock = 2
    ZerosPerHint = 3
    WordBits = 1
    BlockWords = 2
    SuperblockSize = 1
    LongerBy = 3
INVARIANTS
    FoundOrQueued
    LeastValues
    QueuedAtLeftmost
    TreesFindLeftmost
CHECK_DEADLOCK TRUE

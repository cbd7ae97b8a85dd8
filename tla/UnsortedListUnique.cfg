\* Every list of three identifiers out of two.
SPECIFICATION ListSpec
CONSTANTS
    NumDocs = 2
    ListSize = 3
    MaxK = 2
    ScanThreshold = 1
    RankBlock = 2
    ZerosPerHint = 3
    WordBits = 1
    BlockWords = 2
    SuperblockSize = 1
    LongerBy = 0
INVARIANTS
    UniqueResults
CHECK_DEADLOCK TRUE

\* Buckets of a header and two strings; scans of up to two nodes.
SPECIFICATION Spec
CONSTANTS
    BucketSize = 2
    SearchThreshold = 1
    MaxTokens = 2
    MaxK = 2
    InvalidTerm = 99
    Collections <- MCCollections
    Words <- MCWords
INVARIANTS
    WordsFound
    TermRangeExact
    CompletionRangeExact
    AnswerExact
    ConjunctiveExact
CHECK_DEADLOCK TRUE

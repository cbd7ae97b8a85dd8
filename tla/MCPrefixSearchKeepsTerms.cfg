\* Dictionaries with a full last bucket, which has lost its terms.
SPECIFICATION Spec
CONSTANTS
    BucketSize = 2
    SearchThreshold = 1
    MaxTokens = 1
    MaxK = 2
    InvalidTerm = 99
    Collections <- LosingCollections
    Words <- MCWords
INVARIANT KeepsTerms
CHECK_DEADLOCK TRUE

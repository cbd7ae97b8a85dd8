\* What the test of locate_prefix() checks.
SPECIFICATION Spec
CONSTANTS
    BucketSize = 2
    SearchThreshold = 1
    MaxTokens = 2
    MaxK = 2
    InvalidTerm = 99
    Collections <- KeptCollections
    Words <- MCWords
INVARIANT LocatesExpected
CHECK_DEADLOCK TRUE

\* Every collection of two completions over four terms, in every blocking: four
\* terms are needed for a range that covers its first block in part and goes on.
SPECIFICATION FairBlockedSpec
CONSTANTS
    NumDocs = 2
    NumTerms = 4
    MaxTerms = 2
    MaxK = 2
INVARIANTS
    ReportsExactly
    ScoresMatch
    FoundWhenCovered
PROPERTIES
    Answers
CHECK_DEADLOCK TRUE

\* Every collection of three completions over three terms.
SPECIFICATION FairHeapSpec
CONSTANTS
    NumDocs = 3
    NumTerms = 3
    MaxTerms = 3
    MaxK = 2
INVARIANTS
    ScoresSorted
    HeapNeverAhead
    FoundOrAhead
PROPERTIES
    Answers
    RefinesTopK
CHECK_DEADLOCK TRUE

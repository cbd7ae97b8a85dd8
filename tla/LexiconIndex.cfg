\* Every collection of three completions over three terms, and all queries of
\* one token or of up to two known terms and a last one. Ranges of one term are
\* scanned, longer ones go to the Cartesian tree. What a query
\* of one token leaves in the queue is there for those of several terms where
\* two of the completions are in use.
SPECIFICATION BoundedSpec
CONSTANTS
    NumDocs = 3
    NumTerms = 3
    MaxTerms = 2
    MaxK = 2
    MixedDocs = 2
    ScanThreshold = 0
INVARIANTS
    ReportsExactly
    NeverSeeksBackward
    ScoresComplete
    StringsFollowScores
    FoundOrCovered
    RangesDisjoint
PROPERTIES
    RefinesStream
    RefinesTopK
    RoundsTakeOne
CHECK_DEADLOCK TRUE

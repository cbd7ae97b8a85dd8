\* As BlockedTopk.cfg, fewer terms: what the benchmark asserts of every query.
SPECIFICATION BlockedSpec
CONSTANTS
    NumDocs = 2
    NumTerms = 3
    MaxTerms = 2
    MaxK = 1
INVARIANT AnswersWhenPrefixDoes
CHECK_DEADLOCK FALSE

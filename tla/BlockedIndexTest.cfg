\* As BlockedTopk.cfg, three terms: what the unit test expects of every query.
SPECIFICATION MeetSpec
CONSTANTS
    NumDocs = 3
    NumTerms = 3
    MaxTerms = 2
INVARIANT MatchesPlainIntersection
CHECK_DEADLOCK FALSE

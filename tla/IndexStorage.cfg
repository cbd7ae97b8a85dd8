\* Every collection of four completions of at most two of four terms, in both list
\* types. Words of 8 bits (64 in the code), bytes of 2 (8) and identifiers of 4 (32)
\* let lists, pads and pointers straddle words, and an identifier fill half a word;
\* blocks of four ones, at most six bits long, are both dense and sparse; the ones
\* in Beyond are what a load behind the last word may see.
SPECIFICATION Spec
CONSTANTS
    NumDocs = 4
    NumTerms = 4
    MaxCompletion = 2
    LogSampling0 = 1
    LogSampling1 = 1
    EfScanThreshold = 1
    WordBits = 8
    ByteBits = 2
    IdBits = 4
    Beyond = {1, 3, 5, 9, 11, 17, 19, 25, 27, 33, 35, 41, 43, 49, 51, 57, 65, 67, 73, 75, 81, 89, 97, 105}
    BlockSize = 4
    SubblockSize = 2
    MaxInBlockDistance = 6
INVARIANTS
    ListsReadBack
    CompletionsReadBack
    ScansInStep
CHECK_DEADLOCK TRUE

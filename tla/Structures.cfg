\* Every list over eight identifiers; windows of more than two positions are
\* halved.  What is one value or one high part ahead is read for, the rest is
\* sought, and every fourth zero and one has a pointer.
\* Words of four bits: vectors of up to three words, codes of up to five bits
\* at any place, and a builder of two words appended at any place. Behind the
\* vector every other bit is a one.
\* Heaps of up to six entries (three levels), four keys.
SPECIFICATION StructuresSpec
CONSTANTS
    NumDocs = 8
    LinearScanThreshold = 1
    LogSampling0 = 2
    LogSampling1 = 2
    EfScanThreshold = 1
    WordBits = 4
    ByteBits = 2
    Beyond = {5, 7, 9, 11, 13, 15, 17, 19}
    MaxBits = 9
    MaxOther = 5
    MaxNumber = 6
    MaxKey = 3
    MaxSize = 6
INVARIANTS
    WindowHoldsAnswer
    SameCursor
    WordsHoldBits
    ReadsInPlace
    UnaryInStep
    PopFindsOrderBelow
PROPERTIES
    NextGeqReturns
    RefinesCursor
    ReadsWhatItPasses
    RefinesPriorityQueue
CHECK_DEADLOCK TRUE

------------------------- MODULE ListCursorsProofs -------------------------
(***************************************************************************)
(* next_geq of uncompressed_list goes to the next value that is not below  *)
(* its bound, whatever the list, the position, the bound, and the length   *)
(* from which a window is scanned; and compact_ef returns the same, from   *)
(* its high and low bits and its pointers, for every universe, every list, *)
(* every sampling and every threshold of its scan.                         *)
(***************************************************************************)
EXTENDS ListCursors, PostingsProofs, FiniteSetTheorems

-----------------------------------------------------------------------------
(***************************************************************************)
(* The inductive invariant.  WindowHoldsAnswer says nothing of where the   *)
(* window is: it is not empty unless the cursor was exhausted, it begins   *)
(* at or after the position of the call, and a scan without a search goes  *)
(* from there to the end.                                                  *)
(***************************************************************************)
Inside ==
    /\ from <= lo
    /\ from < size => lo <= hi
    /\ from = size => lo = size /\ hi = size - 1 /\ pos = size

IInv ==
    /\ TypeOK
    /\ PositionOfValue
    /\ WindowHoldsAnswer
    /\ pc # "ready" => Inside

(***************************************************************************)
(* What the types say of the numbers.                                      *)
(***************************************************************************)
LEMMA Numbers ==
    ASSUME TypeOK
    PROVE  /\ NumDocs \in Nat /\ NumDocs > 0
           /\ size \in Nat /\ size > 0
           /\ pos \in Nat /\ pos <= size
           /\ lo \in Nat /\ lo <= size
           /\ hi \in Nat /\ hi <= size - 1
           /\ from \in Nat /\ from <= size
           /\ lower \in Nat /\ lower <= NumDocs
           /\ DOMAIN data = 0 .. size - 1
           /\ \A p \in 0 .. size - 1 :
                  data[p] \in DocIds /\ data[p] \in Nat /\ data[p] < NumDocs
           /\ \A p, q \in 0 .. size - 1 : p < q => data[p] < data[q]
<1>1. data \in [0 .. size - 1 -> DocIds]
  BY DEF TypeOK, Arrays
<1>2. \A p, q \in 0 .. size - 1 : p < q => data[p] < data[q]
  BY DEF TypeOK, Arrays
<1>3. \A p \in 0 .. size - 1 : data[p] \in DocIds
  BY <1>1
<1>4. \A d \in DocIds : d \in Nat /\ d < NumDocs
  BY Universe
<1>5. NumDocs \in Nat /\ NumDocs > 0
  BY NumDocsAssumption
<1> QED  BY <1>1, <1>2, <1>3, <1>4, <1>5 DEF TypeOK, CursorValues

(***************************************************************************)
(* The middle of a window that is halved lies strictly inside it.          *)
(***************************************************************************)
LEMMA MiddleInside ==
    ASSUME TypeOK, Probes
    PROVE  /\ Middle \in Nat /\ lo < Middle /\ Middle < hi
           /\ LeftEnd = Middle - 1
           /\ Middle \in 0 .. size - 1 /\ LeftEnd \in 0 .. size - 1
<1>1. /\ lo \in Nat /\ hi \in Nat /\ hi <= size - 1 /\ size \in Nat
      /\ hi - lo > LinearScanThreshold
  BY Numbers DEF Probes
<1>2. hi - lo >= 2
  BY <1>1, LinearScanThresholdAssumption
<1>3. Middle \in Nat /\ lo < Middle /\ Middle < hi
  BY <1>1, <1>2 DEF Middle
<1> QED  BY <1>1, <1>3 DEF LeftEnd

(***************************************************************************)
(* A return takes the cursor to a position, with the value there.          *)
(***************************************************************************)
LEMMA ReturnKeeps ==
    ASSUME IInv, NEW p \in 0 .. size, ReturnAt(p, At(p))
    PROVE  IInv'
<1>1. At(p) \in 0 .. Unread
  BY Numbers DEF At, Unread, IInv
<1>2. TypeOK'
  BY <1>1, Numbers DEF IInv, TypeOK, ReturnAt, CursorValues
<1>3. At(p) = At(pos)'
  BY DEF ReturnAt, At
<1>4. PositionOfValue'
  BY <1>3 DEF PositionOfValue, ReturnAt
<1>5. pc' = "ready"
  BY DEF ReturnAt
<1> QED  BY <1>2, <1>4, <1>5 DEF IInv, WindowHoldsAnswer

(***************************************************************************)
(* What the scan of a window finds: every position before it is too small, *)
(* and its own value, if it has one, is not.                               *)
(***************************************************************************)
Answer(p) ==
    /\ p \in from .. size
    /\ \A q \in from .. p - 1 : data[q] < lower
    /\ p < size => data[p] >= lower

LEMMA ScanAnswers ==
    ASSUME IInv, pc # "ready", NEW p \in 0 .. size, ScannedTo(p)
    PROVE  Answer(p)
<1>1. TypeOK /\ Inside /\ WindowHoldsAnswer
  BY DEF IInv
<1>2. /\ size \in Nat /\ lo \in Nat /\ hi \in Nat /\ from \in Nat
      /\ from <= size /\ lo <= size /\ hi <= size - 1
      /\ \A q \in 0 .. size - 1 : data[q] \in Nat
      /\ lower \in Nat
  BY <1>1, Numbers
<1>3. \A q \in from .. lo - 1 : data[q] < lower
  BY <1>1 DEF WindowHoldsAnswer
<1>4. CASE p \in lo .. hi /\ data[p] >= lower /\ \A q \in lo .. p - 1 : data[q] < lower
  <2>1. p \in from .. size
    BY <1>1, <1>2, <1>4 DEF Inside
  <2>2. \A q \in from .. p - 1 : q \in from .. lo - 1 \/ q \in lo .. p - 1
    BY <1>2, <1>4
  <2> QED  BY <1>3, <1>4, <2>1, <2>2 DEF Answer
<1>5. CASE p = hi + 1 /\ \A q \in lo .. hi : data[q] < lower
  <2>1. p \in from .. size
    BY <1>1, <1>2, <1>5 DEF Inside
  <2>2. \A q \in from .. p - 1 : q \in from .. lo - 1 \/ q \in lo .. hi
    BY <1>2, <1>5
  <2>3. p < size => data[p] >= lower
    <3> SUFFICES ASSUME p < size PROVE data[p] >= lower
      OBVIOUS
    <3>1. hi < size - 1
      BY <1>2, <1>5
    <3>2. data[hi] >= lower
      BY <3>1, <1>1 DEF WindowHoldsAnswer
    <3>3. from < size
      BY <1>1, <1>2, <3>1 DEF Inside
    <3>4. hi \in lo .. hi
      BY <3>3, <1>1, <1>2 DEF Inside
    <3>5. data[hi] < lower /\ data[hi] \in Nat
      BY <3>4, <1>2, <1>5
    <3> QED  BY <3>2, <3>5, <1>2
  <2> QED  BY <1>3, <1>5, <2>1, <2>2, <2>3 DEF Answer
<1> QED  BY <1>4, <1>5 DEF ScannedTo

(***************************************************************************)
(* The scan returns the value at the position it stops at: if the window   *)
(* holds nothing, it ends where the list does.                             *)
(***************************************************************************)
LEMMA ScanReturns ==
    ASSUME IInv, pc # "ready", NEW p \in 0 .. size, ScannedTo(p)
    PROVE  Answer(p) /\ ScanValue(p) = At(p)
<1>1. TypeOK /\ WindowHoldsAnswer
  BY DEF IInv
<1>2. /\ size \in Nat /\ lo \in Nat /\ hi \in Nat /\ hi <= size - 1
      /\ \A q \in 0 .. size - 1 : data[q] \in Nat
      /\ lower \in Nat
  BY <1>1, Numbers
<1>3. Answer(p)
  BY ScanAnswers
<1>4. CASE p <= hi
  BY <1>2, <1>3, <1>4 DEF ScanValue, At
<1>5. CASE p > hi
  <2>1. p = hi + 1 /\ \A q \in lo .. hi : data[q] < lower
    BY <1>2, <1>5 DEF ScannedTo
  <2>2. ~(hi < size - 1)
    <3> SUFFICES ASSUME hi < size - 1 PROVE FALSE
      OBVIOUS
    <3>1. data[hi] >= lower /\ data[hi] \in Nat
      BY <1>1, <1>2 DEF WindowHoldsAnswer
    <3>2. p \in from .. size /\ \A q \in from .. p - 1 : data[q] < lower
      BY <1>3 DEF Answer
    <3>3. from \in Nat /\ from <= lo /\ (from < size => lo <= hi)
      BY <1>1, Numbers DEF IInv, Inside
    <3>4. from < size
      BY <1>1, <1>2, <3>3, Numbers DEF IInv, Inside
    <3>5. hi \in lo .. hi
      BY <1>2, <3>3, <3>4
    <3> QED  BY <1>2, <2>1, <3>1, <3>5
  <2>3. p = size
    BY <1>2, <2>1, <2>2
  <2> QED  BY <1>2, <1>3, <1>5, <2>3 DEF ScanValue, At
<1> QED  BY <1>2, <1>3, <1>4, <1>5

(***************************************************************************)
(* The other returns of next_geq answer as well.                           *)
(***************************************************************************)
LEMMA BeforeIsSmaller ==
    ASSUME TypeOK, NEW p \in 0 .. size - 1, NEW bound \in Nat, data[p] < bound
    PROVE  \A q \in 0 .. p : data[q] < bound
<1>1. /\ size \in Nat
      /\ \A q \in 0 .. size - 1 : data[q] \in Nat
      /\ \A q \in 0 .. size - 1 : q < p => data[q] < data[p]
  BY Numbers
<1> SUFFICES ASSUME NEW q \in 0 .. p PROVE data[q] < bound
  OBVIOUS
<1>2. q \in 0 .. size - 1 /\ (q < p \/ q = p)
  BY <1>1
<1>3. data[q] \in Nat /\ data[p] \in Nat /\ (data[q] < data[p] \/ q = p)
  BY <1>1, <1>2
<1> QED  BY <1>3

LEMMA StopAnswers ==
    ASSUME IInv, StopBetween \/ StopAt
    PROVE  Answer(Middle) /\ Middle \in 0 .. size - 1
<1>1. TypeOK /\ Inside /\ WindowHoldsAnswer /\ Probes
  BY DEF IInv, StopBetween, StopAt, Probes
<1>2. /\ Middle \in Nat /\ lo < Middle /\ Middle < hi
      /\ LeftEnd = Middle - 1
      /\ Middle \in 0 .. size - 1 /\ LeftEnd \in 0 .. size - 1
  BY <1>1, MiddleInside
<1>3. /\ size \in Nat /\ lo \in Nat /\ from \in Nat /\ lower \in Nat
      /\ \A q \in 0 .. size - 1 : data[q] \in Nat
      /\ \A p, q \in 0 .. size - 1 : p < q => data[p] < data[q]
  BY <1>1, Numbers
<1>4. Middle \in from .. size
  BY <1>1, <1>2, <1>3 DEF Inside
<1>5. data[Middle] >= lower
  BY <1>2, <1>3 DEF StopBetween, StopAt
<1>6. data[LeftEnd] < lower
  <2>1. data[LeftEnd] \in Nat /\ data[Middle] \in Nat /\ data[LeftEnd] < data[Middle]
    BY <1>2, <1>3
  <2>2. lower > data[LeftEnd] \/ data[Middle] = lower
    BY DEF StopBetween, StopAt
  <2> QED  BY <2>1, <2>2, <1>3
<1>7. \A q \in 0 .. LeftEnd : data[q] < lower
  BY <1>1, <1>2, <1>3, <1>6, BeforeIsSmaller
<1>8. \A q \in from .. Middle - 1 : q \in 0 .. LeftEnd
  BY <1>2, <1>3
<1> QED  BY <1>2, <1>4, <1>5, <1>7, <1>8 DEF Answer

-----------------------------------------------------------------------------
(***************************************************************************)
(* Every step keeps the invariant.                                         *)
(***************************************************************************)
LEMMA GoLeftKeeps ==
    ASSUME IInv, GoLeft
    PROVE  IInv'
<1>1. TypeOK /\ Inside /\ WindowHoldsAnswer /\ Probes
  BY DEF IInv, GoLeft, Probes
<1>2. /\ Middle \in Nat /\ lo < Middle /\ Middle < hi
      /\ LeftEnd = Middle - 1
      /\ Middle \in 0 .. size - 1 /\ LeftEnd \in 0 .. size - 1
  BY <1>1, MiddleInside
<1>3. /\ size \in Nat /\ lo \in Nat /\ from \in Nat /\ lower \in Nat
      /\ hi \in Nat /\ hi <= size - 1 /\ from <= size
  BY <1>1, Numbers
<1>4. /\ pos' = Middle /\ hi' = LeftEnd /\ lower <= data[LeftEnd]
      /\ UNCHANGED <<data, size, id, pc, lower, lo, from>>
      /\ pc = "search"
  BY DEF GoLeft, Probes
<1>5. TypeOK'
  BY <1>1, <1>2, <1>3, <1>4 DEF TypeOK
<1>6. Inside'
  <2>1. from # size
    BY <1>1, <1>2, <1>3 DEF Inside
  <2> QED  BY <2>1, <1>1, <1>2, <1>3, <1>4 DEF Inside
<1>7. WindowHoldsAnswer'
  <2>1. \A p \in from' .. lo' - 1 : data'[p] < lower'
    BY <1>1, <1>4 DEF WindowHoldsAnswer
  <2>2. data'[hi'] >= lower'
    BY <1>2, <1>4, <1>3, Numbers, <1>1
  <2> QED  BY <2>1, <2>2 DEF WindowHoldsAnswer
<1>8. PositionOfValue'
  BY <1>4 DEF PositionOfValue
<1> QED  BY <1>5, <1>6, <1>7, <1>8 DEF IInv

LEMMA GoRightKeeps ==
    ASSUME IInv, GoRight
    PROVE  IInv'
<1>1. TypeOK /\ Inside /\ WindowHoldsAnswer /\ Probes
  BY DEF IInv, GoRight, Probes
<1>2. /\ Middle \in Nat /\ lo < Middle /\ Middle < hi
      /\ Middle \in 0 .. size - 1
  BY <1>1, MiddleInside
<1>3. /\ size \in Nat /\ lo \in Nat /\ from \in Nat /\ lower \in Nat
      /\ hi \in Nat /\ hi <= size - 1 /\ from <= size
  BY <1>1, Numbers
<1>4. /\ pos' = Middle /\ lo' = Middle + 1 /\ data[Middle] < lower
      /\ UNCHANGED <<data, size, id, pc, lower, hi, from>>
      /\ pc = "search"
  BY DEF GoRight, RightStart, Probes
<1>5. TypeOK'
  BY <1>1, <1>2, <1>3, <1>4 DEF TypeOK
<1>6. Inside'
  <2>1. from # size
    BY <1>1, <1>2, <1>3 DEF Inside
  <2> QED  BY <2>1, <1>1, <1>2, <1>3, <1>4 DEF Inside
<1>7. WindowHoldsAnswer'
  <2>1. \A p \in 0 .. Middle : data[p] < lower
    BY <1>1, <1>2, <1>3, <1>4, BeforeIsSmaller
  <2>2. \A p \in from' .. lo' - 1 : p \in 0 .. Middle
    BY <1>2, <1>3, <1>4
  <2>3. \A p \in from' .. lo' - 1 : data'[p] < lower'
    BY <2>1, <2>2, <1>4
  <2>4. hi' < size' - 1 => data'[hi'] >= lower'
    BY <1>1, <1>4 DEF WindowHoldsAnswer
  <2> QED  BY <2>3, <2>4 DEF WindowHoldsAnswer
<1>8. PositionOfValue'
  BY <1>4 DEF PositionOfValue
<1> QED  BY <1>5, <1>6, <1>7, <1>8 DEF IInv

(***************************************************************************)
(* The search of an exhausted cursor does not move it.                     *)
(***************************************************************************)
LEMMA ExhaustedStays ==
    ASSUME IInv, NotFound
    PROVE  from = size /\ pos = size /\ At(pos) = NumDocs
<1>1. TypeOK /\ Inside /\ lo > hi
  BY DEF IInv, NotFound
<1>2. lo \in Nat /\ hi \in Nat /\ from \in Nat /\ size \in Nat /\ from <= size
  BY <1>1, Numbers
<1>3. from = size
  BY <1>1, <1>2 DEF Inside
<1> QED  BY <1>1, <1>2, <1>3 DEF Inside, At

LEMMA StepKeeps == IInv /\ [Next]_vars => IInv'
<1> SUFFICES ASSUME IInv, [Next]_vars PROVE IInv'
  OBVIOUS
<1>1. CASE Read
  <2>1. pc = "ready" /\ pos < size /\ id' = data[pos]
        /\ UNCHANGED <<data, size, pos, pc, locals>>
    BY <1>1 DEF Read
  <2>2. TypeOK'
    BY <2>1, Numbers DEF IInv, TypeOK, locals, Unread
  <2>3. PositionOfValue'
    BY <2>1 DEF PositionOfValue, At
  <2> QED  BY <2>1, <2>2, <2>3 DEF IInv, WindowHoldsAnswer
<1>2. CASE Advance
  <2>1. pc = "ready" /\ pos < size /\ pos' = pos + 1 /\ id' = At(pos + 1)
        /\ UNCHANGED <<data, size, pc, locals>>
    BY <1>2 DEF Advance
  <2>2. pos + 1 \in 0 .. size /\ At(pos + 1) \in 0 .. Unread
    BY <2>1, Numbers DEF IInv, At, Unread
  <2>3. TypeOK'
    BY <2>1, <2>2 DEF IInv, TypeOK, locals
  <2>4. PositionOfValue'
    BY <2>1 DEF PositionOfValue, At
  <2> QED  BY <2>1, <2>3, <2>4 DEF IInv, WindowHoldsAnswer
<1>3. CASE NextGeqCall
  <2>1. /\ pc' \in {"search", "scan"} /\ lower' \in CursorValues
        /\ lo' = pos /\ hi' = size - 1 /\ from' = pos
        /\ UNCHANGED <<data, size, pos, id>>
    BY <1>3 DEF NextGeqCall
  <2>2. pos \in Nat /\ pos <= size /\ size \in Nat /\ size > 0
    BY Numbers DEF IInv
  <2>3. TypeOK'
    BY <2>1, <2>2 DEF IInv, TypeOK
  <2>4. Inside'
    BY <2>1, <2>2 DEF Inside
  <2>5. WindowHoldsAnswer'
    BY <2>1, <2>2 DEF WindowHoldsAnswer
  <2>6. PositionOfValue'
    BY <2>1 DEF PositionOfValue
  <2> QED  BY <2>3, <2>4, <2>5, <2>6 DEF IInv
<1>4. CASE Scan
  <2>1. PICK p \in 0 .. size : ScannedTo(p) /\ ReturnAt(p, ScanValue(p))
    BY <1>4 DEF Scan
  <2>2. pc # "ready"
    BY <1>4 DEF Scan
  <2> QED  BY <2>1, <2>2, ScanReturns, ReturnKeeps
<1>5. CASE GoLeft
  BY <1>5, GoLeftKeeps
<1>6. CASE StopBetween \/ StopAt
  <2>1. Middle \in 0 .. size - 1 /\ ReturnAt(Middle, data[Middle])
    BY <1>6, StopAnswers DEF StopBetween, StopAt
  <2>2. size \in Nat
    BY Numbers DEF IInv
  <2>3. Middle \in 0 .. size /\ At(Middle) = data[Middle]
    BY <2>1, <2>2 DEF At
  <2> QED  BY <2>1, <2>3, ReturnKeeps
<1>7. CASE GoRight
  BY <1>7, GoRightKeeps
<1>8. CASE NotFound
  <2>1. ReturnAt(pos, At(pos))
    BY <1>8, ExhaustedStays DEF NotFound
  <2>2. pos \in 0 .. size
    BY DEF IInv, TypeOK
  <2> QED  BY <2>1, <2>2, ReturnKeeps
<1>9. CASE UNCHANGED vars
  BY <1>9 DEF vars, locals, IInv, TypeOK, PositionOfValue, At,
              WindowHoldsAnswer, Inside
<1> QED
  BY <1>1, <1>2, <1>3, <1>4, <1>5, <1>6, <1>7, <1>8, <1>9 DEF Next, Search

LEMMA InitKeeps == Init => IInv
<1> SUFFICES ASSUME Init PROVE IInv
  OBVIOUS
<1>1. NumDocs \in Nat /\ NumDocs > 0
  BY NumDocsAssumption
<1>2. size \in Nat /\ size > 0 /\ data \in Arrays(size)
  BY <1>1 DEF Init
<1>3. TypeOK
  BY <1>1, <1>2 DEF Init, TypeOK, Unread, CursorValues
<1> QED  BY <1>3 DEF Init, IInv, PositionOfValue, WindowHoldsAnswer

LEMMA Inductive == Spec => []IInv
BY InitKeeps, StepKeeps, PTL DEF Spec

-----------------------------------------------------------------------------
(***************************************************************************)
(* The cursor keeps its types: m_position stays within 0 .. m_size and the *)
(* ends of the window within the list, for every list and every bound.     *)
(***************************************************************************)
THEOREM TypeCorrect == Spec => []TypeOK
BY Inductive, PTL DEF IInv

(***************************************************************************)
(* The window of the binary search never loses the position next_geq is to *)
(* find, however it is halved.                                             *)
(***************************************************************************)
THEOREM Window == Spec => []WindowHoldsAnswer
BY Inductive, PTL DEF IInv

(***************************************************************************)
(* After a call, m_id is the value at m_position, where the next search    *)
(* begins: the probes of the binary search leave no trace in m_position.   *)
(***************************************************************************)
THEOREM Position == Spec => []PositionOfValue
BY Inductive, PTL DEF IInv

-----------------------------------------------------------------------------
(***************************************************************************)
(* The values of the array as a posting list.                              *)
(***************************************************************************)
LEMMA ValuesFacts ==
    ASSUME TypeOK
    PROVE  /\ Values \in PostingLists
           /\ \A d \in Values : d \in DocIds /\ d \in Nat
<1>1. /\ size \in Nat /\ size > 0 /\ 0 \in 0 .. size - 1
      /\ \A p \in 0 .. size - 1 : data[p] \in DocIds /\ data[p] \in Nat
  BY Numbers
<1>2. data[0] \in Values
  BY <1>1 DEF Values
<1> QED  BY <1>1, <1>2 DEF Values, PostingLists

(***************************************************************************)
(* NextGeq is the only value that is at or after the bound, is in the set  *)
(* or the sentinel, and has no member of the set before it.                *)
(***************************************************************************)
LEMMA NextGeqIs ==
    ASSUME NEW set \in SUBSET DocIds, NEW bound \in CursorValues,
           NEW v \in set \cup {NumDocs}, v >= bound,
           \A d \in set : d >= bound => v <= d
    PROVE  NextGeq(set, bound) = v
<1> DEFINE w == NextGeq(set, bound)
<1>1. /\ w \in CursorValues /\ w \in set \cup {NumDocs}
      /\ w >= bound /\ \A d \in set : d >= bound => w <= d
  BY NextGeqFacts
<1> HIDE DEF w
<1>2. \A d \in set : d \in Nat /\ d < NumDocs
  BY Universe
<1>3. NumDocs \in Nat
  BY Universe
<1>4. v \in Nat /\ w \in Nat
  BY <1>1, <1>2, <1>3
<1>5. w <= v
  BY <1>1, <1>2, <1>3
<1>6. v <= w
  BY <1>1, <1>2, <1>3, <1>4
<1> QED  BY <1>4, <1>5, <1>6 DEF w

(***************************************************************************)
(* The answer next_geq stops at is the next value of the list at or after  *)
(* the one the cursor showed.                                              *)
(***************************************************************************)
LEMMA AnswerIsNextGeq ==
    ASSUME TypeOK, NEW p \in 0 .. size, Answer(p)
    PROVE  At(p) = NextGeq({d \in Values : d >= At(from)}, lower)
<1> DEFINE S == {d \in Values : d >= At(from)}
<1>1. /\ NumDocs \in Nat /\ size \in Nat /\ from \in Nat /\ from <= size
      /\ lower \in Nat /\ lower <= NumDocs /\ lower \in CursorValues
      /\ \A q \in 0 .. size - 1 :
             data[q] \in DocIds /\ data[q] \in Nat /\ data[q] < NumDocs
      /\ \A q, r \in 0 .. size - 1 : q < r => data[q] < data[r]
  BY Numbers DEF TypeOK
<1>2. S \in SUBSET DocIds
  BY ValuesFacts
<1>3. p \in from .. size
      /\ (\A q \in from .. p - 1 : data[q] < lower)
      /\ (p < size => data[p] >= lower)
  BY DEF Answer
<1>4. At(p) >= lower
  BY <1>1, <1>3 DEF At
<1>5. At(p) \in S \cup {NumDocs}
  <2>1. CASE p < size
    <3>1. p \in 0 .. size - 1 /\ from \in 0 .. size - 1 /\ (from < p \/ from = p)
      BY <2>1, <1>1, <1>3
    <3>2. data[p] >= data[from]
      BY <3>1, <1>1
    <3>3. At(p) = data[p] /\ At(from) = data[from]
      BY <3>1, <1>1 DEF At
    <3>4. data[p] \in Values
      BY <3>1 DEF Values
    <3> QED  BY <3>2, <3>3, <3>4
  <2>2. CASE ~(p < size)
    BY <2>2 DEF At
  <2> QED  BY <2>1, <2>2
<1>6. ASSUME NEW d \in S, d >= lower
      PROVE  At(p) <= d
  <2>1. PICK q \in 0 .. size - 1 : d = data[q]
    BY DEF Values
  <2>2. q \in Nat /\ p \in Nat
    BY <1>1, <1>3
  <2>3. data[q] >= At(from)
    BY <2>1
  <2>4. q >= from
    <3> SUFFICES ASSUME q < from PROVE FALSE
      BY <2>2, <1>1
    <3>1. CASE from < size
      <4>1. from \in 0 .. size - 1 /\ At(from) = data[from]
        BY <3>1, <1>1 DEF At
      <4>2. data[q] < data[from] /\ data[q] \in Nat /\ data[from] \in Nat
        BY <4>1, <1>1
      <4> QED  BY <4>1, <4>2, <2>3
    <3>2. CASE ~(from < size)
      <4>1. At(from) = NumDocs
        BY <3>2 DEF At
      <4>2. data[q] \in Nat /\ data[q] < NumDocs
        BY <1>1
      <4> QED  BY <4>1, <4>2, <2>3, <1>1
    <3> QED  BY <3>1, <3>2
  <2>5. ~(q < p)
    <3> SUFFICES ASSUME q < p PROVE FALSE
      OBVIOUS
    <3>1. q \in from .. p - 1
      BY <2>2, <2>4, <1>1
    <3>2. data[q] < lower /\ data[q] \in Nat
      BY <3>1, <1>1, <1>3
    <3> QED  BY <3>2, <2>1, <1>6, <1>1
  <2>6. p < size /\ (p < q \/ p = q) /\ p \in 0 .. size - 1
    BY <2>2, <2>5, <1>1
  <2>7. At(p) = data[p] /\ data[p] \in Nat /\ data[q] \in Nat
    BY <2>6, <1>1 DEF At
  <2>8. data[p] <= data[q]
    BY <2>6, <2>7, <1>1
  <2> QED  BY <2>1, <2>7, <2>8
<1> HIDE DEF S
<1>7. NextGeq(S, lower) = At(p)
  BY <1>1, <1>2, <1>4, <1>5, <1>6, NextGeqIs
<1> QED  BY <1>7 DEF S

(***************************************************************************)
(* next() shows the value of the next position.                            *)
(***************************************************************************)
LEMMA AdvanceIsNextAfter ==
    ASSUME TypeOK, pos < size
    PROVE  At(pos + 1) = NextAfter(Values, At(pos))
<1>1. /\ NumDocs \in Nat /\ size \in Nat /\ pos \in Nat
      /\ \A q \in 0 .. size - 1 :
             data[q] \in DocIds /\ data[q] \in Nat /\ data[q] < NumDocs
      /\ \A q, r \in 0 .. size - 1 : q < r => data[q] < data[r]
  BY Numbers
<1>2. pos \in 0 .. size - 1 /\ At(pos) = data[pos] /\ At(pos) \in Nat
  BY <1>1 DEF At
<1>3. At(pos) + 1 \in CursorValues
  BY <1>1, <1>2 DEF CursorValues
<1>4. Values \in SUBSET DocIds
  BY ValuesFacts
<1>5. At(pos + 1) \in Values \cup {NumDocs} /\ At(pos + 1) >= At(pos) + 1
  <2>1. CASE pos + 1 < size
    <3>1. pos + 1 \in 0 .. size - 1 /\ At(pos + 1) = data[pos + 1]
      BY <2>1, <1>1 DEF At
    <3>2. data[pos + 1] > data[pos] /\ data[pos + 1] \in Nat
      BY <3>1, <1>1, <1>2
    <3>3. data[pos + 1] \in Values
      BY <3>1 DEF Values
    <3> QED  BY <3>1, <3>2, <3>3, <1>2
  <2>2. CASE ~(pos + 1 < size)
    <3>1. At(pos + 1) = NumDocs
      BY <2>2 DEF At
    <3> QED  BY <3>1, <1>1, <1>2
  <2> QED  BY <2>1, <2>2
<1>6. ASSUME NEW d \in Values, d >= At(pos) + 1
      PROVE  At(pos + 1) <= d
  <2>1. PICK q \in 0 .. size - 1 : d = data[q]
    BY DEF Values
  <2>2. ~(q < pos) /\ q # pos
    BY <2>1, <1>1, <1>2, <1>6
  <2>3. pos + 1 \in 0 .. size - 1 /\ (pos + 1 < q \/ pos + 1 = q)
    BY <2>1, <2>2, <1>1
  <2>4. At(pos + 1) = data[pos + 1]
    BY <2>3, <1>1 DEF At
  <2> QED  BY <2>1, <2>3, <2>4, <1>1
<1> QED  BY <1>3, <1>4, <1>5, <1>6, NextGeqIs DEF NextAfter

LEMMA StartsAtFirst ==
    ASSUME TypeOK
    PROVE  At(0) = First(Values)
<1>1. /\ size \in Nat /\ size > 0 /\ 0 \in 0 .. size - 1
      /\ \A q \in 0 .. size - 1 : data[q] \in Nat
      /\ \A q, r \in 0 .. size - 1 : q < r => data[q] < data[r]
  BY Numbers
<1>2. At(0) = data[0] /\ data[0] \in Values
  BY <1>1 DEF At, Values
<1>3. \A d \in Values : data[0] <= d
  <2> SUFFICES ASSUME NEW q \in 0 .. size - 1 PROVE data[0] <= data[q]
    BY DEF Values
  <2>1. q = 0 \/ 0 < q
    BY <1>1
  <2> QED  BY <2>1, <1>1
<1>4. First(Values) \in Values /\ \A d \in Values : First(Values) <= d
  BY ValuesFacts, FirstFacts
<1>5. First(Values) \in Nat /\ data[0] \in Nat
  BY <1>4, <1>1, ValuesFacts
<1>6. First(Values) <= data[0] /\ data[0] <= First(Values)
  BY <1>2, <1>3, <1>4
<1> QED  BY <1>2, <1>5, <1>6

(***************************************************************************)
(* A return of next_geq with an answer is the abstract cursor's Answer.    *)
(***************************************************************************)
LEMMA ReturnRefines ==
    ASSUME IInv, pc # "ready", NEW p \in 0 .. size, Answer(p), ReturnAt(p, At(p))
    PROVE  Cursor!Answer
<1>1. TypeOK
  BY DEF IInv
<1>2. /\ pc' = "ready" /\ pos' = p /\ UNCHANGED <<data, size>>
  BY DEF ReturnAt
<1>3. Values' = Values /\ At(pos)' = At(p)
  BY <1>2 DEF Values, At
<1>4. At(p) = NextGeq({d \in Values : d >= At(from)}, lower)
  BY <1>1, AnswerIsNextGeq
<1>5. lower # NumDocs + 1 /\ lower \in Nat /\ NumDocs \in Nat
  BY <1>1, Numbers
<1>6. At(pos)' = Cursor!NextGeq({d \in Values : d >= At(from)}, lower)
  BY <1>3, <1>4 DEF NextGeq, Cursor!NextGeq, Least, Cursor!Least
<1> QED  BY <1>2, <1>3, <1>5, <1>6 DEF Cursor!Answer, Cursor!NoBound, Unread

(***************************************************************************)
(* The cursor implements PostingCursor: it does what every search          *)
(* algorithm is modelled with, for every list, bound and threshold.        *)
(***************************************************************************)
THEOREM Refinement == Spec => RefinesCursor
<1>1. Init => Cursor!Init
  <2> SUFFICES ASSUME Init PROVE Cursor!Init
    OBVIOUS
  <2>1. TypeOK
    BY InitKeeps DEF IInv
  <2>2. pc = "ready" /\ pos = 0
    BY DEF Init
  <2>3. At(pos) = First(Values) /\ Values \in PostingLists
    BY <2>1, <2>2, StartsAtFirst, ValuesFacts
  <2> QED  BY <2>2, <2>3 DEF Cursor!Init, Cursor!NoBound, Unread, Cursor!First,
               First, Cursor!Least, Least, Cursor!PostingLists, PostingLists,
               Cursor!DocIds, DocIds
<1>2. IInv /\ [Next]_vars => [Cursor!Next]_(Cursor!vars)
  <2> SUFFICES ASSUME IInv, [Next]_vars
               PROVE  [Cursor!Next]_(Cursor!vars)
    OBVIOUS
  <2>0. TypeOK
    BY DEF IInv
  <2>1. CASE Read
    <3>1. UNCHANGED <<data, size, pos, pc, locals>>
      BY <2>1 DEF Read
    <3> QED  BY <3>1 DEF Cursor!vars, Values, At, locals
  <2>2. CASE Advance
    <3>1. /\ pc = "ready" /\ pos < size /\ pos' = pos + 1
          /\ UNCHANGED <<data, size, pc, locals>>
      BY <2>2 DEF Advance
    <3>2. Values' = Values /\ At(pos)' = At(pos + 1)
      BY <3>1 DEF Values, At
    <3>3. At(pos + 1) = Cursor!NextAfter(Values, At(pos))
      BY <2>0, <3>1, AdvanceIsNextAfter
      DEF NextAfter, Cursor!NextAfter, NextGeq, Cursor!NextGeq, Least, Cursor!Least
    <3>4. At(pos) < NumDocs
      BY <2>0, <3>1, Numbers DEF At
    <3>5. Cursor!Step
      BY <3>1, <3>2, <3>3, <3>4 DEF Cursor!Step, Cursor!NoBound, Unread, Cursor!HasNext
    <3> QED  BY <3>5 DEF Cursor!Next
  <2>3. CASE NextGeqCall
    <3>1. /\ pc = "ready" /\ pc' # "ready" /\ lower' \in CursorValues
          /\ from' = pos /\ UNCHANGED <<data, size, pos>>
      BY <2>3 DEF NextGeqCall
    <3>2. Values' = Values /\ At(from)' = At(pos)
      BY <3>1 DEF Values, At
    <3>3. Cursor!Ask
      BY <3>1, <3>2 DEF Cursor!Ask, Cursor!NoBound, Unread, Cursor!CursorValues, CursorValues
    <3> QED  BY <3>3 DEF Cursor!Next
  <2>4. CASE Scan
    <3>1. pc # "ready"
      BY <2>4 DEF Scan
    <3>2. PICK p \in 0 .. size : ScannedTo(p) /\ ReturnAt(p, ScanValue(p))
      BY <2>4 DEF Scan
    <3>3. Answer(p) /\ ScanValue(p) = At(p)
      BY <3>1, <3>2, ScanReturns
    <3> QED  BY <3>1, <3>2, <3>3, ReturnRefines DEF Cursor!Next
  <2>5. CASE GoLeft \/ GoRight
    <3>1. pc # "ready" /\ UNCHANGED <<data, size, pc, lower, from>>
      BY <2>5 DEF GoLeft, GoRight, Probes
    <3> QED  BY <3>1 DEF Cursor!vars, Values, At
  <2>6. CASE StopBetween \/ StopAt
    <3>1. pc # "ready" /\ ReturnAt(Middle, data[Middle])
      BY <2>6 DEF StopBetween, StopAt, Probes
    <3>2. Middle \in 0 .. size - 1 /\ Answer(Middle)
      BY <2>6, StopAnswers
    <3>3. size \in Nat
      BY <2>0, Numbers
    <3>4. Middle \in 0 .. size /\ At(Middle) = data[Middle]
      BY <3>2, <3>3 DEF At
    <3> QED  BY <3>1, <3>2, <3>4, ReturnRefines DEF Cursor!Next
  <2>7. CASE NotFound
    <3>1. pc # "ready" /\ ReturnAt(pos, NumDocs)
      BY <2>7 DEF NotFound
    <3>2. from = size /\ pos = size /\ At(pos) = NumDocs
      BY <2>7, ExhaustedStays
    <3>3. size \in Nat /\ pos \in 0 .. size
      BY <2>0, Numbers
    <3>4. Answer(pos)
      BY <3>2, <3>3 DEF Answer
    <3> QED  BY <3>1, <3>2, <3>3, <3>4, ReturnRefines DEF Cursor!Next
  <2>8. CASE UNCHANGED vars
    BY <2>8 DEF vars, locals, Cursor!vars, Values, At
  <2> QED
    BY <2>1, <2>2, <2>3, <2>4, <2>5, <2>6, <2>7, <2>8 DEF Next, Search
<1> QED
  BY <1>1, <1>2, Inductive, PTL DEF Spec, RefinesCursor, Cursor!Spec

-----------------------------------------------------------------------------
(***************************************************************************)
(* Powers of two are positive, since they count the subsets of a set, and  *)
(* every positive number lies between two of them.                         *)
(***************************************************************************)
LEMMA Power ==
    ASSUME NEW n \in Nat
    PROVE  2 ^ n \in Nat /\ n < 2 ^ n
<1> DEFINE S == 1 .. n
<1>1. IsFiniteSet(S) /\ Cardinality(S) = n
  BY FS_Interval
<1>2. IsFiniteSet(SUBSET S) /\ Cardinality(SUBSET S) = 2 ^ n
  BY <1>1, FS_SUBSET
<1>3. 2 ^ n \in Nat
  BY <1>2, FS_CardinalityType
<1> DEFINE f == [x \in 0 .. n |-> IF x = 0 THEN {} ELSE {x}]
<1>4. f \in Injection(0 .. n, SUBSET S)
  <2>1. f \in [0 .. n -> SUBSET S]
    OBVIOUS
  <2>2. \A x, y \in 0 .. n : f[x] = f[y] => x = y
    OBVIOUS
  <2> QED  BY <2>1, <2>2 DEF Injection, IsInjective
<1>5. Cardinality(0 .. n) = n + 1
  BY FS_Interval
<1>6. Cardinality(0 .. n) <= Cardinality(SUBSET S)
  BY <1>2, <1>4, FS_Injection
<1>7. \A p \in Nat : n + 1 <= p => n < p
  OBVIOUS
<1> QED  BY <1>2, <1>3, <1>5, <1>6, <1>7

LEMMA PowersAscend ==
    ASSUME NEW n \in Nat, NEW m \in Nat, n <= m
    PROVE  2 ^ n <= 2 ^ m
<1>1. IsFiniteSet(1 .. n) /\ Cardinality(1 .. n) = n
  BY FS_Interval
<1>2. IsFiniteSet(1 .. m) /\ Cardinality(1 .. m) = m
  BY FS_Interval
<1>3. Cardinality(SUBSET (1 .. n)) = 2 ^ n
  BY <1>1, FS_SUBSET
<1>4. IsFiniteSet(SUBSET (1 .. m)) /\ Cardinality(SUBSET (1 .. m)) = 2 ^ m
  BY <1>2, FS_SUBSET
<1>5. SUBSET (1 .. n) \in SUBSET (SUBSET (1 .. m))
  OBVIOUS
<1> QED  BY <1>3, <1>4, <1>5, FS_Subset

LEMMA MsbFacts ==
    ASSUME NEW x \in Nat \ {0}
    PROVE  Msb(x) \in 0 .. x /\ 2 ^ Msb(x) <= x /\ x < 2 ^ (Msb(x) + 1)
<1> DEFINE S == {i \in Nat : x < 2 ^ (i + 1)}
           i == Least(S)
<1>1. x \in S
  <2>1. x < 2 ^ x /\ 2 ^ x <= 2 ^ (x + 1) /\ 2 ^ x \in Nat /\ 2 ^ (x + 1) \in Nat
    BY Power, PowersAscend
  <2> QED  BY <2>1
<1>2. S \in SUBSET Nat /\ S # {}
  BY <1>1
<1> HIDE DEF S
<1>3. i \in S /\ \A y \in S : i <= y
  BY <1>2, LeastExists
<1> HIDE DEF i
<1>4. i \in Nat /\ x < 2 ^ (i + 1)
  BY <1>3 DEF S
<1>5. 2 ^ i <= x
  <2>1. CASE i = 0
    <3>1. 2 ^ i = 1
      BY <2>1
    <3> QED  BY <3>1
  <2>2. CASE i # 0
    <3>1. i - 1 \in Nat /\ i - 1 < i
      BY <1>4, <2>2
    <3>2. i - 1 \notin S
      BY <1>3, <1>4, <3>1
    <3>3. (i - 1) + 1 = i
      BY <1>4
    <3>4. ~ (x < 2 ^ i)
      BY <3>1, <3>2, <3>3 DEF S
    <3> QED  BY <3>4, <1>4, Power
  <2> QED  BY <2>1, <2>2
<1>6. i \in 0 .. x
  BY <1>4, <1>5, Power
<1> QED  BY <1>4, <1>5, <1>6 DEF Msb

(***************************************************************************)
(* The quotient and the rest of a division.                                *)
(***************************************************************************)
LEMMA Division ==
    ASSUME NEW x \in Nat, NEW L \in Nat \ {0}
    PROVE  /\ x \div L \in Nat
           /\ x % L \in Nat
           /\ (x \div L) * L + (x % L) = x
           /\ (x \div L) * L <= x
<1>1. x \div L \in Nat /\ x % L \in Nat
  OBVIOUS
<1>2. x = L * (x \div L) + (x % L)
  OBVIOUS
<1> DEFINE q == x \div L
           r == x % L
<1> HIDE DEF q, r
<1>3. q \in Nat /\ r \in Nat /\ x = L * q + r
  BY <1>1, <1>2 DEF q, r
<1>4. L * q = q * L /\ q * L \in Nat
  BY <1>3
<1> QED  BY <1>3, <1>4 DEF q, r

LEMMA DivisionAscends ==
    ASSUME NEW x \in Nat, NEW y \in Nat, x <= y, NEW L \in Nat \ {0}
    PROVE  x \div L <= y \div L
OBVIOUS

LEMMA DivisionBound ==
    ASSUME NEW x \in Nat, NEW L \in Nat \ {0}
    PROVE  x \div L <= x
OBVIOUS

LEMMA TimesPositive ==
    ASSUME NEW x \in Nat \ {0}, NEW L \in Nat \ {0}
    PROVE  x * L \in Nat \ {0}
OBVIOUS

LEMMA TimesDivided ==
    ASSUME NEW x \in Nat, NEW L \in Nat \ {0}
    PROVE  (x * L) \div L = x
OBVIOUS

-----------------------------------------------------------------------------
(***************************************************************************)
(* The enumerator.  In a set of numbers, one member has i others before    *)
(* it, if any has.                                                         *)
(***************************************************************************)
LEMMA BeforeFinite ==
    ASSUME NEW S \in SUBSET Nat, NEW x \in Nat
    PROVE  /\ IsFiniteSet({y \in S : y < x})
           /\ Cardinality({y \in S : y < x}) \in Nat
<1>1. IsFiniteSet(0 .. x)
  BY FS_Interval
<1>2. {y \in S : y < x} \in SUBSET (0 .. x)
  <2>1. \A y \in {z \in S : z < x} : y \in 0 .. x
    OBVIOUS
  <2> QED  BY <2>1
<1>3. IsFiniteSet({y \in S : y < x})
  BY <1>1, <1>2, FS_Subset
<1> QED  BY <1>3, FS_CardinalityType

LEMMA MoreBefore ==
    ASSUME NEW S \in SUBSET Nat, NEW x \in S, NEW z \in S, x < z
    PROVE  Cardinality({y \in S : y < x}) # Cardinality({y \in S : y < z})
<1> DEFINE A == {y \in S : y < x}
           B == {y \in S : y < z}
<1>1. IsFiniteSet(B)
  BY BeforeFinite
<1>2. A \in SUBSET B
  <2>1. \A y \in S : y < x => y < z
    OBVIOUS
  <2> QED  BY <2>1
<1>3. x \in B /\ x \notin A
  OBVIOUS
<1> QED  BY <1>1, <1>2, <1>3, FS_Subset

LEMMA NthIs ==
    ASSUME NEW S \in SUBSET Nat, NEW x \in S, NEW i,
           Cardinality({y \in S : y < x}) = i
    PROVE  Nth(S, i) = x
<1> DEFINE z == Nth(S, i)
<1>1. z \in S /\ Cardinality({y \in S : y < z}) = i
  BY DEF Nth
<1> HIDE DEF z
<1>2. x \in Nat /\ z \in Nat
  BY <1>1
<1>3. ~ (x < z)
  BY <1>1, MoreBefore
<1>4. ~ (z < x)
  BY <1>1, MoreBefore
<1> QED  BY <1>2, <1>3, <1>4 DEF z

(***************************************************************************)
(* An ascending array has as many values in an interval as positions.      *)
(***************************************************************************)
ValuesOf(f, j, k) == {f[x] : x \in j .. k - 1}

LEMMA IntervalSize ==
    ASSUME NEW j \in Nat, NEW k \in Nat, j <= k
    PROVE  IsFiniteSet(j .. k - 1) /\ Cardinality(j .. k - 1) = k - j
<1>1. j \in Int /\ k - 1 \in Int
  OBVIOUS
<1>2. IsFiniteSet(j .. k - 1) /\ Cardinality(j .. k - 1) = IF j > k - 1 THEN 0 ELSE (k - 1) - j + 1
  BY <1>1, FS_Interval
<1> QED  BY <1>2

Distinct(f, j, k) == \A x, y \in j .. k - 1 : f[x] = f[y] => x = y

LEMMA ImageSize ==
    ASSUME NEW f, NEW j \in Nat, NEW k \in Nat, j <= k, Distinct(f, j, k)
    PROVE  /\ IsFiniteSet(ValuesOf(f, j, k))
           /\ Cardinality(ValuesOf(f, j, k)) = k - j
<1> DEFINE I == j .. k - 1
           T == ValuesOf(f, j, k)
           g == [x \in I |-> f[x]]
<1>1. IsFiniteSet(I) /\ Cardinality(I) = k - j
  BY IntervalSize
<1>2. g \in Surjection(I, T)
  BY DEF Surjection, ValuesOf
<1>3. g \in Injection(I, T)
  BY DEF Injection, IsInjective, ValuesOf, Distinct
<1> HIDE DEF g, T, I
<1>4. IsFiniteSet(T) /\ Cardinality(T) = Cardinality(I)
  BY <1>1, <1>2, <1>3, FS_Surjection
<1> QED  BY <1>1, <1>4 DEF T, I

-----------------------------------------------------------------------------
(***************************************************************************)
(* The high bits of a list.  The one of a position has as many zeros       *)
(* before it as its high part says, and one more.  Zeros are counted from  *)
(* 0: the one of a high part h comes behind all positions whose high part  *)
(* is less, and is followed by those of h itself.                          *)
(***************************************************************************)
Unit(n) == 2 ^ LowerBits(n)

HighPart(a, n, i) == a[i] \div Unit(n)

OneBit(a, n, i) == HighPart(a, n, i) + i + 1

Fewer(a, n, h) == Least({i \in 0 .. n : i < n => HighPart(a, n, i) >= h})

ZeroBit(a, n, h) == h + Fewer(a, n, h)

OneBits(a, n) == {OneBit(a, n, i) : i \in 0 .. n - 1}

LEMMA UnitFacts ==
    ASSUME NEW n \in Nat \ {0}
    PROVE  LowerBits(n) \in Nat /\ Unit(n) \in Nat \ {0}
<1>1. NumDocs \in Nat
  BY NumDocsAssumption
<1>2. CASE NumDocs > n
  <2>1. NumDocs \div n \in Nat
    BY <1>1, Division
  <2>2. n \div n = 1
    OBVIOUS
  <2>3. n \div n <= NumDocs \div n
    BY <1>1, <1>2, DivisionAscends
  <2> DEFINE x == NumDocs \div n
  <2>4. x \in Nat \ {0}
    BY <2>1, <2>2, <2>3
  <2> HIDE DEF x
  <2>5. Msb(x) \in Nat
    BY <2>4, MsbFacts
  <2>6. LowerBits(n) = Msb(x)
    BY <1>2 DEF LowerBits, x
  <2> QED  BY <2>5, <2>6, Power DEF Unit
<1>3. CASE ~ (NumDocs > n)
  <2>1. LowerBits(n) = 0
    BY <1>3 DEF LowerBits
  <2> QED  BY <2>1, Power DEF Unit
<1> QED  BY <1>2, <1>3

LEMMA HighParts ==
    ASSUME NEW n \in Nat \ {0}, NEW a \in Arrays(n)
    PROVE  /\ \A i \in 0 .. n - 1 :
                  /\ a[i] \in Nat /\ a[i] < NumDocs
                  /\ HighPart(a, n, i) \in Nat
                  /\ HighPart(a, n, i) <= NumDocs \div Unit(n)
           /\ \A i, j \in 0 .. n - 1 : i <= j => HighPart(a, n, i) <= HighPart(a, n, j)
           /\ NumDocs \div Unit(n) \in Nat
<1> DEFINE L == Unit(n)
<1>1. L \in Nat \ {0}
  BY UnitFacts
<1>2. /\ \A i \in 0 .. n - 1 : a[i] \in DocIds
      /\ \A i, j \in 0 .. n - 1 : i < j => a[i] < a[j]
  BY DEF Arrays
<1>3. \A i \in 0 .. n - 1 : a[i] \in Nat /\ a[i] < NumDocs
  BY <1>2, Universe
<1>4. NumDocs \in Nat
  BY NumDocsAssumption
<1> HIDE DEF L
<1>5. \A i \in 0 .. n - 1 : a[i] \div L \in Nat /\ a[i] \div L <= NumDocs \div L
  <2> TAKE i \in 0 .. n - 1
  <2>1. a[i] \in Nat /\ a[i] <= NumDocs
    BY <1>3, <1>4
  <2> QED  BY <2>1, <1>1, <1>4, Division, DivisionAscends
<1>6. \A i, j \in 0 .. n - 1 : i <= j => a[i] \div L <= a[j] \div L
  <2> SUFFICES ASSUME NEW i \in 0 .. n - 1, NEW j \in 0 .. n - 1, i <= j
               PROVE  a[i] \div L <= a[j] \div L
    OBVIOUS
  <2>1. a[i] \in Nat /\ a[j] \in Nat /\ (i = j \/ a[i] < a[j])
    BY <1>2, <1>3
  <2>2. a[i] <= a[j]
    BY <2>1
  <2> QED  BY <2>1, <2>2, <1>1, DivisionAscends
<1>7. NumDocs \div L \in Nat
  BY <1>1, <1>4, Division
<1> QED  BY <1>3, <1>5, <1>6, <1>7 DEF L, HighPart

LEMMA OnesAscend ==
    ASSUME NEW n \in Nat \ {0}, NEW a \in Arrays(n)
    PROVE  /\ \A i \in 0 .. n - 1 : OneBit(a, n, i) \in Nat /\ OneBit(a, n, i) > i
           /\ \A i, j \in 0 .. n - 1 : i < j <=> OneBit(a, n, i) < OneBit(a, n, j)
           /\ \A i, j \in 0 .. n - 1 : OneBit(a, n, i) = OneBit(a, n, j) => i = j
<1> DEFINE P(i) == HighPart(a, n, i)
<1>1. /\ \A i \in 0 .. n - 1 : P(i) \in Nat
      /\ \A i, j \in 0 .. n - 1 : i <= j => P(i) <= P(j)
  BY HighParts
<1>2. \A i : OneBit(a, n, i) = P(i) + i + 1
  BY DEF OneBit
<1> HIDE DEF P
<1>3. \A i, j \in 0 .. n - 1 : i < j => OneBit(a, n, i) < OneBit(a, n, j)
  BY <1>1, <1>2
<1>4. \A i \in 0 .. n - 1 : OneBit(a, n, i) \in Nat /\ OneBit(a, n, i) > i
  BY <1>1, <1>2
<1> QED  BY <1>3, <1>4

LEMMA FewerFacts ==
    ASSUME NEW n \in Nat \ {0}, NEW a \in Arrays(n), NEW h \in Nat
    PROVE  /\ Fewer(a, n, h) \in 0 .. n
           /\ \A i \in 0 .. n - 1 : i < Fewer(a, n, h) <=> HighPart(a, n, i) < h
<1> DEFINE P(i) == HighPart(a, n, i)
           S == {i \in 0 .. n : i < n => P(i) >= h}
<1>1. /\ \A i \in 0 .. n - 1 : P(i) \in Nat
      /\ \A i, j \in 0 .. n - 1 : i <= j => P(i) <= P(j)
  BY HighParts
<1> HIDE DEF P
<1>2. n \in S /\ S \in SUBSET Nat
  OBVIOUS
<1>3. Least(S) \in S /\ \A y \in S : Least(S) <= y
  <2> HIDE DEF S
  <2> QED  BY <1>2, LeastExists
<1> DEFINE k == Least(S)
<1> HIDE DEF k
<1>4. k \in 0 .. n /\ (k < n => P(k) >= h) /\ \A i \in 0 .. n - 1 : P(i) >= h => k <= i
  BY <1>3 DEF k
<1>5. \A i \in 0 .. n - 1 : i < k <=> P(i) < h
  <2> TAKE i \in 0 .. n - 1
  <2>1. i < k => P(i) < h
    BY <1>1, <1>4
  <2>2. ~ (i < k) => k \in 0 .. n - 1 /\ P(k) >= h /\ P(k) <= P(i)
    BY <1>1, <1>4
  <2> QED  BY <1>1, <2>1, <2>2
<1>6. k = Fewer(a, n, h)
  BY DEF k, P, Fewer
<1> QED  BY <1>4, <1>5, <1>6 DEF P

LEMMA ZeroBits ==
    ASSUME NEW n \in Nat \ {0}, NEW a \in Arrays(n), NEW h \in Nat
    PROVE  /\ ZeroBit(a, n, h) \in Nat
           /\ ZeroBit(a, n, h) \notin OneBits(a, n)
           /\ \A i \in 0 .. n - 1 :
                  OneBit(a, n, i) < ZeroBit(a, n, h) <=> i < Fewer(a, n, h)
<1> DEFINE P(i) == HighPart(a, n, i)
           k == Fewer(a, n, h)
<1>1. \A i \in 0 .. n - 1 : P(i) \in Nat
  BY HighParts
<1>2. k \in 0 .. n /\ \A i \in 0 .. n - 1 : i < k <=> P(i) < h
  BY FewerFacts
<1>3. /\ \A i : OneBit(a, n, i) = P(i) + i + 1
      /\ ZeroBit(a, n, h) = h + k
  BY DEF OneBit, ZeroBit
<1> HIDE DEF P, k
<1>4. \A i \in 0 .. n - 1 : i < k => P(i) + i + 1 < h + k
  BY <1>1, <1>2
<1>5. \A i \in 0 .. n - 1 : ~ (i < k) => P(i) + i + 1 > h + k
  BY <1>1, <1>2
<1>6. h + k \in Nat
  BY <1>2
<1>7. \A i \in 0 .. n - 1 : OneBit(a, n, i) # ZeroBit(a, n, h)
  BY <1>1, <1>2, <1>3, <1>4, <1>5
<1> QED  BY <1>1, <1>2, <1>3, <1>4, <1>5, <1>6, <1>7 DEF OneBits, k

-----------------------------------------------------------------------------
(***************************************************************************)
(* What is written: the ones and the low parts; a pointer to ones is the   *)
(* one of its position, a pointer to zeros is the zero of its number.      *)
(***************************************************************************)
RunBegin(a, n, i) == IF i = 0 THEN 1 ELSE OneBit(a, n, i - 1) + 1
RunEnd(a, n, length, i) == IF i = n THEN length ELSE OneBit(a, n, i)
Runs(a, n, length, zero) ==
    {i \in 0 .. n : RunBegin(a, n, i) - i <= zero /\ zero < RunEnd(a, n, length, i) - i}

LEMMA RunOfZero ==
    ASSUME NEW n \in Nat \ {0}, NEW a \in Arrays(n), NEW length \in Nat,
           NEW zero \in Nat \ {0}, zero < length - n
    PROVE  /\ Runs(a, n, length, zero) # {}
           /\ Least(Runs(a, n, length, zero)) = Fewer(a, n, zero)
<1> DEFINE runs == Runs(a, n, length, zero)
<1> DEFINE P(i) == HighPart(a, n, i)
           k == Fewer(a, n, zero)
<1>1. \A i \in 0 .. n - 1 : P(i) \in Nat
  BY HighParts
<1>2. k \in 0 .. n /\ \A i \in 0 .. n - 1 : i < k <=> P(i) < zero
  BY FewerFacts
<1> DEFINE high(i) == OneBit(a, n, i)
<1>3. \A i \in 0 .. n - 1 : high(i) = P(i) + i + 1
  BY DEF OneBit
<1>10. runs = {i \in 0 .. n :
                 /\ (IF i = 0 THEN 1 ELSE high(i - 1) + 1) - i <= zero
                 /\ zero < (IF i = n THEN length ELSE high(i)) - i}
  BY DEF Runs, RunBegin, RunEnd
<1> HIDE DEF P, k, high, runs
<1>4. k \in runs
  <2>1. (IF k = 0 THEN 1 ELSE high(k - 1) + 1) - k <= zero
    <3>1. CASE k = 0
      BY <3>1
    <3>2. CASE k # 0
      <4>1. k - 1 \in 0 .. n - 1 /\ k - 1 < k /\ k \in Nat
        BY <1>2, <3>2
      <4>2. P(k - 1) \in Nat /\ P(k - 1) < zero /\ high(k - 1) = P(k - 1) + (k - 1) + 1
        BY <1>1, <1>2, <1>3, <4>1
      <4> QED  BY <3>2, <4>1, <4>2
    <3> QED  BY <3>1, <3>2
  <2>2. zero < (IF k = n THEN length ELSE high(k)) - k
    <3>1. CASE k = n
      BY <3>1
    <3>2. CASE k # n
      <4>1. k \in 0 .. n - 1 /\ ~ (k < k)
        BY <1>2, <3>2
      <4>2. P(k) \in Nat /\ P(k) >= zero /\ high(k) = P(k) + k + 1
        BY <1>1, <1>2, <1>3, <4>1
      <4> QED  BY <3>2, <4>1, <4>2
    <3> QED  BY <3>1, <3>2
  <2> QED  BY <1>2, <1>10, <2>1, <2>2
<1>5. \A i \in runs : k <= i
  <2> SUFFICES ASSUME NEW i \in runs, i < k PROVE FALSE
    BY <1>2, <1>10
  <2>1. i \in 0 .. n - 1 /\ zero < high(i) - i
    BY <1>2, <1>10
  <2>2. P(i) \in Nat /\ P(i) < zero /\ high(i) = P(i) + i + 1
    BY <1>1, <1>2, <1>3, <2>1
  <2> QED  BY <2>1, <2>2
<1>6. runs \in SUBSET Nat
  BY <1>10
<1>7. Least(runs) \in runs /\ \A y \in runs : Least(runs) <= y
  BY <1>4, <1>6, LeastExists
<1>8. Least(runs) <= k /\ k <= Least(runs) /\ Least(runs) \in Nat
  BY <1>4, <1>5, <1>6, <1>7
<1>9. Least(runs) = k
  BY <1>2, <1>8
<1> QED  BY <1>4, <1>9 DEF k, runs

LEMMA EncodedFacts ==
    ASSUME NEW n \in Nat \ {0}, NEW a \in Arrays(n)
    PROVE  LET v == Encoded(a, n)
           IN  /\ v.size = n
               /\ v.lower = LowerBits(n)
               /\ v.ones = OneBits(a, n)
               /\ \A i \in 0 .. n - 1 : v.low[i] = a[i] % Unit(n)
               /\ v.pointers0[0] = 0 /\ v.pointers1[0] = 0
               /\ \A p \in Nat \ {0} :
                      p * 2 ^ LogSampling1 < n =>
                          v.pointers1[p] = OneBit(a, n, p * 2 ^ LogSampling1)
               /\ \A p \in Nat \ {0} :
                      p * 2 ^ LogSampling0 <= NumDocs \div Unit(n) =>
                          v.pointers0[p] = ZeroBit(a, n, p * 2 ^ LogSampling0)
<1> DEFINE L == Unit(n)
           S0 == 2 ^ LogSampling0
           S1 == 2 ^ LogSampling1
           length == n + (NumDocs \div L) + 2
           high == [i \in 0 .. n - 1 |-> (a[i] \div L) + i + 1]
           runBegin(i) == IF i = 0 THEN 1 ELSE high[i - 1] + 1
           runEnd(i) == IF i = n THEN length ELSE high[i]
           runs(zero) == {i \in 0 .. n : runBegin(i) - i <= zero /\ zero < runEnd(i) - i}
           v == Encoded(a, n)
<1>1. v = [size |-> n,
           lower |-> LowerBits(n),
           ones |-> {high[i] : i \in 0 .. n - 1},
           low |-> [i \in 0 .. n - 1 |-> a[i] % L],
           pointers0 |-> [p \in 0 .. (length - n) \div S0 |->
                             LET zero == p * S0
                             IN  IF p = 0 \/ runs(zero) = {} THEN 0 ELSE zero + Least(runs(zero))],
           pointers1 |-> [p \in 0 .. n \div S1 |->
                             LET i == p * S1
                             IN  IF p = 0 \/ i = n THEN 0 ELSE high[i]]]
  BY DEF Encoded, Unit
<1>2. high = [i \in 0 .. n - 1 |-> OneBit(a, n, i)]
  BY DEF OneBit, HighPart
<1>3. L \in Nat \ {0} /\ S0 \in Nat \ {0} /\ S1 \in Nat \ {0}
  <2>1. LogSampling0 \in Nat /\ LogSampling1 \in Nat
    BY EliasFanoAssumption
  <2>2. \A k \in Nat : 2 ^ k \in Nat /\ k < 2 ^ k
    BY Power
  <2> QED  BY <2>1, <2>2, UnitFacts
<1>4. NumDocs \div L \in Nat
  BY HighParts
<1> DEFINE N == NumDocs \div L
<1> HIDE DEF S0, S1, N, v, L
<1>5. length \in Nat /\ length - n = N + 2 /\ N \in Nat
  BY <1>4 DEF N
<1> HIDE DEF length
<1>6. (length - n) \div S0 \in Nat /\ n \div S1 \in Nat
  BY <1>3, <1>5, Division
<1>7. {high[i] : i \in 0 .. n - 1} = OneBits(a, n)
  BY <1>2 DEF OneBits
<1>8. v.pointers0[0] = 0 /\ v.pointers1[0] = 0
  BY <1>1, <1>6
<1>9. \A p \in Nat \ {0} : p * S1 < n => v.pointers1[p] = OneBit(a, n, p * S1)
  <2> SUFFICES ASSUME NEW p \in Nat \ {0}, p * S1 < n
               PROVE  v.pointers1[p] = OneBit(a, n, p * S1)
    OBVIOUS
  <2>1. p \in 0 .. n \div S1
    <3> DEFINE m == p * S1
    <3>1. m \in Nat
      BY <1>3
    <3>2. m \div S1 = p
      BY <1>3, TimesDivided
    <3> HIDE DEF m
    <3>3. m \div S1 <= n \div S1
      BY <1>3, <3>1, DivisionAscends DEF m
    <3> QED  BY <1>6, <3>2, <3>3
  <2>2. p * S1 \in 0 .. n - 1
    BY <1>3
  <2>3. v.pointers1[p] = high[p * S1]
    BY <1>1, <2>1, <2>2
  <2> QED  BY <1>2, <2>2, <2>3
<1>10. \A p \in Nat \ {0} : p * S0 <= N => v.pointers0[p] = ZeroBit(a, n, p * S0)
  <2> SUFFICES ASSUME NEW p \in Nat \ {0}, p * S0 <= N
               PROVE  v.pointers0[p] = ZeroBit(a, n, p * S0)
    OBVIOUS
  <2> DEFINE m == p * S0
  <2>1. m \in Nat \ {0} /\ m <= N
    BY <1>3, TimesPositive
  <2>2. m \div S0 = p
    BY <1>3, TimesDivided
  <2> HIDE DEF m
  <2>3. m < length - n /\ m <= length - n /\ length - n \in Nat
    BY <1>5, <2>1
  <2>4. p \in 0 .. (length - n) \div S0
    <3>1. m \div S0 <= (length - n) \div S0
      BY <1>3, <2>1, <2>3, DivisionAscends
    <3> QED  BY <1>6, <2>2, <3>1
  <2>5. runs(m) # {} /\ Least(runs(m)) = Fewer(a, n, m)
    <3>1. runs(m) = Runs(a, n, length, m)
      <4>1. \A i \in 0 .. n : runBegin(i) = RunBegin(a, n, i)
        BY <1>2 DEF RunBegin
      <4>2. \A i \in 0 .. n : runEnd(i) = RunEnd(a, n, length, i)
        BY <1>2 DEF RunEnd
      <4> HIDE DEF runBegin, runEnd
      <4> QED  BY <4>1, <4>2 DEF Runs
    <3>2. length \in Nat /\ m \in Nat \ {0} /\ m < length - n
      BY <1>5, <2>1, <2>3
    <3> HIDE DEF runs
    <3> QED  BY <3>1, <3>2, RunOfZero
  <2>6. v.pointers0[p] = IF p = 0 \/ runs(m) = {} THEN 0 ELSE m + Least(runs(m))
    BY <1>1, <2>4 DEF m
  <2> QED  BY <2>5, <2>6 DEF ZeroBit, m
<1>11. /\ v.size = n /\ v.lower = LowerBits(n)
       /\ v.ones = {high[i] : i \in 0 .. n - 1}
       /\ v.low = [i \in 0 .. n - 1 |-> a[i] % L]
  BY <1>1
<1>12. \A i \in 0 .. n - 1 : v.low[i] = a[i] % Unit(n)
  BY <1>11 DEF L
<1> HIDE DEF high
<1> QED  BY <1>7, <1>8, <1>9, <1>10, <1>11, <1>12 DEF S0, S1, N, L, v

-----------------------------------------------------------------------------
(***************************************************************************)
(* The enumerator over the high bits.  It is before a position when its    *)
(* next one is that of the position.                                       *)
(***************************************************************************)
Before(a, n, e, k) ==
    /\ k \in 0 .. n
    /\ e.unread \in Nat
    /\ \A i \in 0 .. n - 1 : i < k <=> OneBit(a, n, i) < e.unread

LEMMA NextOneIs ==
    ASSUME NEW n \in Nat \ {0}, NEW a \in Arrays(n), NEW e, NEW k, Before(a, n, e, k),
           NEW j \in Nat, k + j < n
    PROVE  NextOne(Encoded(a, n), e, j) = OneBit(a, n, k + j)
<1> DEFINE f == [i \in 0 .. n - 1 |-> OneBit(a, n, i)]
           S == {b \in OneBits(a, n) : b >= e.unread}
           x == f[k + j]
           B == {y \in S : y < x}
<1>1. k \in 0 .. n /\ e.unread \in Nat
  BY DEF Before
<1>2. /\ \A i \in 0 .. n - 1 : f[i] \in Nat
      /\ \A i, l \in 0 .. n - 1 : i < l <=> f[i] < f[l]
      /\ \A i, l \in 0 .. n - 1 : f[i] = f[l] => i = l
  BY OnesAscend
<1>3. \A i \in 0 .. n - 1 : i < k <=> f[i] < e.unread
  BY DEF Before
<1>4. OneBits(a, n) = {f[i] : i \in 0 .. n - 1}
  BY DEF OneBits
<1>5. k + j \in 0 .. n - 1 /\ ~ (k + j < k)
  BY <1>1
<1> HIDE DEF f
<1>6. S = {f[i] : i \in k .. n - 1}
  BY <1>1, <1>2, <1>3, <1>4
<1>7. B = ValuesOf(f, k, k + j)
  BY <1>1, <1>2, <1>5, <1>6 DEF ValuesOf
<1>8. x \in S
  BY <1>1, <1>5, <1>6
<1>9. S \in SUBSET Nat
  BY <1>1, <1>2, <1>6
<1>10. Cardinality(ValuesOf(f, k, k + j)) = (k + j) - k
  <2>1. k \in Nat /\ k + j \in Nat /\ k <= k + j
    BY <1>1
  <2>2. Distinct(f, k, k + j)
    BY <1>1, <1>2, <1>5 DEF Distinct
  <2> QED  BY <2>1, <2>2, ImageSize
<1>11. Cardinality(B) = j
  BY <1>1, <1>7, <1>10
<1> HIDE DEF S, x
<1>12. Nth(S, j) = x
  BY <1>8, <1>9, <1>11, NthIs
<1>13. NextOne(Encoded(a, n), e, j) = Nth(S, j)
  BY EncodedFacts DEF NextOne, S
<1> QED  BY <1>5, <1>12, <1>13 DEF x, f

LEMMA AtOne ==
    ASSUME NEW n \in Nat \ {0}, NEW a \in Arrays(n), NEW k \in 0 .. n - 1
    PROVE  /\ Before(a, n, EnumeratorAt(OneBit(a, n, k)), k)
           /\ \A at : Before(a, n, [at |-> at, unread |-> OneBit(a, n, k) + 1], k + 1)
<1> DEFINE f(i) == OneBit(a, n, i)
<1>1. /\ \A i \in 0 .. n - 1 : f(i) \in Nat
      /\ \A i, l \in 0 .. n - 1 : i < l <=> f(i) < f(l)
      /\ \A i, l \in 0 .. n - 1 : f(i) = f(l) => i = l
  BY OnesAscend
<1> HIDE DEF f
<1>2. \A i \in 0 .. n - 1 : i < k <=> f(i) < f(k)
  BY <1>1
<1>3. \A i \in 0 .. n - 1 : i < k + 1 <=> f(i) < f(k) + 1
  BY <1>1
<1> QED  BY <1>1, <1>2, <1>3 DEF Before, EnumeratorAt, f

LEMMA AtStart ==
    ASSUME NEW n \in Nat \ {0}, NEW a \in Arrays(n)
    PROVE  /\ Before(a, n, EnumeratorAt(0), 0)
           /\ ZeroBit(a, n, 0) = 0
<1>1. \A i \in 0 .. n - 1 : OneBit(a, n, i) \in Nat /\ OneBit(a, n, i) > i
  BY OnesAscend
<1>2. Before(a, n, EnumeratorAt(0), 0)
  BY <1>1 DEF Before, EnumeratorAt
<1>3. Fewer(a, n, 0) = 0
  <2>1. /\ Fewer(a, n, 0) \in 0 .. n
        /\ \A i \in 0 .. n - 1 : i < Fewer(a, n, 0) => HighPart(a, n, i) < 0
    BY FewerFacts
  <2>2. \A i \in 0 .. n - 1 : HighPart(a, n, i) \in Nat
    BY HighParts
  <2>3. Fewer(a, n, 0) > 0 => 0 \in 0 .. n - 1 /\ 0 < Fewer(a, n, 0)
    OBVIOUS
  <2> QED  BY <2>1, <2>2, <2>3
<1> QED  BY <1>2, <1>3 DEF ZeroBit

LEMMA AtZero ==
    ASSUME NEW n \in Nat \ {0}, NEW a \in Arrays(n), NEW h \in Nat
    PROVE  Before(a, n, EnumeratorAt(ZeroBit(a, n, h)), Fewer(a, n, h))
BY ZeroBits, FewerFacts DEF Before, EnumeratorAt

LEMMA SkippedIs ==
    ASSUME NEW n \in Nat \ {0}, NEW a \in Arrays(n), NEW e, NEW k, Before(a, n, e, k),
           NEW p \in k .. n - 1
    PROVE  Before(a, n, Skipped(Encoded(a, n), e, p - k), p)
<1>1. k \in Nat /\ p - k \in Nat /\ k + (p - k) = p /\ p < n /\ p \in 0 .. n - 1
  BY DEF Before
<1> DEFINE j == p - k
<1>2. j \in Nat /\ k + j = p /\ k + j < n
  BY <1>1
<1> HIDE DEF j
<1>3. NextOne(Encoded(a, n), e, j) = OneBit(a, n, p)
  BY <1>2, NextOneIs
<1> QED  BY <1>1, <1>3, AtOne DEF Skipped, j

(***************************************************************************)
(* The zeros between two bits.                                             *)
(***************************************************************************)
OnesBetween(a, n, left, z, j, k) ==
    \A i \in 0 .. n - 1 :
        (left <= OneBit(a, n, i) /\ OneBit(a, n, i) < z) <=> (j <= i /\ i < k)

LEMMA ZerosBetween ==
    ASSUME NEW n \in Nat \ {0}, NEW a \in Arrays(n),
           NEW left \in Nat, NEW z \in Nat, left <= z,
           NEW j \in 0 .. n, NEW k \in 0 .. n, j <= k,
           OnesBetween(a, n, left, z, j, k)
    PROVE  Cardinality((left .. z - 1) \ OneBits(a, n)) = (z - left) - (k - j)
<1> DEFINE f == [i \in 0 .. n - 1 |-> OneBit(a, n, i)]
           S == left .. z - 1
           T == OneBits(a, n)
<1>1. IsFiniteSet(S) /\ Cardinality(S) = z - left
  BY IntervalSize
<1>2. /\ \A i \in 0 .. n - 1 : f[i] \in Nat
      /\ \A i, l \in 0 .. n - 1 : f[i] = f[l] => i = l
      /\ T = {f[i] : i \in 0 .. n - 1}
      /\ \A i \in 0 .. n - 1 : (left <= f[i] /\ f[i] < z) <=> (j <= i /\ i < k)
  BY OnesAscend DEF OneBits, OnesBetween
<1> HIDE DEF f, T
<1>3. S \cap T = ValuesOf(f, j, k)
  BY <1>2 DEF ValuesOf
<1>4. Cardinality(ValuesOf(f, j, k)) = k - j
  <2>1. Distinct(f, j, k)
    BY <1>2 DEF Distinct
  <2>2. j \in Nat /\ k \in Nat
    OBVIOUS
  <2> QED  BY <2>1, <2>2, ImageSize
<1> HIDE DEF S
<1>5. Cardinality(S \ T) = Cardinality(S) - Cardinality(S \cap T)
  BY <1>1, FS_Difference
<1> QED  BY <1>1, <1>3, <1>4, <1>5 DEF S, T

(***************************************************************************)
(* Zeros are skipped from one zero to another, or from a consumed one,     *)
(* which counts as the zero before the next.                               *)
(***************************************************************************)
LEMMA FromZero ==
    ASSUME NEW n \in Nat \ {0}, NEW a \in Arrays(n),
           NEW g \in Nat, NEW h \in Nat, g <= h
    PROVE  SkippedZeros(Encoded(a, n), EnumeratorAt(ZeroBit(a, n, g)), h - g)
               = EnumeratorAt(ZeroBit(a, n, h))
<1> DEFINE q == ZeroBit(a, n, g)
           z == ZeroBit(a, n, h)
           j == Fewer(a, n, g)
           k == Fewer(a, n, h)
           ones == OneBits(a, n)
           m == h - g
           Z == {b \in q .. q + m + n : b < q \/ b \notin ones}
           O(i) == OneBit(a, n, i)
           P(i) == HighPart(a, n, i)
<1>1. /\ q \in Nat /\ z \in Nat /\ z \notin ones /\ q \notin ones
      /\ \A i \in 0 .. n - 1 : (O(i) < q <=> i < j) /\ (O(i) < z <=> i < k)
  BY ZeroBits
<1>2. /\ j \in 0 .. n /\ k \in 0 .. n
      /\ \A i \in 0 .. n - 1 : (i < j <=> P(i) < g) /\ (i < k <=> P(i) < h)
  BY FewerFacts
<1>3. q = g + j /\ z = h + k
  BY DEF ZeroBit
<1>4. \A i \in 0 .. n - 1 : O(i) \in Nat /\ O(i) # q /\ P(i) \in Nat
  BY <1>1, OnesAscend, HighParts DEF OneBits
<1> HIDE DEF q, z, j, k, ones, O, P
<1>5. j <= k
  <2> SUFFICES ASSUME k < j PROVE FALSE
    BY <1>2
  <2>1. k \in 0 .. n - 1 /\ ~ (k < k)
    BY <1>2
  <2>2. P(k) < g /\ ~ (P(k) < h) /\ P(k) \in Nat
    BY <1>2, <1>4, <2>1
  <2> QED  BY <2>2
<1>6. q <= z /\ m \in Nat /\ z <= q + m + n
  BY <1>2, <1>3, <1>5
<1>7. \A i \in 0 .. n - 1 : (q <= O(i) /\ O(i) < z) <=> (j <= i /\ i < k)
  BY <1>1, <1>2, <1>4
<1>8. Cardinality((q .. z - 1) \ ones) = (z - q) - (k - j)
  <2>1. OnesBetween(a, n, q, z, j, k)
    BY <1>7 DEF O, OnesBetween
  <2>2. Cardinality((q .. z - 1) \ OneBits(a, n)) = (z - q) - (k - j)
    <3>1. q \in Nat /\ z \in Nat /\ q <= z /\ j \in 0 .. n /\ k \in 0 .. n /\ j <= k
      BY <1>1, <1>2, <1>5, <1>6
    <3> HIDE DEF Z, m
    <3> QED  BY <3>1, <2>1, ZerosBetween
  <2> QED  BY <2>2 DEF ones
<1>9. {y \in Z : y < z} = (q .. z - 1) \ ones
  BY <1>1, <1>6
<1>10. z \in Z /\ Z \in SUBSET Nat
  BY <1>1, <1>6
<1>11. Cardinality({y \in Z : y < z}) = m
  BY <1>2, <1>3, <1>8, <1>9
<1> HIDE DEF Z
<1>12. Nth(Z, m) = z
  BY <1>10, <1>11, NthIs
<1>13. SkippedZeros(Encoded(a, n), EnumeratorAt(q), m)
           = [at |-> Nth(Z, m), unread |-> IF Nth(Z, m) < q THEN q ELSE Nth(Z, m)]
  BY EncodedFacts DEF SkippedZeros, EnumeratorAt, Z, ones
<1> QED  BY <1>1, <1>6, <1>12, <1>13 DEF EnumeratorAt, q, z

LEMMA FromOne ==
    ASSUME NEW n \in Nat \ {0}, NEW a \in Arrays(n), NEW p \in 0 .. n - 1,
           NEW e, e = [at |-> OneBit(a, n, p), unread |-> OneBit(a, n, p) + 1],
           NEW h \in Nat, HighPart(a, n, p) <= h
    PROVE  SkippedZeros(Encoded(a, n), e, h - HighPart(a, n, p))
               = IF h = HighPart(a, n, p) THEN e ELSE EnumeratorAt(ZeroBit(a, n, h))
<1> DEFINE o == OneBit(a, n, p)
           z == ZeroBit(a, n, h)
           k == Fewer(a, n, h)
           ones == OneBits(a, n)
           O(i) == OneBit(a, n, i)
           P(i) == HighPart(a, n, i)
           m == h - P(p)
           Z == {b \in o .. o + m + n : b < o + 1 \/ b \notin ones}
<1>1. /\ z \in Nat /\ z \notin ones
      /\ \A i \in 0 .. n - 1 : O(i) < z <=> i < k
  BY ZeroBits
<1>2. /\ k \in 0 .. n
      /\ \A i \in 0 .. n - 1 : i < k <=> P(i) < h
  BY FewerFacts
<1>3. z = h + k /\ o = P(p) + p + 1 /\ o = O(p)
  BY DEF ZeroBit, OneBit
<1>4. /\ \A i \in 0 .. n - 1 : O(i) \in Nat /\ P(i) \in Nat
      /\ \A i, l \in 0 .. n - 1 : i < l <=> O(i) < O(l)
  BY OnesAscend, HighParts
<1>5. SkippedZeros(Encoded(a, n), e, m)
          = [at |-> Nth(Z, m), unread |-> IF Nth(Z, m) < o + 1 THEN o + 1 ELSE Nth(Z, m)]
  BY EncodedFacts DEF SkippedZeros
<1> HIDE DEF o, z, k, ones, O, P
<1>6. o \in Nat /\ m \in Nat /\ P(p) \in Nat
  BY <1>3, <1>4 DEF P
<1>7. Z \in SUBSET Nat
  BY <1>6
<1>8. CASE h = P(p)
  <2>1. o \in Z /\ {y \in Z : y < o} = {} /\ m = 0
    BY <1>6, <1>8
  <2>2. Cardinality({y \in Z : y < o}) = 0
    BY <2>1, FS_EmptySet
  <2> HIDE DEF Z
  <2>3. Nth(Z, m) = o
    BY <1>7, <2>1, <2>2, NthIs
  <2> QED  BY <1>5, <1>6, <1>8, <2>3 DEF o, P
<1>9. CASE h # P(p)
  <2> DEFINE A == (o + 1 .. z - 1) \ ones
  <2>1. P(p) < h /\ p < k
    BY <1>2, <1>4, <1>9 DEF P
  <2>2. o < z /\ z <= o + m + n
    BY <1>1, <1>2, <1>3, <1>6, <2>1
  <2>3. \A i \in 0 .. n - 1 : (o + 1 <= O(i) /\ O(i) < z) <=> (p + 1 <= i /\ i < k)
    BY <1>1, <1>2, <1>3, <1>4, <1>6
  <2>4. Cardinality(A) = (z - (o + 1)) - (k - (p + 1))
    <3>1. o + 1 \in Nat /\ o + 1 <= z /\ p + 1 \in 0 .. n /\ p + 1 <= k
      BY <1>1, <1>2, <1>6, <2>1, <2>2
    <3>2. OnesBetween(a, n, o + 1, z, p + 1, k)
      BY <2>3 DEF O, OnesBetween
    <3> DEFINE left == o + 1
               j == p + 1
    <3> HIDE DEF left, j
    <3>3. Cardinality((left .. z - 1) \ OneBits(a, n)) = (z - left) - (k - j)
      <4>1. left \in Nat /\ left <= z /\ j \in 0 .. n /\ j <= k
        BY <3>1 DEF left, j
      <4>2. OnesBetween(a, n, left, z, j, k)
        BY <3>2 DEF left, j
      <4> QED  BY <1>1, <1>2, <4>1, <4>2, ZerosBetween
    <3> QED  BY <3>3 DEF ones, left, j
  <2>5. IsFiniteSet(A)
    <3>1. IsFiniteSet(o + 1 .. z - 1)
      BY <1>1, <1>6, <2>2, IntervalSize
    <3> QED  BY <3>1, FS_Difference
  <2>6. {y \in Z : y < z} = A \cup {o}
    BY <1>1, <1>6, <2>2
  <2>7. o \notin A
    BY <1>6
  <2> HIDE DEF A
  <2>8. Cardinality(A \cup {o}) = Cardinality(A) + 1
    BY <2>5, <2>7, FS_AddElement
  <2>9. Cardinality({y \in Z : y < z}) = m
    <3>1. k \in Nat /\ p \in Nat /\ z \in Nat
      BY <1>1, <1>2
    <3>2. (z - (o + 1)) - (k - (p + 1)) + 1 = h - P(p)
      BY <1>3, <1>6, <3>1
    <3> QED  BY <2>4, <2>6, <2>8, <3>2
  <2>10. z \in Z
    BY <1>1, <1>6, <2>2
  <2> HIDE DEF Z
  <2>11. Nth(Z, m) = z
    BY <1>7, <2>9, <2>10, NthIs
  <2>12. ~ (z < o + 1)
    BY <1>1, <1>6, <2>2
  <2> QED  BY <1>5, <1>9, <2>11, <2>12 DEF EnumeratorAt, z, P
<1> QED  BY <1>8, <1>9

-----------------------------------------------------------------------------
(***************************************************************************)
(* The cursor at a position: it shows the value there and has consumed the *)
(* one of the position, and no other behind it.  An exhausted cursor may   *)
(* have its enumerator anywhere.                                           *)
(***************************************************************************)
ValueAt(a, n, p) == IF p < n THEN a[p] ELSE NumDocs

EfAt(a, n, c, p) ==
    /\ c.pos = p
    /\ c.value = ValueAt(a, n, p)
    /\ p < n => c.high = [at |-> OneBit(a, n, p), unread |-> OneBit(a, n, p) + 1]

LEMMA ValueOfOne ==
    ASSUME NEW n \in Nat \ {0}, NEW a \in Arrays(n), NEW p \in 0 .. n - 1
    PROVE  ValueOf(Encoded(a, n), OneBit(a, n, p), p) = a[p]
<1>1. a[p] \in Nat /\ HighPart(a, n, p) \in Nat
  BY HighParts
<1>2. Unit(n) \in Nat \ {0}
  BY UnitFacts
<1>3. (a[p] \div Unit(n)) * Unit(n) + (a[p] % Unit(n)) = a[p]
  BY <1>1, <1>2, Division
<1>4. OneBit(a, n, p) - p - 1 = a[p] \div Unit(n)
  BY <1>1 DEF OneBit, HighPart
<1>5. Encoded(a, n).lower = LowerBits(n) /\ Encoded(a, n).low[p] = a[p] % Unit(n)
  BY EncodedFacts
<1> QED  BY <1>3, <1>4, <1>5 DEF ValueOf, Unit

(***************************************************************************)
(* Reading on from a position stops at the first value that is not below   *)
(* the bound.                                                              *)
(***************************************************************************)
FirstFrom(a, n, first, bound, p) ==
    /\ p \in first .. n
    /\ \A q \in first .. p - 1 : a[q] < bound
    /\ p < n => a[p] >= bound

LEMMA ReadFromIs ==
    ASSUME NEW n \in Nat \ {0}, NEW a \in Arrays(n), NEW e, NEW first, Before(a, n, e, first),
           NEW bound \in Nat, NEW p, FirstFrom(a, n, first, bound, p)
    PROVE  EfAt(a, n, ReadFrom(Encoded(a, n), e, first, bound), p)
<1> DEFINE v == Encoded(a, n)
           value(q) == ValueOf(v, NextOne(v, e, q - first), q)
           found == {q \in first .. v.size - 1 : value(q) >= bound}
           last == IF found = {} THEN v.size - 1 ELSE Least(found)
           bit == NextOne(v, e, last - first)
           c == ReadFrom(v, e, first, bound)
<1>1. c = [pos |-> IF found = {} THEN v.size ELSE last,
           value |-> IF found = {} THEN NumDocs ELSE value(last),
           high |-> IF first > last THEN e ELSE [at |-> bit, unread |-> bit + 1]]
  BY DEF ReadFrom
<1>2. v.size = n /\ first \in 0 .. n
  BY EncodedFacts DEF Before
<1>3. \A q \in first .. n - 1 : NextOne(v, e, q - first) = OneBit(a, n, q)
  <2> TAKE q \in first .. n - 1
  <2> DEFINE j == q - first
  <2>1. j \in Nat /\ first + j < n /\ first + j = q
    BY <1>2
  <2> HIDE DEF j
  <2> QED  BY <2>1, NextOneIs DEF j
<1>4. \A q \in first .. n - 1 : value(q) = a[q]
  <2> TAKE q \in first .. n - 1
  <2>1. q \in 0 .. n - 1
    BY <1>2
  <2> QED  BY <1>3, <2>1, ValueOfOne
<1>5. \A q \in 0 .. n - 1 : a[q] \in Nat
  BY HighParts
<1>6. p \in first .. n /\ (\A q \in first .. p - 1 : a[q] < bound) /\ (p < n => a[p] >= bound)
  BY DEF FirstFrom
<1> HIDE DEF v, value, bit, c
<1>7. found \in SUBSET Nat
  BY <1>2
<1>8. CASE p < n
  <2>1. p \in found /\ \A q \in found : p <= q
    BY <1>2, <1>4, <1>5, <1>6, <1>8
  <2>2. Least(found) \in found /\ \A y \in found : Least(found) <= y
    <3> HIDE DEF found
    <3> QED  BY <1>7, <2>1, LeastExists
  <2>3. Least(found) = p
    <3>1. Least(found) <= p /\ p <= Least(found) /\ p \in Nat /\ Least(found) \in Nat
      BY <1>7, <2>1, <2>2
    <3> QED  BY <3>1
  <2>4. found # {} /\ last = p
    BY <2>1, <2>3
  <2>5. p \in first .. n - 1 /\ ~ (first > p)
    BY <1>2, <1>6, <1>8
  <2> HIDE DEF found
  <2>6. bit = OneBit(a, n, p) /\ value(p) = a[p]
    BY <1>3, <1>4, <2>4, <2>5 DEF bit
  <2> HIDE DEF last
  <2>7. c.pos = p /\ c.value = a[p] /\ c.high = [at |-> bit, unread |-> bit + 1]
    BY <1>1, <2>4, <2>5, <2>6
  <2> QED  BY <1>8, <2>6, <2>7 DEF EfAt, ValueAt, c, v
<1>9. CASE ~ (p < n)
  <2>1. p = n
    BY <1>2, <1>6, <1>9
  <2>2. found = {}
    BY <1>2, <1>4, <1>5, <1>6, <2>1
  <2>3. c.pos = n /\ c.value = NumDocs
    BY <1>1, <1>2, <2>2
  <2> QED  BY <1>9, <2>1, <2>3 DEF EfAt, ValueAt, c, v
<1> QED  BY <1>8, <1>9

-----------------------------------------------------------------------------
(***************************************************************************)
(* The operations take a cursor from one position to another.              *)
(***************************************************************************)
LEMMA Samplings ==
    /\ 2 ^ LogSampling0 \in Nat \ {0}
    /\ 2 ^ LogSampling1 \in Nat \ {0}
    /\ EfScanThreshold \in Nat
<1>1. LogSampling0 \in Nat /\ LogSampling1 \in Nat /\ EfScanThreshold \in Nat
  BY EliasFanoAssumption
<1>2. \A k \in Nat : 2 ^ k \in Nat /\ k < 2 ^ k
  BY Power
<1> QED  BY <1>1, <1>2

LEMMA FirstAtZero ==
    ASSUME NEW n \in Nat \ {0}, NEW a \in Arrays(n), NEW p \in 0 .. n
    PROVE  FirstFrom(a, n, p, 0, p)
<1>1. \A q \in 0 .. n - 1 : a[q] \in Nat
  BY HighParts
<1> QED  BY <1>1 DEF FirstFrom

\* access() reads the value of a position whatever the enumerator starts from.
LEMMA ReadAt ==
    ASSUME NEW n \in Nat \ {0}, NEW a \in Arrays(n), NEW e, NEW p \in 0 .. n - 1,
           Before(a, n, e, p)
    PROVE  EfAt(a, n, ReadFrom(Encoded(a, n), e, p, 0), p)
<1>1. p \in 0 .. n /\ 0 \in Nat
  OBVIOUS
<1> QED  BY <1>1, FirstAtZero, ReadFromIs

LEMMA SkippedFromCursor ==
    ASSUME NEW n \in Nat \ {0}, NEW a \in Arrays(n), NEW c, NEW now \in 0 .. n - 1,
           EfAt(a, n, c, now), NEW p \in now + 1 .. n - 1
    PROVE  Before(a, n, Skipped(Encoded(a, n), c.high, p - now - 1), p)
<1>1. Before(a, n, c.high, now + 1)
  BY AtOne DEF EfAt
<1>2. p - now - 1 = p - (now + 1)
  OBVIOUS
<1>3. now + 1 \in Nat
  OBVIOUS
<1> DEFINE k == now + 1
<1> HIDE DEF k
<1>4. Before(a, n, Skipped(Encoded(a, n), c.high, p - k), p)
  BY <1>1, SkippedIs DEF k
<1> QED  BY <1>2, <1>4 DEF k

LEMMA SkippedFromPointer ==
    ASSUME NEW n \in Nat \ {0}, NEW a \in Arrays(n), NEW p \in 0 .. n - 1
    PROVE  LET ptr == p \div 2 ^ LogSampling1
               start == EnumeratorAt(Encoded(a, n).pointers1[ptr])
           IN  Before(a, n, Skipped(Encoded(a, n), start, p - ptr * 2 ^ LogSampling1), p)
<1> DEFINE S == 2 ^ LogSampling1
           ptr == p \div S
           start == EnumeratorAt(Encoded(a, n).pointers1[ptr])
           k == ptr * S
<1>1. S \in Nat \ {0}
  BY Samplings
<1> HIDE DEF S
<1>2. ptr \in Nat /\ k <= p
  BY <1>1, Division
<1> HIDE DEF ptr
<1>3. k \in Nat /\ p \in k .. n - 1 /\ k \in 0 .. n - 1
  BY <1>1, <1>2
<1>4. Before(a, n, start, k)
  <2>1. CASE ptr = 0
    <3>1. Encoded(a, n).pointers1[0] = 0 /\ k = 0
      BY <1>1, <2>1, EncodedFacts
    <3> QED  BY <2>1, <3>1, AtStart
  <2>2. CASE ptr # 0
    <3>1. ptr \in Nat \ {0} /\ k < n
      BY <1>2, <1>3, <2>2
    <3>2. Encoded(a, n).pointers1[ptr] = OneBit(a, n, k)
      BY <3>1, EncodedFacts DEF S
    <3> QED  BY <1>3, <3>2, AtOne
  <2> QED  BY <2>1, <2>2
<1> HIDE DEF start, k
<1>5. Before(a, n, Skipped(Encoded(a, n), start, p - k), p)
  BY <1>3, <1>4, SkippedIs
<1> QED  BY <1>5 DEF start, ptr, k, S

LEMMA AccessedIs ==
    ASSUME NEW n \in Nat \ {0}, NEW a \in Arrays(n), NEW c, NEW now \in 0 .. n,
           EfAt(a, n, c, now), NEW p \in 0 .. n
    PROVE  EfAt(a, n, Accessed(Encoded(a, n), c, p), p)
<1> DEFINE v == Encoded(a, n)
<1>1. v.size = n /\ c.pos = now
  BY EncodedFacts DEF EfAt
<1>2. CASE p = n
  <2>1. Accessed(v, c, p) = Exhausted(v, c)
    BY <1>1, <1>2 DEF Accessed
  <2> QED  BY <1>1, <1>2, <2>1 DEF Exhausted, EfAt, ValueAt
<1>3. CASE p # n
  <2>1. p \in 0 .. n - 1
    BY <1>3
  <2>2. p > now => Before(a, n, Skipped(v, c.high, p - now - 1), p)
    <3> SUFFICES ASSUME p > now PROVE Before(a, n, Skipped(v, c.high, p - now - 1), p)
      OBVIOUS
    <3>1. now \in 0 .. n - 1 /\ p \in now + 1 .. n - 1
      BY <2>1
    <3> HIDE DEF v
    <3> QED  BY <3>1, SkippedFromCursor DEF v
  <2>3. Before(a, n, SlowStart(v, c, p), p)
    <3>1. CASE p > c.pos /\ p - c.pos < 2 ^ LogSampling1
      BY <1>1, <2>2, <3>1 DEF SlowStart
    <3>2. CASE ~ (p > c.pos /\ p - c.pos < 2 ^ LogSampling1)
      BY <2>1, <3>2, SkippedFromPointer DEF SlowStart
    <3> QED  BY <3>1, <3>2
  <2> DEFINE start == IF p > c.pos /\ p - c.pos <= EfScanThreshold
                      THEN Skipped(v, c.high, p - c.pos - 1)
                      ELSE SlowStart(v, c, p)
  <2>4. Before(a, n, start, p)
    BY <1>1, <2>2, <2>3
  <2>5. Accessed(v, c, p) = ReadFrom(v, start, p, 0)
    BY <1>1, <1>3 DEF Accessed
  <2> HIDE DEF start
  <2> QED  BY <2>1, <2>4, <2>5, ReadAt
<1> QED  BY <1>2, <1>3

LEMMA OpenedIs ==
    ASSUME NEW n \in Nat \ {0}, NEW a \in Arrays(n)
    PROVE  EfAt(a, n, Opened(Encoded(a, n)), 0)
<1> DEFINE v == Encoded(a, n)
           c == [pos |-> 0, value |-> 0, high |-> EnumeratorAt(0)]
<1>1. v.size = n /\ n # 0
  BY EncodedFacts
<1>2. 0 \in 0 .. n - 1 /\ ~ (0 > 0) /\ c.pos = 0
  OBVIOUS
<1>3. Before(a, n, SlowStart(v, c, 0), 0)
  BY <1>2, SkippedFromPointer DEF SlowStart
<1>4. Opened(v) = ReadFrom(v, SlowStart(v, c, 0), 0, 0)
  BY <1>1, <1>2 DEF Opened, Accessed
<1> QED  BY <1>2, <1>3, <1>4, ReadAt

LEMMA AdvancedIs ==
    ASSUME NEW n \in Nat \ {0}, NEW a \in Arrays(n), NEW c, NEW now \in 0 .. n - 1,
           EfAt(a, n, c, now)
    PROVE  EfAt(a, n, Advanced(Encoded(a, n), c), now + 1)
<1>1. Before(a, n, c.high, now + 1)
  BY AtOne DEF EfAt
<1>2. Advanced(Encoded(a, n), c) = ReadFrom(Encoded(a, n), c.high, now + 1, 0)
  BY DEF Advanced, EfAt
<1>3. now + 1 \in 0 .. n /\ 0 \in Nat
  OBVIOUS
<1> QED  BY <1>1, <1>2, <1>3, FirstAtZero, ReadFromIs

LEMMA ReadOnIs ==
    ASSUME NEW n \in Nat \ {0}, NEW a \in Arrays(n), NEW c, NEW now \in 0 .. n - 1,
           EfAt(a, n, c, now), NEW bound \in Nat, a[now] < bound,
           NEW p, FirstFrom(a, n, now, bound, p)
    PROVE  /\ EfAt(a, n, ReadFrom(Encoded(a, n), c.high, now + 1, bound), p)
           /\ p # now
<1>1. Before(a, n, c.high, now + 1)
  BY AtOne DEF EfAt
<1>2. a[now] \in Nat
  BY HighParts
<1>3. p # now
  BY <1>2 DEF FirstFrom
<1>4. FirstFrom(a, n, now + 1, bound, p)
  BY <1>3 DEF FirstFrom
<1> QED  BY <1>1, <1>3, <1>4, ReadFromIs

LEMMA ScannedIs ==
    ASSUME NEW n \in Nat \ {0}, NEW a \in Arrays(n), NEW c, NEW now \in 0 .. n,
           EfAt(a, n, c, now), NEW bound \in CursorValues,
           NEW p, FirstFrom(a, n, now, bound, p)
    PROVE  EfAt(a, n, ScannedGeq(Encoded(a, n), c, bound), p)
<1> DEFINE v == Encoded(a, n)
<1>1. v.size = n /\ c.pos = now /\ c.value = ValueAt(a, n, now)
  BY EncodedFacts DEF EfAt
<1>2. bound \in Nat
  BY Universe
<1>3. CASE now = n
  <2>1. p = now
    BY <1>3 DEF FirstFrom
  <2>2. ScannedGeq(v, c, bound) = c
    BY <1>1, <1>3 DEF ScannedGeq
  <2> QED  BY <2>1, <2>2
<1>4. CASE now # n
  <2>1. now \in 0 .. n - 1 /\ c.value = a[now] /\ a[now] \in Nat
    BY <1>1, <1>4, HighParts DEF ValueAt
  <2>2. CASE a[now] >= bound
    <3>1. p = now
      BY <1>2, <2>1, <2>2 DEF FirstFrom
    <3>2. ScannedGeq(v, c, bound) = c
      BY <2>1, <2>2 DEF ScannedGeq
    <3> QED  BY <3>1, <3>2
  <2>3. CASE a[now] < bound
    <3>1. ScannedGeq(v, c, bound) = ReadFrom(v, c.high, now + 1, bound)
      BY <1>1, <1>2, <1>4, <2>1, <2>3 DEF ScannedGeq
    <3> QED  BY <1>2, <2>1, <2>3, <3>1, ReadOnIs
  <2> QED  BY <1>2, <2>1, <2>2, <2>3
<1> QED  BY <1>3, <1>4

(***************************************************************************)
(* The values behind the zero of a bound's high part are those whose high  *)
(* part is not less; the others are below the bound.                       *)
(***************************************************************************)
LEMMA FromHighPart ==
    ASSUME NEW n \in Nat \ {0}, NEW a \in Arrays(n), NEW bound \in Nat,
           NEW p, FirstFrom(a, n, 0, bound, p)
    PROVE  LET h == bound \div Unit(n)
               zero == EnumeratorAt(ZeroBit(a, n, h))
           IN  EfAt(a, n, ReadFrom(Encoded(a, n), zero, zero.at - h, bound), p)
<1> DEFINE L == Unit(n)
           h == bound \div L
           k == Fewer(a, n, h)
           zero == EnumeratorAt(ZeroBit(a, n, h))
<1>1. L \in Nat \ {0}
  BY UnitFacts
<1>2. \A i \in 0 .. n - 1 : a[i] \in Nat /\ HighPart(a, n, i) = a[i] \div L
  BY HighParts DEF HighPart
<1> HIDE DEF L
<1>3. h \in Nat
  BY <1>1, Division
<1>4. k \in 0 .. n /\ \A i \in 0 .. n - 1 : i < k <=> HighPart(a, n, i) < h
  BY <1>3, FewerFacts
<1>5. \A i \in 0 .. n - 1 : i < k => a[i] < bound
  <2> SUFFICES ASSUME NEW i \in 0 .. n - 1, i < k, ~ (a[i] < bound) PROVE FALSE
    OBVIOUS
  <2>1. bound <= a[i]
    BY <1>2
  <2>2. h <= a[i] \div L
    BY <1>1, <1>2, <2>1, DivisionAscends
  <2>3. a[i] \div L < h /\ a[i] \div L \in Nat
    BY <1>1, <1>2, <1>4, Division
  <2> QED  BY <1>3, <2>2, <2>3
<1> HIDE DEF h
<1>6. zero.at - h = k
  BY <1>3, <1>4 DEF ZeroBit, EnumeratorAt
<1> HIDE DEF k
<1>7. FirstFrom(a, n, k, bound, p)
  <2>1. p \in 0 .. n /\ \A q \in 0 .. p - 1 : a[q] < bound
    BY DEF FirstFrom
  <2>2. p < n => a[p] >= bound
    BY DEF FirstFrom
  <2>3. ~ (p < k)
    <3> SUFFICES ASSUME p < k PROVE FALSE
      OBVIOUS
    <3>1. p \in 0 .. n - 1
      BY <1>4, <2>1
    <3> QED  BY <1>2, <1>5, <2>2, <3>1
  <2> QED  BY <1>4, <2>1, <2>2, <2>3 DEF FirstFrom
<1>8. Before(a, n, zero, k)
  BY <1>3, AtZero DEF k
<1> HIDE DEF zero
<1>9. EfAt(a, n, ReadFrom(Encoded(a, n), zero, k, bound), p)
  BY <1>7, <1>8, ReadFromIs
<1> QED  BY <1>6, <1>9 DEF zero, h, L

LEMMA SkippedFromPointer0 ==
    ASSUME NEW n \in Nat \ {0}, NEW a \in Arrays(n), NEW h \in Nat,
           h <= NumDocs \div Unit(n)
    PROVE  LET ptr == h \div 2 ^ LogSampling0
               start == EnumeratorAt(Encoded(a, n).pointers0[ptr])
           IN  SkippedZeros(Encoded(a, n), start, h - ptr * 2 ^ LogSampling0)
                   = EnumeratorAt(ZeroBit(a, n, h))
<1> DEFINE S == 2 ^ LogSampling0
           ptr == h \div S
           g == ptr * S
           N == NumDocs \div Unit(n)
<1>1. S \in Nat \ {0} /\ N \in Nat
  BY Samplings, HighParts
<1> HIDE DEF S, N
<1>2. ptr \in Nat /\ g <= h
  BY <1>1, Division
<1> HIDE DEF ptr
<1>3. g \in Nat /\ g <= N
  BY <1>1, <1>2 DEF N
<1>4. Encoded(a, n).pointers0[ptr] = ZeroBit(a, n, g)
  <2>1. CASE ptr = 0
    <3>1. Encoded(a, n).pointers0[0] = 0 /\ g = 0
      BY <1>1, <2>1, EncodedFacts
    <3> QED  BY <2>1, <3>1, AtStart
  <2>2. CASE ptr # 0
    <3>1. ptr \in Nat \ {0}
      BY <1>2, <2>2
    <3> QED  BY <1>3, <3>1, EncodedFacts DEF S, N
  <2> QED  BY <2>1, <2>2
<1>5. SkippedZeros(Encoded(a, n), EnumeratorAt(ZeroBit(a, n, g)), h - g)
          = EnumeratorAt(ZeroBit(a, n, h))
  <2> HIDE DEF g
  <2> QED  BY <1>2, <1>3, FromZero
<1> QED  BY <1>4, <1>5 DEF ptr, S

LEMMA SlowIs ==
    ASSUME NEW n \in Nat \ {0}, NEW a \in Arrays(n), NEW c, NEW now \in 0 .. n,
           EfAt(a, n, c, now), NEW bound \in CursorValues,
           NEW p, FirstFrom(a, n, 0, bound, p), now <= p
    PROVE  EfAt(a, n, SlowGeq(Encoded(a, n), c, bound), p)
<1> DEFINE v == Encoded(a, n)
           L == Unit(n)
           h == bound \div L
           diff == h - (c.value \div L)
           S == 2 ^ LogSampling0
           ptr == h \div S
           near == bound > c.value /\ diff < S
           zero == IF near THEN SkippedZeros(v, c.high, diff)
                   ELSE SkippedZeros(v, EnumeratorAt(v.pointers0[ptr]), h - ptr * S)
<1>1. v.size = n /\ c.pos = now /\ c.value = ValueAt(a, n, now) /\ 2 ^ v.lower = L
  BY EncodedFacts DEF EfAt, Unit
<1>2. bound \in Nat /\ bound <= NumDocs /\ NumDocs \in Nat
  BY Universe
<1>3. CASE bound >= NumDocs
  <2>1. SlowGeq(v, c, bound) = Exhausted(v, c)
    BY <1>3 DEF SlowGeq
  <2>2. p = n
    <3>1. \A i \in 0 .. n - 1 : a[i] \in Nat /\ a[i] < NumDocs
      BY HighParts
    <3> QED  BY <1>2, <1>3, <3>1 DEF FirstFrom
  <2> QED  BY <1>1, <2>1, <2>2 DEF Exhausted, EfAt, ValueAt
<1>4. CASE bound < NumDocs
  <2>1. SlowGeq(v, c, bound) = ReadFrom(v, zero, zero.at - h, bound)
    BY <1>1, <1>2, <1>4 DEF SlowGeq
  <2>2. L \in Nat \ {0}
    BY UnitFacts
  <2>3. h \in Nat /\ h <= NumDocs \div L
    <3> HIDE DEF L
    <3> QED  BY <1>2, <2>2, Division, DivisionAscends
  <2>4. CASE near /\ h = HighPart(a, n, now)
    <3>1. now \in 0 .. n - 1 /\ a[now] < bound
      BY <1>1, <1>2, <1>4, <2>4 DEF ValueAt
    <3>2. c.value = a[now] /\ HighPart(a, n, now) = c.value \div L
      BY <1>1, <3>1 DEF ValueAt, HighPart
    <3> DEFINE o == OneBit(a, n, now)
    <3>3. c.high = [at |-> o, unread |-> o + 1] /\ o = h + now + 1
      BY <2>4, <3>1 DEF EfAt, OneBit
    <3>4. SkippedZeros(v, c.high, h - HighPart(a, n, now)) = c.high
      BY <2>3, <2>4, <3>1, <3>3, FromOne
    <3>5. zero = c.high
      BY <2>4, <3>2, <3>4
    <3>6. zero.at - h = now + 1
      <4>1. zero.at = h + now + 1
        BY <3>3, <3>5
      <4> HIDE DEF h, zero
      <4> QED  BY <2>3, <4>1
    <3>7. FirstFrom(a, n, now, bound, p)
      BY DEF FirstFrom
    <3>8. EfAt(a, n, ReadFrom(v, c.high, now + 1, bound), p)
      BY <1>2, <3>1, <3>7, ReadOnIs
    <3> QED  BY <2>1, <3>5, <3>6, <3>8
  <2>5. CASE ~ (near /\ h = HighPart(a, n, now))
    <3>1. zero = EnumeratorAt(ZeroBit(a, n, h))
      <4>1. CASE near
        <5>1. now \in 0 .. n - 1 /\ a[now] < bound /\ a[now] \in Nat
          <6>1. now \in 0 .. n - 1 /\ a[now] < bound
            BY <1>1, <1>2, <1>4, <4>1 DEF ValueAt
          <6> QED  BY <6>1, HighParts
        <5>2. c.value = a[now] /\ HighPart(a, n, now) = c.value \div L
          BY <1>1, <5>1 DEF ValueAt, HighPart
        <5>3. HighPart(a, n, now) <= h
          <6>1. a[now] <= bound
            BY <1>2, <5>1
          <6> HIDE DEF L
          <6> QED  BY <1>2, <2>2, <5>1, <5>2, <6>1, DivisionAscends
        <5>4. c.high = [at |-> OneBit(a, n, now), unread |-> OneBit(a, n, now) + 1]
          BY <5>1 DEF EfAt
        <5>5. SkippedZeros(v, c.high, h - HighPart(a, n, now)) = EnumeratorAt(ZeroBit(a, n, h))
          <6> HIDE DEF h
          <6> QED  BY <2>3, <2>5, <4>1, <5>1, <5>3, <5>4, FromOne
        <5> QED  BY <4>1, <5>2, <5>5
      <4>2. CASE ~ near
        <5> HIDE DEF h
        <5>1. SkippedZeros(v, EnumeratorAt(v.pointers0[ptr]), h - ptr * S)
                  = EnumeratorAt(ZeroBit(a, n, h))
          BY <2>3, SkippedFromPointer0
        <5> QED  BY <4>2, <5>1
      <4> QED  BY <4>1, <4>2
    <3> HIDE DEF zero
    <3>2. EfAt(a, n, ReadFrom(v, EnumeratorAt(ZeroBit(a, n, h)),
                              EnumeratorAt(ZeroBit(a, n, h)).at - h, bound), p)
      BY <1>2, FromHighPart
    <3> QED  BY <2>1, <3>1, <3>2
  <2> QED  BY <2>4, <2>5
<1> QED  BY <1>2, <1>3, <1>4

LEMMA SoughtIs ==
    ASSUME NEW n \in Nat \ {0}, NEW a \in Arrays(n), NEW c, NEW now \in 0 .. n,
           EfAt(a, n, c, now), NEW bound \in CursorValues,
           NEW p, FirstFrom(a, n, 0, bound, p), now <= p
    PROVE  EfAt(a, n, SoughtGeq(Encoded(a, n), c, bound), p)
<1> DEFINE v == Encoded(a, n)
           near == /\ bound > c.value
                   /\ (bound \div 2 ^ v.lower) - (c.value \div 2 ^ v.lower) <= EfScanThreshold
<1>1. c.pos = now /\ c.value = ValueAt(a, n, now)
  BY DEF EfAt
<1>2. bound \in Nat /\ bound <= NumDocs /\ NumDocs \in Nat
  BY Universe
<1>3. CASE near
  <2>1. now \in 0 .. n - 1 /\ a[now] < bound
    BY <1>1, <1>2, <1>3 DEF ValueAt
  <2>2. FirstFrom(a, n, now, bound, p)
    BY DEF FirstFrom
  <2>3. SoughtGeq(v, c, bound) = ReadFrom(v, c.high, now + 1, bound)
    BY <1>1, <1>3 DEF SoughtGeq
  <2> QED  BY <1>2, <2>1, <2>2, <2>3, ReadOnIs
<1>4. CASE ~ near
  <2>1. SoughtGeq(v, c, bound) = SlowGeq(v, c, bound)
    BY <1>4 DEF SoughtGeq
  <2> QED  BY <2>1, SlowIs
<1> QED  BY <1>3, <1>4

-----------------------------------------------------------------------------
(***************************************************************************)
(* Both cursors under the same calls.  Inside next_geq of the one, the     *)
(* other is still where it was at the call.                                *)
(***************************************************************************)
PairInv ==
    /\ IInv
    /\ EfAt(data, size, ef, IF pc = "ready" THEN pos ELSE from)

LEMMA ListOfCursor ==
    ASSUME TypeOK
    PROVE  size \in Nat \ {0} /\ data \in Arrays(size)
BY DEF TypeOK

(***************************************************************************)
(* A call that returns leaves the cursor at the answer.                    *)
(***************************************************************************)
LEMMA SearchReturns ==
    ASSUME IInv, Search
    PROVE  /\ UNCHANGED <<data, size>>
           /\ pc # "ready"
           /\ pc' # "ready" => from' = from
           /\ pc' = "ready" => pos' \in 0 .. size /\ Answer(pos')
<1>1. CASE Scan
  <2>1. PICK p \in 0 .. size : ScannedTo(p) /\ ReturnAt(p, ScanValue(p))
    BY <1>1 DEF Scan
  <2>2. pc # "ready"
    BY <1>1 DEF Scan
  <2> QED  BY <2>1, <2>2, ScanAnswers DEF ReturnAt
<1>2. CASE GoLeft \/ GoRight
  BY <1>2 DEF GoLeft, GoRight, Probes
<1>3. CASE StopBetween \/ StopAt
  <2>1. Answer(Middle) /\ Middle \in 0 .. size - 1 /\ size \in Nat
    BY <1>3, StopAnswers, ListOfCursor DEF IInv
  <2>2. ReturnAt(Middle, data[Middle]) /\ pc # "ready"
    BY <1>3 DEF StopBetween, StopAt, Probes
  <2> QED  BY <2>1, <2>2 DEF ReturnAt
<1>4. CASE NotFound
  <2>1. from = size /\ pos = size /\ size \in Nat
    BY <1>4, ExhaustedStays, ListOfCursor DEF IInv
  <2>2. ReturnAt(pos, NumDocs) /\ pc # "ready"
    BY <1>4 DEF NotFound
  <2>3. Answer(size)
    BY <2>1 DEF Answer
  <2> QED  BY <2>1, <2>2, <2>3 DEF ReturnAt
<1> QED  BY <1>1, <1>2, <1>3, <1>4 DEF Search

LEMMA PairSearchKeeps ==
    ASSUME PairInv, PairSearch
    PROVE  EfAt(data, size, ef', IF pc' = "ready" THEN pos' ELSE from')
<1>1. IInv /\ TypeOK /\ Search
  BY DEF PairInv, IInv, PairSearch
<1>2. /\ size \in Nat \ {0} /\ data \in Arrays(size)
      /\ from \in 0 .. size /\ lower \in CursorValues
  BY <1>1, ListOfCursor DEF TypeOK
<1>3. /\ pc # "ready"
      /\ pc' # "ready" => from' = from
      /\ pc' = "ready" => pos' \in 0 .. size /\ Answer(pos')
  BY <1>1, SearchReturns
<1>4. EfAt(data, size, ef, from)
  BY <1>3 DEF PairInv
<1>5. CASE pc' # "ready"
  BY <1>3, <1>4, <1>5 DEF PairSearch
<1>6. CASE pc' = "ready" /\ ~ Forward
  <2>1. ef' = Accessed(Encoded(data, size), ef, pos')
    BY <1>6 DEF PairSearch, EfList
  <2> QED  BY <1>2, <1>3, <1>4, <1>6, <2>1, AccessedIs
<1>7. CASE pc' = "ready" /\ Forward
  <2> DEFINE p == pos'
  <2>1. p \in from .. size /\ FirstFrom(data, size, from, lower, p)
    BY <1>3, <1>7 DEF Answer, FirstFrom
  <2> HIDE DEF p
  <2>2. FirstFrom(data, size, 0, lower, p) /\ from <= p
    <3>1. \A q \in 0 .. p - 1 : q \in 0 .. from - 1 \/ q \in from .. p - 1
      BY <1>2, <2>1
    <3>2. \A q \in 0 .. from - 1 : data[q] < lower
      BY <1>7 DEF Forward
    <3> QED  BY <1>2, <2>1, <3>1, <3>2 DEF FirstFrom
  <2>3. CASE pc = "scan"
    <3>1. ef' = ScannedGeq(Encoded(data, size), ef, lower)
      BY <1>7, <2>3 DEF PairSearch, EfList
    <3>2. EfAt(data, size, ef', p)
      BY <1>2, <1>4, <2>1, <3>1, ScannedIs
    <3> QED  BY <1>7, <3>2 DEF p
  <2>4. CASE pc # "scan"
    <3>1. ef' = SoughtGeq(Encoded(data, size), ef, lower)
      BY <1>7, <2>4 DEF PairSearch, EfList
    <3>2. EfAt(data, size, ef', p)
      BY <1>2, <1>4, <2>2, <3>1, SoughtIs
    <3> QED  BY <1>7, <3>2 DEF p
  <2> QED  BY <2>3, <2>4
<1> QED  BY <1>5, <1>6, <1>7

LEMMA PairStepKeeps == PairInv /\ [PairNext]_cursorVars => PairInv'
<1> SUFFICES ASSUME PairInv, [PairNext]_cursorVars PROVE PairInv'
  OBVIOUS
<1>1. IInv /\ TypeOK
  BY DEF PairInv, IInv
<1>2. [Next]_vars
  BY DEF PairNext, cursorVars, Next, PairRead, PairAdvance, PairCall, PairSearch
<1>3. IInv'
  BY <1>1, <1>2, StepKeeps
<1>4. size \in Nat \ {0} /\ data \in Arrays(size) /\ pos \in 0 .. size
  BY <1>1, ListOfCursor DEF TypeOK
<1>5. EfAt(data, size, ef', IF pc' = "ready" THEN pos' ELSE from') /\ UNCHANGED <<data, size>>
  <2>1. CASE PairRead
    <3>1. Read /\ pc = "ready" /\ UNCHANGED <<data, size, pos, pc>>
      BY <2>1 DEF PairRead, Read
    <3>2. PICK p \in 0 .. size - 1 :
              ef' = Accessed(Encoded(data, size), Accessed(Encoded(data, size), ef, p), pos)
      BY <2>1 DEF PairRead, EfList
    <3>3. EfAt(data, size, ef, pos)
      BY <3>1 DEF PairInv
    <3> DEFINE c == Accessed(Encoded(data, size), ef, p)
    <3>4. p \in 0 .. size
      BY <1>4
    <3>5. EfAt(data, size, c, p)
      BY <1>4, <3>3, <3>4, AccessedIs
    <3> HIDE DEF c
    <3>6. EfAt(data, size, Accessed(Encoded(data, size), c, pos), pos)
      BY <1>4, <3>4, <3>5, AccessedIs
    <3> QED  BY <3>1, <3>2, <3>6 DEF c
  <2>2. CASE PairAdvance
    <3>1. /\ pc = "ready" /\ pos < size /\ pos' = pos + 1
          /\ UNCHANGED <<data, size, pc>>
          /\ ef' = Advanced(Encoded(data, size), ef)
      BY <2>2 DEF PairAdvance, Advance, EfList
    <3>2. EfAt(data, size, ef, pos) /\ pos \in 0 .. size - 1
      BY <1>4, <3>1 DEF PairInv
    <3>3. EfAt(data, size, ef', pos + 1)
      BY <1>4, <3>1, <3>2, AdvancedIs
    <3> QED  BY <3>1, <3>3
  <2>3. CASE PairCall
    <3>1. /\ pc = "ready" /\ pc' # "ready" /\ from' = pos
          /\ UNCHANGED <<data, size, ef>>
      BY <2>3 DEF PairCall, NextGeqCall
    <3> QED  BY <3>1 DEF PairInv
  <2>4. CASE PairSearch
    <3>1. UNCHANGED <<data, size>>
      BY <1>1, <2>4, SearchReturns DEF PairSearch
    <3> QED  BY <2>4, <3>1, PairSearchKeeps
  <2>5. CASE UNCHANGED cursorVars
    BY <2>5 DEF cursorVars, vars, locals, PairInv
  <2> QED  BY <2>1, <2>2, <2>3, <2>4, <2>5 DEF PairNext
<1> QED  BY <1>3, <1>5 DEF PairInv

LEMMA PairInitHolds == PairInit => PairInv
<1> SUFFICES ASSUME PairInit PROVE PairInv
  OBVIOUS
<1>1. IInv /\ pc = "ready" /\ pos = 0
  BY InitKeeps DEF PairInit, Init
<1>2. size \in Nat \ {0} /\ data \in Arrays(size)
  BY <1>1, ListOfCursor DEF IInv
<1>3. ef = Opened(Encoded(data, size))
  BY DEF PairInit, EfList
<1>4. EfAt(data, size, ef, 0)
  BY <1>2, <1>3, OpenedIs
<1> QED  BY <1>1, <1>4 DEF PairInv

LEMMA PairInductive == PairSpec => []PairInv
<1>1. PairSpec => PairInit /\ [][PairNext]_cursorVars
  BY PTL DEF PairSpec
<1> QED  BY <1>1, PairInitHolds, PairStepKeeps, PTL

(***************************************************************************)
(* Whatever is called, the cursor of compact_ef stands where that of       *)
(* uncompressed_list does and shows the value there: an index answers      *)
(* alike with either list type, for every universe, list and sampling.     *)
(***************************************************************************)
THEOREM SameAnswers == PairSpec => []SameCursor
<1>1. PairInv => SameCursor
  BY DEF PairInv, EfAt, ValueAt, SameCursor, At
<1> QED  BY <1>1, PairInductive, PTL

(***************************************************************************)
(* Together they are still the cursor of uncompressed_list, so all that is *)
(* proved of it holds.                                                     *)
(***************************************************************************)
THEOREM PairIsList == PairSpec => Spec
<1>1. PairSpec => PairInit /\ [][PairNext]_cursorVars
  BY PTL DEF PairSpec
<1>2. PairInit => Init
  BY DEF PairInit
<1>3. [PairNext]_cursorVars => [Next]_vars
  BY DEF PairNext, cursorVars, Next, PairRead, PairAdvance, PairCall, PairSearch
<1> QED  BY <1>1, <1>2, <1>3, PTL DEF Spec

(***************************************************************************)
(* Both cursors together refine what the search algorithms are modelled    *)
(* with: next_geq and next of either list type return the next value.      *)
(***************************************************************************)
THEOREM PairRefinement == PairSpec => RefinesCursor
BY PairIsList, Refinement, PTL

(***************************************************************************)
(* And the window of the binary search holds the answer.                   *)
(***************************************************************************)
THEOREM PairWindow == PairSpec => []WindowHoldsAnswer
BY PairIsList, Window, PTL

=============================================================================

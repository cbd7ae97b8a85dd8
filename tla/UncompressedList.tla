-------------------------- MODULE UncompressedList --------------------------
(***************************************************************************)
(* uncompressed_list::iterator: a cursor over an array of identifiers.     *)
(*                                                                         *)
(* next_geq looks for the least value that is not below a bound, from the  *)
(* current position on.  It halves the window lo .. hi until it is short   *)
(* enough to be scanned; every probe overwrites m_position, which is also  *)
(* where the next search will begin.  One round of its loop is one step.   *)
(***************************************************************************)
EXTENDS Postings

CONSTANT LinearScanThreshold  \* global::linear_scan_threshold

\* A window that is halved has at least three positions.
ASSUME LinearScanThresholdAssumption == LinearScanThreshold \in Nat \ {0}

VARIABLES
    data,   \* the array, counted from 0; it never changes
    size,   \* m_size
    pos,    \* m_position
    id,     \* m_id
    pc,     \* "ready"; "search": inside next_geq; "scan": next_geq_by_scan
    lower,  \* the parameter of next_geq, 0 outside
    lo, hi, \* its locals, 0 outside
    from    \* history: the position at the call, 0 outside

locals == <<lower, lo, hi, from>>
vars == <<data, size, pos, id, pc, locals>>

\* Before the first read m_id is -1.
Unread == NumDocs + 1

\* An array of n identifiers in strictly ascending order.
Arrays(n) ==
    {a \in [0 .. n - 1 -> DocIds] : \A i, j \in 0 .. n - 1 : i < j => a[i] < a[j]}

TypeOK ==
    /\ size \in Nat \ {0}
    /\ data \in Arrays(size)
    /\ pos \in 0 .. size
    /\ id \in 0 .. Unread
    /\ pc \in {"ready", "search", "scan"}
    /\ lower \in CursorValues
    /\ lo \in 0 .. size
    /\ hi \in 0 .. size - 1
    /\ from \in 0 .. size

Init ==
    /\ size \in 1 .. NumDocs
    /\ data \in Arrays(size)
    /\ pos = 0
    /\ id = Unread
    /\ pc = "ready"
    /\ lower = 0 /\ lo = 0 /\ hi = 0 /\ from = 0

\* operator*
Read ==
    /\ pc = "ready"
    /\ pos < size
    /\ id' = data[pos]
    /\ UNCHANGED <<data, size, pos, pc, locals>>

\* The value at a position, or the universe after the last one.
At(p) == IF p < size THEN data[p] ELSE NumDocs

\* next(); the owner has looked at has_next() before.
Advance ==
    /\ pc = "ready"
    /\ pos < size
    /\ pos' = pos + 1
    /\ id' = At(pos + 1)
    /\ UNCHANGED <<data, size, pc, locals>>

\* The call of next_geq, or of the public next_geq_by_scan, which scans from
\* the current position to the end without a search.
NextGeqCall ==
    /\ pc = "ready"
    /\ pc' \in {"search", "scan"}
    /\ lower' \in CursorValues
    /\ lo' = pos
    /\ hi' = size - 1
    /\ from' = pos
    /\ UNCHANGED <<data, size, pos, id>>

\* next_geq returns the value of a position and leaves the cursor there.
ReturnAt(p, value) ==
    /\ pc' = "ready"
    /\ pos' = p
    /\ id' = value
    /\ lower' = 0 /\ lo' = 0 /\ hi' = 0 /\ from' = 0
    /\ UNCHANGED <<data, size>>

\* Regression the checks must catch (never used by the specification): the
\* last position of the window is not scanned.
ScannedShort(p) ==
    \/ /\ p \in lo .. hi - 1
       /\ data[p] >= lower
       /\ \A q \in lo .. p - 1 : data[q] < lower
    \/ /\ p = hi + 1
       /\ \A q \in lo .. hi - 1 : data[q] < lower

\* next_geq_by_scan on the window.
ScannedTo(p) ==
    \/ /\ p \in lo .. hi
       /\ data[p] >= lower
       /\ \A q \in lo .. p - 1 : data[q] < lower
    \/ /\ p = hi + 1
       /\ \A q \in lo .. hi : data[q] < lower

\* The universe when the window holds nothing that is great enough, wherever
\* the window ends.
ScanValue(p) == IF p <= hi THEN data[p] ELSE NumDocs

Scan ==
    /\ pc = "scan" \/ (pc = "search" /\ lo <= hi /\ hi - lo <= LinearScanThreshold)
    /\ \E p \in 0 .. size : ScannedTo(p) /\ ReturnAt(p, ScanValue(p))

Middle == (lo + hi) \div 2

Probes == pc = "search" /\ lo <= hi /\ hi - lo > LinearScanThreshold

\* Regression, as above: the upper end of the window is not moved.
LeftEndStale == hi

\* The upper end of the window on the left of the probe.
LeftEnd == IF Middle # 0 THEN Middle - 1 ELSE 0

\* The value at the middle is too great, and so is the one before it.
GoLeft ==
    /\ Probes
    /\ data[Middle] > lower
    /\ lower <= data[LeftEnd]
    /\ pos' = Middle
    /\ hi' = LeftEnd
    /\ UNCHANGED <<data, size, id, pc, lower, lo, from>>

\* It is too great and the one before it is too small.
StopBetween ==
    /\ Probes
    /\ data[Middle] > lower
    /\ lower > data[LeftEnd]
    /\ ReturnAt(Middle, data[Middle])

\* Regression, as above: the window on the right begins too far.
RightStartBeyond == IF Middle + 2 <= size THEN Middle + 2 ELSE size

RightStart == Middle + 1

GoRight ==
    /\ Probes
    /\ data[Middle] < lower
    /\ pos' = Middle
    /\ lo' = RightStart
    /\ UNCHANGED <<data, size, id, pc, lower, hi, from>>

StopAt ==
    /\ Probes
    /\ data[Middle] = lower
    /\ ReturnAt(Middle, data[Middle])

\* The window is empty: the cursor was exhausted before.
NotFound ==
    /\ pc = "search"
    /\ lo > hi
    /\ ReturnAt(pos, NumDocs)

Search == Scan \/ GoLeft \/ StopBetween \/ GoRight \/ StopAt \/ NotFound

Next == Read \/ Advance \/ NextGeqCall \/ Search

Spec == Init /\ [][Next]_vars

\* Inside next_geq the program runs on.
FairSpec == Spec /\ WF_vars(Search)

-----------------------------------------------------------------------------

\* However the window moves, the position next_geq is to find lies in it or
\* just behind it: what is before it is too small, and when the window does
\* not reach to the end its last value is not.
WindowHoldsAnswer ==
    pc # "ready" =>
        /\ \A p \in from .. lo - 1 : data[p] < lower
        /\ hi < size - 1 => data[hi] >= lower

\* Outside next_geq, whose probes move m_position freely, the value last
\* returned is the one at the position the next search will begin at.
PositionOfValue == pc = "ready" /\ id # Unread => id = At(pos)

\* next_geq always returns.
NextGeqReturns == pc # "ready" ~> pc = "ready"

Values == {data[p] : p \in 0 .. size - 1}

Cursor == INSTANCE PostingCursor
    WITH list <- Values,
         shown <- IF pc = "ready" THEN At(pos) ELSE At(from),
         bound <- IF pc = "ready" THEN Unread ELSE lower

\* The cursor is the one the search algorithms are modelled with.
RefinesCursor == Cursor!Spec

=============================================================================

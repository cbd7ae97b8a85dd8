--------------------------- MODULE PostingCursor ---------------------------
(***************************************************************************)
(* What the search algorithms ask of a cursor over one posting list: it    *)
(* moves forward to the next value, or to the next value that is not less  *)
(* than a bound, and never back.                                           *)
(***************************************************************************)
EXTENDS Postings

VARIABLES list,  \* the posting list
          shown, \* the value the cursor shows
          bound  \* the bound it is asked for, or NoBound

vars == <<list, shown, bound>>

NoBound == NumDocs + 1

Init ==
    /\ list \in PostingLists
    /\ shown = First(list)
    /\ bound = NoBound

Ask ==
    /\ bound = NoBound
    /\ bound' \in CursorValues
    /\ UNCHANGED <<list, shown>>

\* The least value from the one shown on that is not less than the bound.
Answer ==
    /\ bound # NoBound
    /\ bound' = NoBound
    /\ shown' = NextGeq({d \in list : d >= shown}, bound)
    /\ UNCHANGED list

Step ==
    /\ bound = NoBound
    /\ HasNext(shown)
    /\ shown' = NextAfter(list, shown)
    /\ UNCHANGED <<list, bound>>

Next == Ask \/ Answer \/ Step

Spec == Init /\ [][Next]_vars

=============================================================================

---------------------------- MODULE ListCursors ----------------------------
(***************************************************************************)
(* The two list types an index may be built with, uncompressed_list and    *)
(* compact_ef, side by side: the same list, the same calls of their        *)
(* cursors.  A call on the one of compact_ef is a single step, taken when  *)
(* the call on the other returns.                                          *)
(***************************************************************************)
EXTENDS UncompressedList, EliasFano

VARIABLE ef  \* the cursor of compact_ef

cursorVars == <<vars, ef>>

EfList == Encoded(data, size)

EfTypeOK ==
    /\ ef.pos \in 0 .. size
    /\ ef.value \in CursorValues
    /\ ef.high.at \in Nat
    /\ ef.high.unread \in {ef.high.at, ef.high.at + 1}

PairInit == Init /\ ef = Opened(EfList)

\* access() of any position, and of the current one again; a caller that only
\* reads the current value is the case of p = pos.
PairRead ==
    /\ Read
    /\ \E p \in 0 .. size - 1 : ef' = Accessed(EfList, Accessed(EfList, ef, p), pos)

PairAdvance == Advance /\ ef' = Advanced(EfList, ef)

PairCall == NextGeqCall /\ UNCHANGED ef

\* The caller asks for nothing it has passed, as Intersection never does.
Forward == \A p \in 0 .. from - 1 : data[p] < lower

\* A step of next_geq.  Asked for less than it has passed, compact_ef may go
\* back and the other cursor does not: it is put where the other one is.
PairSearch ==
    /\ Search
    /\ ef' = IF pc' # "ready" THEN ef
             ELSE IF ~Forward THEN Accessed(EfList, ef, pos')
             ELSE IF pc = "scan" THEN ScannedGeq(EfList, ef, lower)
             ELSE SoughtGeq(EfList, ef, lower)

PairNext == PairRead \/ PairAdvance \/ PairCall \/ PairSearch

\* PairSearch is possible whenever Search is.
PairSpec == PairInit /\ [][PairNext]_cursorVars /\ WF_vars(Search)

-----------------------------------------------------------------------------

\* Whatever was called before, both cursors stand at the same position and
\* show the value that is there, so that an index answers alike with either
\* list type.
SameCursor == pc = "ready" => ef.pos = pos /\ ef.value = At(pos)

=============================================================================

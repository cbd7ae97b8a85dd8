----------------------------- MODULE Structures -----------------------------
(***************************************************************************)
(* What the searches stand on: the cursors over a posting list in its two  *)
(* encodings (ListCursors), the bits that lists and tries are stored in    *)
(* and decoded from (BitStreams), and the heap that cursors are kept in    *)
(* (MinHeap).  Each is used through its own calls only and shares no state *)
(* with the others, so one is used at a time, the others as they are when  *)
(* nothing has been done with them.                                        *)
(***************************************************************************)
EXTENDS ListCursors, BitStreams, MinHeap

structureVars == <<cursorVars, streamVars, heapVars>>

\* Cursors over the list of all identifiers that have not been called; a
\* builder without bits; a heap without entries.
NoCursorMoved == size = NumDocs /\ pc = "ready" /\ id = Unread
NoBits == bits = <<>> /\ phase = "build"
NoEntries == heap = <<>> /\ heapPc = "ready"

StructuresInit ==
    /\ PairInit /\ StreamInit /\ HeapInit
    /\ NoCursorMoved \/ NoEntries

UseCursors == NoBits /\ NoEntries /\ PairNext /\ UNCHANGED <<streamVars, heapVars>>
UseBits == NoCursorMoved /\ NoEntries /\ StreamNext /\ UNCHANGED <<cursorVars, heapVars>>
UseHeap == NoCursorMoved /\ NoBits /\ HeapNext /\ UNCHANGED <<cursorVars, streamVars>>

\* A search that is running is the only one of the three in use, and goes on.
StructuresSpec ==
    /\ StructuresInit
    /\ [][UseCursors \/ UseBits \/ UseHeap]_structureVars
    /\ WF_vars(Search)

=============================================================================

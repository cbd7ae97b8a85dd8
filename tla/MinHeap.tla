------------------------------ MODULE MinHeap ------------------------------
(***************************************************************************)
(* min_heap, as the loops of heap_topk, autocomplete3, autocomplete4 and   *)
(* minimal_docids drive it.  A loop moves the cursor of the entry on top,  *)
(* which changes its key in place; if the cursor is exhausted it calls     *)
(* pop(), and then it calls heapify(), which sinks the new root.           *)
(*                                                                         *)
(* pop() reaches std::pop_heap when the root is already out of order.  The *)
(* standard library's functions are modelled by their effect: a heap made  *)
(* of the same entries in any arrangement; std::pop_heap takes the root    *)
(* out and needs no more than that the entries below it are in order.      *)
(* Positions are counted from 0 as in the code: m_q[p] is heap[p + 1].     *)
(***************************************************************************)
EXTENDS Naturals, Sequences, FiniteSets, Bags

CONSTANTS MaxKey,  \* bound: the greatest key, that of an exhausted cursor
          MaxSize  \* bound: the number of entries

ASSUME MaxKeyAssumption == MaxKey \in Nat
ASSUME MaxSizeAssumption == MaxSize \in Nat \ {0}

VARIABLES
    heap,    \* m_q: the key of each entry
    heapPc,  \* "ready"; "moved": the top has another key; "sinking": in sink()
    heapPos  \* the parameter of sink, its local in the loop

heapVars == <<heap, heapPc, heapPos>>

Keys == 0 .. MaxKey
HeapArrays == UNION {[1 .. n -> Keys] : n \in 0 .. MaxSize}

HeapTypeOK ==
    /\ heap \in HeapArrays
    /\ heapPc \in {"ready", "moved", "sinking"}
    /\ heapPos \in 0 .. MaxSize

Parent(p) == (p - 1) \div 2

\* Every entry from lo on is at least its parent, when that is one of them.
OrderedFrom(array, lo) ==
    \A p \in 1 .. Len(array) - 1 :
        Parent(p) >= lo => array[Parent(p) + 1] <= array[p + 1]

BagOf(array) ==
    [x \in {array[i] : i \in DOMAIN array} |->
        Cardinality({i \in DOMAIN array : array[i] = x})]

\* The arrays with the same entries.
Arrangements(array) ==
    {a \in [DOMAIN array -> Keys] : BagOf(a) = BagOf(array)}

IsHeap(array) == OrderedFrom(array, 0)

\* push_back for every cursor, then make_heap().
HeapInit ==
    /\ heap \in {h \in HeapArrays : IsHeap(h)}
    /\ heapPc = "ready"
    /\ heapPos = 0

\* push()
PushEntry ==
    /\ heapPc = "ready"
    /\ Len(heap) < MaxSize
    /\ \E x \in Keys : heap' \in Arrangements(Append(heap, x))
    /\ IsHeap(heap')
    /\ UNCHANGED <<heapPc, heapPos>>

\* The loop moves the cursor on top: the key grows.
Move ==
    /\ heapPc = "ready"
    /\ heap # <<>>
    /\ \E x \in heap[1] .. MaxKey : heap' = [heap EXCEPT ![1] = x]
    /\ heapPc' = "moved"
    /\ UNCHANGED heapPos

\* pop(), when the cursor is exhausted.
Pop ==
    /\ heapPc = "moved"
    /\ heap[1] = MaxKey
    /\ heap' \in Arrangements(Tail(heap))
    /\ OrderedFrom(heap, 1) => IsHeap(heap')
    /\ heapPc' = "sinking"
    /\ heapPos' = 0

\* heapify() without a pop.
Heapify ==
    /\ heapPc = "moved"
    /\ heap[1] # MaxKey
    /\ heapPc' = "sinking"
    /\ heapPos' = 0
    /\ UNCHANGED heap

\* Regression the checks must catch (never used by the specification): the
\* left child is taken without a look at the right one.
LeftChild(p) == 2 * p + 1

\* The child sink() looks at: the lesser one.
Child(p) ==
    IF 2 * p + 2 < Len(heap) /\ heap[2 * p + 2] > heap[2 * p + 3]
    THEN 2 * p + 2 ELSE 2 * p + 1

Sinks == 2 * heapPos + 1 < Len(heap) /\ heap[heapPos + 1] > heap[Child(heapPos) + 1]

\* One round of the loop in sink.
Sink ==
    /\ heapPc = "sinking"
    /\ Sinks
    /\ heap' = [heap EXCEPT ![heapPos + 1] = heap[Child(heapPos) + 1],
                            ![Child(heapPos) + 1] = heap[heapPos + 1]]
    /\ heapPos' = Child(heapPos)
    /\ UNCHANGED heapPc

Sunk ==
    /\ heapPc = "sinking"
    /\ ~Sinks
    /\ heapPc' = "ready"
    /\ heapPos' = 0
    /\ UNCHANGED heap

HeapNext == PushEntry \/ Move \/ Pop \/ Heapify \/ Sink \/ Sunk

HeapSpec == HeapInit /\ [][HeapNext]_heapVars

-----------------------------------------------------------------------------

\* While sink() runs only the entry at heapPos may be out of order, and only with
\* its children; and those are not before its parent either, so that the swap
\* does not break the order above.
OneOutOfOrder ==
    heapPc = "sinking" =>
        /\ \A p \in 1 .. Len(heap) - 1 :
               Parent(p) # heapPos => heap[Parent(p) + 1] <= heap[p + 1]
        /\ \A p \in 1 .. Len(heap) - 1 :
               Parent(p) = heapPos /\ heapPos > 0 =>
                   heap[Parent(heapPos) + 1] <= heap[p + 1]

\* When the loop calls pop() the order is broken at the root only, although
\* std::pop_heap asks for a heap: the rest is a heap, which is all it uses.
PopFindsOrderBelow == heapPc = "moved" => OrderedFrom(heap, 1)

Queue == INSTANCE PriorityQueue
    WITH keys <- BagOf(heap), ready <- heapPc = "ready",
         top <- IF heapPc = "ready" /\ heap # <<>> THEN heap[1] ELSE 0

\* The heap is the priority queue the loops rely on: its root is a least
\* entry whenever a loop looks at it, and no entry is lost or doubled.
RefinesPriorityQueue == Queue!Spec

=============================================================================

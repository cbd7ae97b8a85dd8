--------------------------- MODULE MinHeapProofs ---------------------------
(***************************************************************************)
(* min_heap is a priority queue, whatever the keys, their number and the   *)
(* order in which the search loops push, move, pop and sink.               *)
(***************************************************************************)
EXTENDS MinHeap, FiniteSetTheorems, SequenceTheorems, WellFoundedInduction,
        TLAPS

-----------------------------------------------------------------------------
(***************************************************************************)
(* The inductive invariant.  PopFindsOrderBelow is not inductive: that the *)
(* order holds below the root after a move needs the whole order before it *)
(* (InOrder), which the loop in sink() restores only if the entry it       *)
(* carries down is the only one out of order (OneOutOfOrder, which is      *)
(* stronger than what the loop tests).                                     *)
(***************************************************************************)
InOrder == heapPc = "ready" => IsHeap(heap)

\* Only an entry that is there can move.
SomeMoved == heapPc = "moved" => heap # <<>>

IInv ==
    /\ HeapTypeOK
    /\ InOrder
    /\ SomeMoved
    /\ PopFindsOrderBelow
    /\ OneOutOfOrder

-----------------------------------------------------------------------------
(***************************************************************************)
(* A heap in an array of the specification is a sequence of keys.          *)
(***************************************************************************)
LEMMA ArrayIsSeq ==
    ASSUME NEW array
    PROVE  array \in HeapArrays <=> array \in Seq(Keys) /\ Len(array) <= MaxSize
<1>1. ASSUME array \in HeapArrays
      PROVE  array \in Seq(Keys) /\ Len(array) <= MaxSize
  <2>1. PICK n \in 0 .. MaxSize : array \in [1 .. n -> Keys]
    BY <1>1 DEF HeapArrays
  <2>2. n \in Nat /\ n <= MaxSize
    BY <2>1, MaxSizeAssumption
  <2>3. array \in Seq(Keys)
    BY <2>1, <2>2, SeqDef
  <2>4. DOMAIN array = 1 .. n
    BY <2>1
  <2>5. Len(array) = n
    BY <2>2, <2>3, <2>4, LenProperties
  <2> QED  BY <2>2, <2>3, <2>5
<1>2. ASSUME array \in Seq(Keys), Len(array) <= MaxSize
      PROVE  array \in HeapArrays
  <2>1. Len(array) \in Nat /\ array \in [1 .. Len(array) -> Keys]
    BY <1>2, LenProperties
  <2>2. Len(array) \in 0 .. MaxSize
    BY <1>2, <2>1, MaxSizeAssumption
  <2> QED  BY <2>1, <2>2 DEF HeapArrays
<1> QED  BY <1>1, <1>2

LEMMA ArrayFacts ==
    ASSUME NEW array \in HeapArrays
    PROVE  /\ Len(array) \in Nat
           /\ Len(array) <= MaxSize
           /\ DOMAIN array = 1 .. Len(array)
           /\ \A i \in 1 .. Len(array) : array[i] \in Keys /\ array[i] \in Nat
           /\ \A x \in Keys : x \in Nat /\ x <= MaxKey
<1>1. array \in Seq(Keys) /\ Len(array) <= MaxSize
  BY ArrayIsSeq
<1>2. /\ Len(array) \in Nat
      /\ DOMAIN array = 1 .. Len(array)
      /\ \A i \in 1 .. Len(array) : array[i] \in Keys
  BY <1>1, LenProperties, ElementOfSeq
<1>3. \A x \in Keys : x \in Nat /\ x <= MaxKey
  BY MaxKeyAssumption DEF Keys
<1> QED  BY <1>1, <1>2, <1>3

\* A function on the positions of an array is an array of the same length.
LEMMA SameLength ==
    ASSUME NEW array \in HeapArrays, NEW a \in [DOMAIN array -> Keys]
    PROVE  a \in HeapArrays /\ Len(a) = Len(array)
<1>1. /\ Len(array) \in Nat /\ Len(array) <= MaxSize
      /\ a \in [1 .. Len(array) -> Keys]
  BY ArrayFacts
<1>2. a \in HeapArrays
  BY <1>1, MaxSizeAssumption DEF HeapArrays
<1>3. Len(a) \in Nat /\ DOMAIN a = 1 .. Len(a)
  BY <1>2, ArrayFacts
<1>4. 1 .. Len(a) = 1 .. Len(array)
  BY <1>1, <1>3
<1>5. Len(a) = Len(array)
  BY <1>1, <1>3, <1>4
<1> QED  BY <1>2, <1>5

(***************************************************************************)
(* The children of an entry, as its parent finds them.                     *)
(***************************************************************************)
LEMMA ParentFacts ==
    ASSUME NEW p \in Nat \ {0}
    PROVE  /\ Parent(p) \in Nat
           /\ Parent(p) < p
           /\ \A q \in Nat : Parent(p) = q <=> p = 2 * q + 1 \/ p = 2 * q + 2
BY DEF Parent

(***************************************************************************)
(* The root of a heap is one of its least entries.                         *)
(***************************************************************************)
LEMMA RootIsLeast ==
    ASSUME NEW array \in HeapArrays, IsHeap(array)
    PROVE  \A i \in 1 .. Len(array) : array[1] <= array[i]
<1> DEFINE Worse == {i \in 1 .. Len(array) : ~(array[1] <= array[i])}
<1> DEFINE R == {ss \in Nat \X Nat : ss[1] < ss[2]}
<1> SUFFICES ASSUME Worse # {}  PROVE FALSE
  OBVIOUS
<1>1. /\ Len(array) \in Nat
      /\ \A i \in 1 .. Len(array) : array[i] \in Nat
  BY ArrayFacts
<1>2. Worse \subseteq Nat
  BY <1>1
<1>3. IsWellFoundedOn(R, Nat)
  BY NatLessThanWellFounded, Zenon DEF OpToRel
<1>4. \E x \in Worse : \A y \in Worse : <<y, x>> \notin R
  <2> HIDE DEF R, Worse
  <2> QED  BY <1>2, <1>3, WFMin, Zenon
<1>5. PICK i \in Worse : \A y \in Worse : <<y, i>> \notin R
  BY <1>4, Zenon
<1>6. /\ i \in 1 .. Len(array) /\ i # 1
      /\ i \in Nat /\ i - 1 \in Nat \ {0}
      /\ i - 1 \in 1 .. Len(array) - 1
      /\ ~(array[1] <= array[i])
  BY <1>1, <1>5
<1> DEFINE j == Parent(i - 1) + 1
<1>7. Parent(i - 1) \in Nat /\ Parent(i - 1) < i - 1
  BY <1>6, ParentFacts
<1>8. j \in 1 .. Len(array) /\ j < i /\ j \in Nat
  BY <1>1, <1>6, <1>7
<1>9. j \notin Worse
  <2>1. <<j, i>> \in R
    BY <1>6, <1>8
  <2> QED  BY <1>5, <2>1, Zenon
<1>10. array[1] <= array[j]
  BY <1>8, <1>9
<1>11. array[j] <= array[i]
  <2>1. Parent(i - 1) >= 0 /\ (i - 1) + 1 = i
    BY <1>6, <1>7
  <2>2. array[Parent(i - 1) + 1] <= array[(i - 1) + 1]
    BY <1>6, <2>1 DEF IsHeap, OrderedFrom
  <2> QED  BY <2>1, <2>2
<1>12. 1 \in 1 .. Len(array)
  BY <1>1, <1>6
<1> QED
  BY <1>1, <1>6, <1>8, <1>10, <1>11, <1>12

-----------------------------------------------------------------------------
(***************************************************************************)
(* The child sink() looks at: one of those there are, and none is less.    *)
(***************************************************************************)
LEMMA ChildFacts ==
    ASSUME HeapTypeOK, 2 * heapPos + 1 < Len(heap)
    PROVE  /\ Child(heapPos) \in Nat
           /\ Child(heapPos) < Len(heap)
           /\ Child(heapPos) > heapPos
           /\ Parent(Child(heapPos)) = heapPos
           /\ \A p \in 1 .. Len(heap) - 1 :
                 Parent(p) = heapPos => heap[Child(heapPos) + 1] <= heap[p + 1]
<1>1. /\ heapPos \in Nat
      /\ Len(heap) \in Nat
      /\ \A i \in 1 .. Len(heap) : heap[i] \in Nat
  BY ArrayFacts, MaxSizeAssumption DEF HeapTypeOK
<1>2. /\ Child(heapPos) \in {2 * heapPos + 1, 2 * heapPos + 2}
      /\ Child(heapPos) < Len(heap)
  BY <1>1 DEF Child
<1>3. Child(heapPos) \in Nat \ {0} /\ Child(heapPos) > heapPos
  BY <1>1, <1>2
<1>4. Parent(Child(heapPos)) = heapPos
  BY <1>1, <1>2, <1>3, ParentFacts
<1>5. ASSUME NEW p \in 1 .. Len(heap) - 1, Parent(p) = heapPos
      PROVE  heap[Child(heapPos) + 1] <= heap[p + 1]
  <2>1. p = 2 * heapPos + 1 \/ p = 2 * heapPos + 2
    BY <1>1, <1>5, ParentFacts
  <2>2. CASE 2 * heapPos + 2 < Len(heap)
    <3>1. heap[2 * heapPos + 2] \in Nat /\ heap[2 * heapPos + 3] \in Nat
      BY <1>1, <2>2
    <3>2. (2 * heapPos + 1) + 1 = 2 * heapPos + 2 /\ (2 * heapPos + 2) + 1 = 2 * heapPos + 3
      BY <1>1
    <3>3. CASE heap[2 * heapPos + 2] > heap[2 * heapPos + 3]
      <4>1. Child(heapPos) = 2 * heapPos + 2
        BY <2>2, <3>3 DEF Child
      <4> QED  BY <2>1, <3>1, <3>2, <3>3, <4>1
    <3>4. CASE ~(heap[2 * heapPos + 2] > heap[2 * heapPos + 3])
      <4>1. Child(heapPos) = 2 * heapPos + 1
        BY <2>2, <3>4 DEF Child
      <4> QED  BY <2>1, <3>1, <3>2, <3>4, <4>1
    <3> QED  BY <3>3, <3>4
  <2>3. CASE ~(2 * heapPos + 2 < Len(heap))
    <3>1. Child(heapPos) = 2 * heapPos + 1
      BY <2>3 DEF Child
    <3>2. p = 2 * heapPos + 1
      BY <1>1, <2>1, <2>3
    <3>3. (2 * heapPos + 1) + 1 \in 1 .. Len(heap)
      BY <1>1
    <3>4. heap[(2 * heapPos + 1) + 1] \in Nat
      BY <1>1, <3>3
    <3> QED  BY <3>1, <3>2, <3>4
  <2> QED  BY <2>2, <2>3
<1> QED  BY <1>2, <1>3, <1>4, <1>5

(***************************************************************************)
(* One round of the loop: the two entries change places.                   *)
(***************************************************************************)
LEMMA SinkSwaps ==
    ASSUME HeapTypeOK, Sink
    PROVE  /\ 2 * heapPos + 1 < Len(heap)
           /\ heapPos + 1 \in DOMAIN heap
           /\ Child(heapPos) + 1 \in DOMAIN heap
           /\ heap' \in HeapArrays
           /\ Len(heap') = Len(heap)
           /\ DOMAIN heap' = DOMAIN heap
           /\ heap'[heapPos + 1] = heap[Child(heapPos) + 1]
           /\ heap'[Child(heapPos) + 1] = heap[heapPos + 1]
           /\ \A i \in DOMAIN heap : i # heapPos + 1 /\ i # Child(heapPos) + 1
                                        => heap'[i] = heap[i]
<1>1. /\ 2 * heapPos + 1 < Len(heap)
      /\ heap' = [heap EXCEPT ![heapPos + 1] = heap[Child(heapPos) + 1],
                              ![Child(heapPos) + 1] = heap[heapPos + 1]]
  BY DEF Sink, Sinks
<1>2. /\ Child(heapPos) \in Nat /\ Child(heapPos) < Len(heap) /\ Child(heapPos) > heapPos
  BY <1>1, ChildFacts
<1>3. /\ heapPos \in Nat
      /\ Len(heap) \in Nat /\ DOMAIN heap = 1 .. Len(heap)
      /\ heap \in HeapArrays /\ heap \in [DOMAIN heap -> Keys]
  <2>1. heap \in HeapArrays /\ heapPos \in Nat
    BY MaxSizeAssumption DEF HeapTypeOK
  <2>2. /\ Len(heap) \in Nat /\ DOMAIN heap = 1 .. Len(heap)
        /\ \A i \in 1 .. Len(heap) : heap[i] \in Keys
    BY <2>1, ArrayFacts
  <2>3. heap \in Seq(Keys)
    BY <2>1, ArrayIsSeq
  <2>4. heap \in [1 .. Len(heap) -> Keys]
    BY <2>3, LenProperties
  <2> QED  BY <2>1, <2>2, <2>4
<1>4. heapPos + 1 \in DOMAIN heap /\ Child(heapPos) + 1 \in DOMAIN heap
  BY <1>1, <1>2, <1>3
<1>5. heapPos + 1 # Child(heapPos) + 1
  BY <1>2, <1>3
<1>6. heap' \in [DOMAIN heap -> Keys]
  BY <1>1, <1>3, <1>4
<1>7. heap' \in HeapArrays /\ Len(heap') = Len(heap)
  BY <1>3, <1>6, SameLength
<1>8. /\ heap'[heapPos + 1] = heap[Child(heapPos) + 1]
      /\ heap'[Child(heapPos) + 1] = heap[heapPos + 1]
      /\ \A i \in DOMAIN heap : i # heapPos + 1 /\ i # Child(heapPos) + 1
                                   => heap'[i] = heap[i]
  BY <1>1, <1>3, <1>4, <1>5
<1> QED  BY <1>1, <1>4, <1>6, <1>7, <1>8

(***************************************************************************)
(* After it the entry carried down is again the only one out of order.     *)
(***************************************************************************)
LEMMA SinkKeepsOrder ==
    ASSUME HeapTypeOK, OneOutOfOrder, Sink
    PROVE  OneOutOfOrder'
<1> DEFINE c == Child(heapPos)
<1>1. /\ heapPos \in Nat
      /\ Len(heap) \in Nat /\ DOMAIN heap = 1 .. Len(heap)
      /\ \A i \in 1 .. Len(heap) : heap[i] \in Nat
  BY ArrayFacts, MaxSizeAssumption DEF HeapTypeOK
<1>2. /\ 2 * heapPos + 1 < Len(heap)
      /\ Len(heap') = Len(heap)
      /\ heap'[heapPos + 1] = heap[c + 1]
      /\ heap'[c + 1] = heap[heapPos + 1]
      /\ \A i \in 1 .. Len(heap) : i # heapPos + 1 /\ i # c + 1
                                      => heap'[i] = heap[i]
  BY <1>1, SinkSwaps
<1>3. /\ c \in Nat /\ c < Len(heap) /\ c > heapPos
      /\ Parent(c) = heapPos
      /\ \A p \in 1 .. Len(heap) - 1 :
            Parent(p) = heapPos => heap[c + 1] <= heap[p + 1]
  BY <1>2, ChildFacts
<1>4. heapPos' = c /\ heap[heapPos + 1] > heap[c + 1] /\ heapPc = "sinking"
  BY DEF Sink, Sinks
<1>5. /\ \A p \in 1 .. Len(heap) - 1 :
            Parent(p) # heapPos => heap[Parent(p) + 1] <= heap[p + 1]
      /\ \A p \in 1 .. Len(heap) - 1 :
            Parent(p) = heapPos /\ heapPos > 0 =>
                heap[Parent(heapPos) + 1] <= heap[p + 1]
  BY <1>4 DEF OneOutOfOrder
<1> HIDE DEF c
<1>6. ASSUME NEW p \in 1 .. Len(heap) - 1
      PROVE  /\ p \in Nat \ {0}
             /\ p + 1 \in 1 .. Len(heap)
             /\ Parent(p) \in Nat /\ Parent(p) < p
             /\ Parent(p) + 1 \in 1 .. Len(heap)
  <2>1. p \in Nat \ {0} /\ p + 1 \in 1 .. Len(heap) /\ p < Len(heap)
    BY <1>1
  <2>2. Parent(p) \in Nat /\ Parent(p) < p
    BY <2>1, ParentFacts
  <2> QED  BY <1>1, <2>1, <2>2
<1>7. ASSUME NEW p \in 1 .. Len(heap) - 1, Parent(p) # c
      PROVE  heap'[Parent(p) + 1] <= heap'[p + 1]
  <2> DEFINE q == Parent(p)
  <2>1. /\ p \in Nat /\ p # 0 /\ q \in Nat /\ q < p
        /\ p + 1 \in 1 .. Len(heap) /\ q + 1 \in 1 .. Len(heap)
    BY <1>6
  <2> HIDE DEF q
  <2>2. CASE q = heapPos
    <3>1. heap'[q + 1] = heap[c + 1]
      BY <1>2, <2>2
    <3>2. CASE p = c
      <4>1. heap'[p + 1] = heap[heapPos + 1]
        BY <1>2, <3>2
      <4>2. heap[heapPos + 1] \in Nat /\ heap[c + 1] \in Nat
        BY <1>1, <2>1, <2>2, <3>2
      <4> QED  BY <1>4, <3>1, <4>1, <4>2 DEF q
    <3>3. CASE p # c
      <4>1. p + 1 # heapPos + 1 /\ p + 1 # c + 1
        BY <1>1, <1>3, <2>1, <2>2, <3>3
      <4>2. heap'[p + 1] = heap[p + 1]
        BY <1>2, <2>1, <4>1
      <4>3. heap[c + 1] <= heap[p + 1]
        BY <1>3, <2>2 DEF q
      <4> QED  BY <3>1, <4>2, <4>3 DEF q
    <3> QED  BY <3>2, <3>3
  <2>3. CASE q # heapPos
    <3>1. heap[q + 1] <= heap[p + 1]
      BY <1>5, <2>3 DEF q
    <3>2. q + 1 # heapPos + 1 /\ q + 1 # c + 1
      BY <1>1, <1>3, <1>7, <2>1, <2>3 DEF q
    <3>3. heap'[q + 1] = heap[q + 1]
      BY <1>2, <2>1, <3>2
    <3>4. p # c
      BY <1>3, <2>3 DEF q
    <3>5. CASE p = heapPos
      <4>1. heap'[p + 1] = heap[c + 1]
        BY <1>2, <3>5
      <4>2. c \in 1 .. Len(heap) - 1 /\ heapPos > 0
        BY <1>1, <1>3, <2>1, <3>5
      <4>3. heap[Parent(heapPos) + 1] <= heap[c + 1]
        BY <1>3, <1>5, <4>2
      <4> QED  BY <3>3, <3>5, <4>1, <4>3 DEF q
    <3>6. CASE p # heapPos
      <4>1. p + 1 # heapPos + 1 /\ p + 1 # c + 1
        BY <1>1, <1>3, <2>1, <3>4, <3>6
      <4>2. heap'[p + 1] = heap[p + 1]
        BY <1>2, <2>1, <4>1
      <4> QED  BY <3>1, <3>3, <4>2 DEF q
    <3> QED  BY <3>5, <3>6
  <2> QED  BY <2>2, <2>3
<1>8. ASSUME NEW p \in 1 .. Len(heap) - 1, Parent(p) = c
      PROVE  heap'[Parent(c) + 1] <= heap'[p + 1]
  <2>1. /\ p \in Nat /\ p + 1 \in 1 .. Len(heap) /\ c < p
    BY <1>6, <1>8
  <2>2. p + 1 # heapPos + 1 /\ p + 1 # c + 1
    BY <1>1, <1>3, <2>1
  <2>3. heap'[p + 1] = heap[p + 1]
    BY <1>2, <2>1, <2>2
  <2>4. heap'[Parent(c) + 1] = heap[c + 1]
    BY <1>2, <1>3
  <2>5. Parent(p) # heapPos
    BY <1>1, <1>3, <1>8
  <2>6. heap[c + 1] <= heap[p + 1]
    BY <1>5, <1>8, <2>5
  <2> QED  BY <2>3, <2>4, <2>6
<1> QED
  BY <1>2, <1>4, <1>7, <1>8 DEF OneOutOfOrder

(***************************************************************************)
(* The root is out of order and nothing else is: where sink() starts.      *)
(***************************************************************************)
LEMMA SinkStarts ==
    ASSUME NEW array \in HeapArrays, OrderedFrom(array, 1)
    PROVE  \A p \in 1 .. Len(array) - 1 :
               Parent(p) # 0 => array[Parent(p) + 1] <= array[p + 1]
<1> SUFFICES ASSUME NEW p \in 1 .. Len(array) - 1, Parent(p) # 0
             PROVE  array[Parent(p) + 1] <= array[p + 1]
  OBVIOUS
<1>1. p \in Nat \ {0}
  BY ArrayFacts
<1>2. Parent(p) \in Nat
  BY <1>1, ParentFacts
<1>3. Parent(p) >= 1
  BY <1>2
<1> QED  BY <1>3 DEF OrderedFrom

LEMMA HeapIsOrderedBelow ==
    ASSUME NEW array \in HeapArrays, IsHeap(array)
    PROVE  OrderedFrom(array, 1)
<1>1. ASSUME NEW p \in 1 .. Len(array) - 1, Parent(p) >= 1
      PROVE  array[Parent(p) + 1] <= array[p + 1]
  <2>1. p \in Nat \ {0}
    BY ArrayFacts
  <2>2. Parent(p) >= 0
    BY <2>1, ParentFacts
  <2> QED  BY <2>2 DEF IsHeap, OrderedFrom
<1> QED  BY <1>1 DEF OrderedFrom

(***************************************************************************)
(* Where the loop in sink() stops, the order is whole again.               *)
(***************************************************************************)
LEMMA SunkIsHeap ==
    ASSUME HeapTypeOK, OneOutOfOrder, heapPc = "sinking", ~Sinks
    PROVE  IsHeap(heap)
<1>1. /\ heapPos \in Nat
      /\ Len(heap) \in Nat
      /\ \A i \in 1 .. Len(heap) : heap[i] \in Nat
  BY ArrayFacts, MaxSizeAssumption DEF HeapTypeOK
<1>2. ASSUME NEW p \in 1 .. Len(heap) - 1
      PROVE  heap[Parent(p) + 1] <= heap[p + 1]
  <2>1. CASE Parent(p) # heapPos
    BY <2>1 DEF OneOutOfOrder
  <2>2. CASE Parent(p) = heapPos
    <3>1. p \in Nat \ {0} /\ p < Len(heap) /\ p + 1 \in 1 .. Len(heap)
      BY <1>1
    <3>2. p = 2 * heapPos + 1 \/ p = 2 * heapPos + 2
      BY <1>1, <2>2, <3>1, ParentFacts
    <3>3. 2 * heapPos + 1 < Len(heap)
      BY <1>1, <3>1, <3>2
    <3>4. /\ Child(heapPos) \in Nat /\ Child(heapPos) < Len(heap) /\ Child(heapPos) > heapPos
          /\ heap[Child(heapPos) + 1] <= heap[p + 1]
      BY <2>2, <3>3, ChildFacts
    <3>5. ~(heap[heapPos + 1] > heap[Child(heapPos) + 1])
      BY <3>3 DEF Sinks
    <3>6. /\ heap[heapPos + 1] \in Nat
          /\ heap[Child(heapPos) + 1] \in Nat
          /\ heap[p + 1] \in Nat
      <4>1. /\ heapPos + 1 \in 1 .. Len(heap)
            /\ Child(heapPos) + 1 \in 1 .. Len(heap)
        BY <1>1, <3>3, <3>4
      <4> QED  BY <1>1, <3>1, <4>1
    <3>7. heap[heapPos + 1] <= heap[Child(heapPos) + 1]
      BY <3>5, <3>6
    <3>8. heap[heapPos + 1] <= heap[p + 1]
      BY <3>4, <3>6, <3>7
    <3> QED  BY <2>2, <3>8
  <2> QED  BY <2>1, <2>2
<1> QED  BY <1>2 DEF IsHeap, OrderedFrom

-----------------------------------------------------------------------------
(***************************************************************************)
(* What each action does to the entries, as an array.                      *)
(***************************************************************************)
LEMMA PushArray ==
    ASSUME HeapTypeOK, NEW x \in Keys, Len(heap) < MaxSize
    PROVE  /\ Append(heap, x) \in HeapArrays
           /\ Len(Append(heap, x)) = Len(heap) + 1
           /\ \A i \in 1 .. Len(heap) : Append(heap, x)[i] = heap[i]
           /\ Append(heap, x)[Len(heap) + 1] = x
<1>1. heap \in Seq(Keys)
  BY ArrayIsSeq DEF HeapTypeOK
<1>2. /\ Append(heap, x) \in Seq(Keys)
      /\ Len(Append(heap, x)) = Len(heap) + 1
      /\ \A i \in 1 .. Len(heap) : Append(heap, x)[i] = heap[i]
      /\ Append(heap, x)[Len(heap) + 1] = x
  BY <1>1, AppendProperties
<1>3. Len(Append(heap, x)) <= MaxSize
  <2>1. Len(heap) \in Nat
    BY <1>1, LenProperties
  <2> QED  BY <1>2, <2>1, MaxSizeAssumption
<1> QED  BY <1>2, <1>3, ArrayIsSeq

LEMMA PopArray ==
    ASSUME HeapTypeOK, heap # <<>>
    PROVE  /\ Tail(heap) \in HeapArrays
           /\ Len(Tail(heap)) = Len(heap) - 1
           /\ \A i \in 1 .. Len(Tail(heap)) : Tail(heap)[i] = heap[i + 1]
<1>1. heap \in Seq(Keys)
  BY ArrayIsSeq DEF HeapTypeOK
<1>2. /\ Tail(heap) \in Seq(Keys)
      /\ Len(Tail(heap)) = Len(heap) - 1
      /\ \A i \in 1 .. Len(Tail(heap)) : Tail(heap)[i] = heap[i + 1]
  BY <1>1, HeadTailProperties
<1>3. Len(Tail(heap)) <= MaxSize
  <2>1. Len(heap) \in Nat /\ Len(heap) <= MaxSize
    BY ArrayFacts DEF HeapTypeOK
  <2> QED  BY <1>2, <2>1, MaxSizeAssumption
<1> QED  BY <1>2, <1>3, ArrayIsSeq

LEMMA MoveArray ==
    ASSUME HeapTypeOK, heap # <<>>, NEW x \in Keys
    PROVE  /\ 1 \in 1 .. Len(heap)
           /\ [heap EXCEPT ![1] = x] \in HeapArrays
           /\ Len([heap EXCEPT ![1] = x]) = Len(heap)
           /\ [heap EXCEPT ![1] = x][1] = x
           /\ \A i \in 2 .. Len(heap) : [heap EXCEPT ![1] = x][i] = heap[i]
<1>1. /\ heap \in HeapArrays
      /\ heap \in Seq(Keys)
  BY ArrayIsSeq DEF HeapTypeOK
<1>2. /\ Len(heap) \in Nat
      /\ DOMAIN heap = 1 .. Len(heap)
      /\ heap \in [1 .. Len(heap) -> Keys]
  BY <1>1, LenProperties
<1>3. 1 \in 1 .. Len(heap)
  <2>1. Len(heap) # 0
    BY <1>1, EmptySeq
  <2> QED  BY <1>2, <2>1
<1>4. [heap EXCEPT ![1] = x] \in [DOMAIN heap -> Keys]
  BY <1>2, <1>3
<1>5. /\ [heap EXCEPT ![1] = x] \in HeapArrays
      /\ Len([heap EXCEPT ![1] = x]) = Len(heap)
  BY <1>1, <1>4, SameLength
<1> QED  BY <1>2, <1>3, <1>5

\* A loop moves the cursor on top only where there is one.
LEMMA TopIsKey ==
    ASSUME HeapTypeOK, heap # <<>>
    PROVE  heap[1] \in Keys
<1>1. heap \in HeapArrays
  BY DEF HeapTypeOK
<1>2. Len(heap) # 0 /\ Len(heap) \in Nat
  BY <1>1, ArrayFacts, ArrayIsSeq, EmptySeq
<1>3. 1 \in 1 .. Len(heap)
  BY <1>2
<1> QED  BY <1>1, <1>3, ArrayFacts

-----------------------------------------------------------------------------
(***************************************************************************)
(* Every action keeps the invariant.                                       *)
(***************************************************************************)
LEMMA InitIInv == HeapInit => IInv
BY MaxSizeAssumption
   DEF HeapInit, IInv, HeapTypeOK, InOrder, SomeMoved, PopFindsOrderBelow,
       OneOutOfOrder

LEMMA PushIInv ==
    ASSUME IInv, PushEntry
    PROVE  IInv'
<1>1. HeapTypeOK /\ heapPc = "ready" /\ heapPc' = heapPc /\ heapPos' = heapPos
      /\ Len(heap) < MaxSize /\ IsHeap(heap')
  BY DEF IInv, PushEntry
<1>2. PICK x \in Keys : heap' \in Arrangements(Append(heap, x))
  BY DEF PushEntry
<1>3. Append(heap, x) \in HeapArrays
  BY <1>1, PushArray
<1>4. heap' \in HeapArrays
  BY <1>2, <1>3, SameLength DEF Arrangements
<1>5. IsHeap(heap)'
  BY <1>1 DEF IsHeap, OrderedFrom
<1> QED
  BY <1>1, <1>4, <1>5
     DEF IInv, HeapTypeOK, InOrder, SomeMoved, PopFindsOrderBelow, OneOutOfOrder

LEMMA MoveIInv ==
    ASSUME IInv, Move
    PROVE  IInv'
<1>1. /\ HeapTypeOK /\ heapPc = "ready" /\ heapPc' = "moved" /\ heapPos' = heapPos
      /\ heap # <<>> /\ IsHeap(heap)
  BY DEF IInv, Move, InOrder
<1>2. heap[1] \in Nat
  BY <1>1, TopIsKey, MaxKeyAssumption DEF Keys
<1>3. PICK x \in heap[1] .. MaxKey : heap' = [heap EXCEPT ![1] = x]
  BY DEF Move
<1>4. x \in Keys
  BY <1>2, <1>3, MaxKeyAssumption DEF Keys
<1>5. /\ 1 \in 1 .. Len(heap)
      /\ heap' \in HeapArrays
      /\ Len(heap') = Len(heap)
      /\ \A i \in 2 .. Len(heap) : heap'[i] = heap[i]
  BY <1>1, <1>3, <1>4, MoveArray
<1>6. heap' # <<>>
  <2>1. Len(heap') # 0
    BY <1>5
  <2> QED  BY <2>1
<1>7. OrderedFrom(heap, 1)
  BY <1>1, HeapIsOrderedBelow DEF HeapTypeOK
<1>8. OrderedFrom(heap, 1)'
  <2>1. ASSUME NEW p \in 1 .. Len(heap) - 1, Parent(p) >= 1
        PROVE  heap'[Parent(p) + 1] <= heap'[p + 1]
    <3>1. Len(heap) \in Nat
      BY <1>1, ArrayFacts DEF HeapTypeOK
    <3>2. p \in Nat \ {0} /\ p < Len(heap)
      BY <3>1
    <3>3. Parent(p) \in Nat /\ Parent(p) < p
      BY <3>2, ParentFacts
    <3>4. p + 1 \in 2 .. Len(heap) /\ Parent(p) + 1 \in 2 .. Len(heap)
      BY <2>1, <3>1, <3>2, <3>3
    <3>5. heap[Parent(p) + 1] <= heap[p + 1]
      BY <1>7, <2>1 DEF OrderedFrom
    <3> QED  BY <1>5, <3>4, <3>5
  <2> QED  BY <1>5, <2>1 DEF OrderedFrom
<1> QED
  BY <1>1, <1>5, <1>6, <1>8
     DEF IInv, HeapTypeOK, InOrder, SomeMoved, PopFindsOrderBelow, OneOutOfOrder

LEMMA PopIInv ==
    ASSUME IInv, Pop
    PROVE  IInv'
<1>1. /\ HeapTypeOK /\ heapPc = "moved" /\ heapPc' = "sinking" /\ heapPos' = 0
      /\ heap # <<>> /\ OrderedFrom(heap, 1)
  BY DEF IInv, Pop, SomeMoved, PopFindsOrderBelow
<1>2. heap' \in Arrangements(Tail(heap)) /\ IsHeap(heap')
  BY <1>1 DEF Pop
<1>3. heap' \in HeapArrays
  <2>1. Tail(heap) \in HeapArrays
    BY <1>1, PopArray
  <2> QED  BY <1>2, <2>1, SameLength DEF Arrangements
<1>4. HeapTypeOK'
  BY <1>1, <1>3, MaxSizeAssumption DEF HeapTypeOK
<1>5. OrderedFrom(heap', 1)
  BY <1>2, <1>3, HeapIsOrderedBelow
<1>6. OneOutOfOrder'
  BY <1>1, <1>3, <1>5, SinkStarts DEF OneOutOfOrder
<1> QED
  BY <1>1, <1>4, <1>6 DEF IInv, InOrder, SomeMoved, PopFindsOrderBelow

LEMMA HeapifyIInv ==
    ASSUME IInv, Heapify
    PROVE  IInv'
<1>1. /\ HeapTypeOK /\ heapPc' = "sinking" /\ heapPos' = 0 /\ heap' = heap
      /\ OrderedFrom(heap, 1)
  BY DEF IInv, Heapify, PopFindsOrderBelow
<1>2. HeapTypeOK'
  BY <1>1, MaxSizeAssumption DEF HeapTypeOK
<1>3. OneOutOfOrder'
  BY <1>1, SinkStarts DEF OneOutOfOrder, HeapTypeOK
<1> QED
  BY <1>1, <1>2, <1>3 DEF IInv, InOrder, SomeMoved, PopFindsOrderBelow

LEMMA SinkIInv ==
    ASSUME IInv, Sink
    PROVE  IInv'
<1>1. HeapTypeOK /\ OneOutOfOrder /\ heapPc' = "sinking" /\ heapPos' = Child(heapPos)
  BY DEF IInv, Sink
<1>2. 2 * heapPos + 1 < Len(heap) /\ heap' \in HeapArrays
  BY <1>1, SinkSwaps
<1>3. heapPos' \in 0 .. MaxSize
  <2>1. Child(heapPos) \in Nat /\ Child(heapPos) < Len(heap)
    BY <1>1, <1>2, ChildFacts
  <2>2. Len(heap) \in Nat /\ Len(heap) <= MaxSize
    BY <1>1, ArrayFacts DEF HeapTypeOK
  <2> QED  BY <1>1, <2>1, <2>2, MaxSizeAssumption
<1>4. OneOutOfOrder'
  BY <1>1, SinkKeepsOrder
<1> QED
  BY <1>1, <1>2, <1>3, <1>4
     DEF IInv, HeapTypeOK, InOrder, SomeMoved, PopFindsOrderBelow

LEMMA SunkIInv ==
    ASSUME IInv, Sunk
    PROVE  IInv'
<1>1. /\ HeapTypeOK /\ OneOutOfOrder /\ heapPc = "sinking" /\ ~Sinks
      /\ heapPc' = "ready" /\ heapPos' = 0 /\ heap' = heap
  BY DEF IInv, Sunk
<1>2. IsHeap(heap)
  BY <1>1, SunkIsHeap
<1>3. IsHeap(heap)'
  BY <1>1, <1>2 DEF IsHeap, OrderedFrom
<1>4. HeapTypeOK'
  BY <1>1, MaxSizeAssumption DEF HeapTypeOK
<1> QED
  BY <1>1, <1>3, <1>4
     DEF IInv, InOrder, SomeMoved, PopFindsOrderBelow, OneOutOfOrder

LEMMA StutterIInv ==
    ASSUME IInv, UNCHANGED heapVars
    PROVE  IInv'
<1>1. heap' = heap /\ heapPc' = heapPc /\ heapPos' = heapPos
  BY DEF heapVars
<1> QED
  BY <1>1 DEF IInv, HeapTypeOK, InOrder, SomeMoved, PopFindsOrderBelow,
              OneOutOfOrder, IsHeap, OrderedFrom

(***************************************************************************)
(* The invariant holds in every state of the specification.                *)
(***************************************************************************)
THEOREM Invariance == HeapSpec => []IInv
<1>1. IInv /\ [HeapNext]_heapVars => IInv'
  BY PushIInv, MoveIInv, PopIInv, HeapifyIInv, SinkIInv, SunkIInv,
     StutterIInv DEF HeapNext
<1> QED  BY InitIInv, <1>1, PTL DEF HeapSpec

(***************************************************************************)
(* When a loop calls pop() after moving the cursor on top, the order of    *)
(* the heap is broken at the root only, whatever moved before: what        *)
(* std::pop_heap needs of an array that is no heap.                        *)
(***************************************************************************)
THEOREM PopSafe == HeapSpec => []PopFindsOrderBelow
<1>1. IInv => PopFindsOrderBelow
  BY DEF IInv
<1> QED  BY <1>1, Invariance, PTL

-----------------------------------------------------------------------------
(***************************************************************************)
(* How often a key occurs in an array, and the bag of the array's keys.    *)
(***************************************************************************)
Holds(array, x) == {i \in DOMAIN array : array[i] = x}

Copies(array, x) == Cardinality(Holds(array, x))

LEMMA CopiesFacts ==
    ASSUME NEW array \in HeapArrays, NEW x
    PROVE  /\ IsFiniteSet(Holds(array, x))
           /\ Copies(array, x) \in Nat
           /\ Copies(array, x) = 0 <=> \A i \in DOMAIN array : array[i] # x
<1>1. Len(array) \in Nat /\ DOMAIN array = 1 .. Len(array)
  BY ArrayFacts
<1>2. IsFiniteSet(DOMAIN array)
  BY <1>1, FS_Interval
<1>3. Holds(array, x) \in SUBSET DOMAIN array
  BY DEF Holds
<1>4. IsFiniteSet(Holds(array, x))
  BY <1>2, <1>3, FS_Subset
<1>5. Copies(array, x) \in Nat
  BY <1>4, FS_CardinalityType DEF Copies
<1>6. Copies(array, x) = 0 <=> Holds(array, x) = {}
  BY <1>4, FS_EmptySet DEF Copies
<1> QED  BY <1>4, <1>5, <1>6 DEF Holds

LEMMA BagFacts ==
    ASSUME NEW array \in HeapArrays
    PROVE  /\ BagOf(array) = [x \in DOMAIN BagOf(array) |-> BagOf(array)[x]]
           /\ DOMAIN BagOf(array) = {array[i] : i \in DOMAIN array}
           /\ \A x \in DOMAIN BagOf(array) : BagOf(array)[x] = Copies(array, x)
           /\ \A x : x \in DOMAIN BagOf(array) <=> Copies(array, x) > 0
<1>1. BagOf(array) =
         [x \in {array[i] : i \in DOMAIN array} |-> Copies(array, x)]
  BY DEF BagOf, Copies, Holds
<1>2. DOMAIN BagOf(array) = {array[i] : i \in DOMAIN array}
  BY <1>1
<1>3. ASSUME NEW x
      PROVE  x \in DOMAIN BagOf(array) <=> Copies(array, x) > 0
  <2>1. Copies(array, x) \in Nat
    BY CopiesFacts
  <2>2. Copies(array, x) > 0 <=> Copies(array, x) # 0
    BY <2>1
  <2>3. Copies(array, x) = 0 <=> \A i \in DOMAIN array : array[i] # x
    BY CopiesFacts
  <2> QED  BY <1>2, <2>2, <2>3, Zenon
<1> QED  BY <1>1, <1>2, <1>3

\* HeapArrays with as many copies of every key have the same bag.
LEMMA SameCopies ==
    ASSUME NEW a \in HeapArrays, NEW b \in HeapArrays,
           \A x : Copies(a, x) = Copies(b, x)
    PROVE  BagOf(a) = BagOf(b)
<1>1. DOMAIN BagOf(a) = DOMAIN BagOf(b)
  <2>1. \A x : x \in DOMAIN BagOf(a) <=> Copies(a, x) > 0
    BY BagFacts
  <2>2. \A x : x \in DOMAIN BagOf(b) <=> Copies(b, x) > 0
    BY BagFacts
  <2> QED  BY <2>1, <2>2, Zenon
<1>2. \A x \in DOMAIN BagOf(a) : BagOf(a)[x] = BagOf(b)[x]
  <2>1. \A x \in DOMAIN BagOf(a) : BagOf(a)[x] = Copies(a, x)
    BY BagFacts
  <2>2. \A x \in DOMAIN BagOf(b) : BagOf(b)[x] = Copies(b, x)
    BY BagFacts
  <2> QED  BY <1>1, <2>1, <2>2, Zenon
<1>3. BagOf(a) = [x \in DOMAIN BagOf(a) |-> BagOf(a)[x]]
  BY BagFacts
<1>4. BagOf(b) = [x \in DOMAIN BagOf(b) |-> BagOf(b)[x]]
  BY BagFacts
<1> QED  BY <1>1, <1>2, <1>3, <1>4

\* One more copy of a key is that key added to the bag, one less taken out.
LEMMA BagPlusOne ==
    ASSUME NEW a \in HeapArrays, NEW b \in HeapArrays, NEW x,
           \A y : Copies(b, y) = Copies(a, y) + (IF y = x THEN 1 ELSE 0)
    PROVE  BagOf(b) = BagOf(a) (+) SetToBag({x})
<1>1. ASSUME NEW y
      PROVE  y \in DOMAIN BagOf(b) <=> y \in DOMAIN BagOf(a) \/ y = x
  <2>1. Copies(a, y) \in Nat
    BY CopiesFacts
  <2>2. y \in DOMAIN BagOf(b) <=> Copies(b, y) > 0
    BY BagFacts
  <2>3. y \in DOMAIN BagOf(a) <=> Copies(a, y) > 0
    BY BagFacts
  <2>4. Copies(b, y) = Copies(a, y) + (IF y = x THEN 1 ELSE 0)
    OBVIOUS
  <2> QED  BY <2>1, <2>2, <2>3, <2>4
<1>2. DOMAIN BagOf(b) = DOMAIN BagOf(a) \cup {x}
  BY <1>1
<1>3. ASSUME NEW y \in DOMAIN BagOf(b)
      PROVE  BagOf(b)[y] =
                 (IF y \in DOMAIN BagOf(a) THEN BagOf(a)[y] ELSE 0)
               + (IF y \in {x} THEN 1 ELSE 0)
  <2>1. Copies(a, y) \in Nat
    BY CopiesFacts
  <2>2. BagOf(b)[y] = Copies(b, y)
    BY BagFacts
  <2>3. (IF y \in DOMAIN BagOf(a) THEN BagOf(a)[y] ELSE 0) = Copies(a, y)
    <3>1. y \in DOMAIN BagOf(a) => BagOf(a)[y] = Copies(a, y)
      BY BagFacts
    <3>2. y \notin DOMAIN BagOf(a) => ~(Copies(a, y) > 0)
      BY BagFacts
    <3> QED  BY <2>1, <3>1, <3>2
  <2>4. Copies(b, y) = Copies(a, y) + (IF y = x THEN 1 ELSE 0)
    OBVIOUS
  <2> QED  BY <2>2, <2>3, <2>4
<1>4. BagOf(b) = [y \in DOMAIN BagOf(b) |-> BagOf(b)[y]]
  BY BagFacts
<1> DEFINE A == BagOf(a)
           B == BagOf(b)
<1> HIDE DEF A, B
<1>5. B = [y \in DOMAIN A \cup {x} |->
              (IF y \in DOMAIN A THEN A[y] ELSE 0)
            + (IF y \in {x} THEN 1 ELSE 0)]
  BY <1>2, <1>3, <1>4 DEF A, B
<1>6. A (+) SetToBag({x}) =
          [y \in DOMAIN A \cup {x} |->
              (IF y \in DOMAIN A THEN A[y] ELSE 0)
            + (IF y \in {x} THEN 1 ELSE 0)]
  BY DEF (+), SetToBag
<1> QED  BY <1>5, <1>6 DEF A, B

LEMMA BagMinusOne ==
    ASSUME NEW a \in HeapArrays, NEW b \in HeapArrays, NEW x,
           Copies(a, x) > 0,
           \A y : Copies(b, y) = Copies(a, y) - (IF y = x THEN 1 ELSE 0)
    PROVE  BagOf(b) = BagOf(a) (-) SetToBag({x})
<1> DEFINE A == BagOf(a)
           B == BagOf(b)
           Less == [y \in DOMAIN A |-> IF y \in {x} THEN A[y] - 1 ELSE A[y]]
<1>1. ASSUME NEW y \in DOMAIN A
      PROVE  Less[y] = Copies(b, y)
  <2>1. A[y] = Copies(a, y)
    BY BagFacts
  <2>2. Copies(a, y) \in Nat
    BY CopiesFacts
  <2>3. Copies(b, y) = Copies(a, y) - (IF y = x THEN 1 ELSE 0)
    OBVIOUS
  <2> QED  BY <2>1, <2>2, <2>3
<1>2. ASSUME NEW y
      PROVE  y \in DOMAIN B <=> y \in DOMAIN A /\ Less[y] > 0
  <2>1. y \in DOMAIN B <=> Copies(b, y) > 0
    BY BagFacts
  <2>2. y \in DOMAIN A <=> Copies(a, y) > 0
    BY BagFacts
  <2>3. Copies(a, y) \in Nat /\ Copies(b, y) \in Nat
    BY CopiesFacts
  <2>4. Copies(b, y) = Copies(a, y) - (IF y = x THEN 1 ELSE 0)
    OBVIOUS
  <2>5. Copies(b, y) > 0 => Copies(a, y) > 0
    BY <2>3, <2>4
  <2> QED  BY <1>1, <2>1, <2>2, <2>5
<1>3. \A y \in DOMAIN B : B[y] = Copies(b, y)
  BY BagFacts
<1>4. B = [y \in DOMAIN B |-> B[y]]
  BY BagFacts
<1>5. A (-) SetToBag({x}) = [y \in {d \in DOMAIN Less : Less[d] > 0} |-> Less[y]]
  <2> HIDE DEF A, B
  <2>1. \A d \in DOMAIN A : d \in DOMAIN SetToBag({x})
                               => SetToBag({x})[d] = 1
    BY DEF SetToBag
  <2>2. DOMAIN SetToBag({x}) = {x}
    BY DEF SetToBag
  <2>3. [d \in DOMAIN A |-> IF d \in DOMAIN SetToBag({x})
                            THEN A[d] - SetToBag({x})[d] ELSE A[d]] = Less
    BY <2>1, <2>2
  <2> HIDE DEF Less
  <2> QED  BY <2>3 DEF (-)
<1>6. DOMAIN Less = DOMAIN A
  OBVIOUS
<1> HIDE DEF A, B, Less
<1>7. DOMAIN B = {d \in DOMAIN Less : Less[d] > 0}
  BY <1>2, <1>6
<1>8. \A y \in DOMAIN B : B[y] = Less[y]
  BY <1>1, <1>2, <1>3
<1> QED  BY <1>4, <1>5, <1>7, <1>8 DEF A, B

-----------------------------------------------------------------------------
(***************************************************************************)
(* What each action does to the bag of the keys.                           *)
(***************************************************************************)
LEMMA PushBag ==
    ASSUME HeapTypeOK, NEW x \in Keys, Len(heap) < MaxSize
    PROVE  BagOf(Append(heap, x)) = BagOf(heap) (+) SetToBag({x})
<1> DEFINE a == Append(heap, x)
<1>1. /\ heap \in HeapArrays /\ a \in HeapArrays
      /\ Len(a) = Len(heap) + 1
      /\ \A i \in 1 .. Len(heap) : a[i] = heap[i]
      /\ a[Len(heap) + 1] = x
  BY PushArray DEF HeapTypeOK
<1> HIDE DEF a
<1>2. /\ Len(heap) \in Nat /\ DOMAIN heap = 1 .. Len(heap)
      /\ DOMAIN a = 1 .. Len(heap) + 1
  BY <1>1, ArrayFacts
<1>3. ASSUME NEW y
      PROVE  Copies(a, y) = Copies(heap, y) + (IF y = x THEN 1 ELSE 0)
  <2>1. IsFiniteSet(Holds(heap, y)) /\ Copies(heap, y) \in Nat
    BY <1>1, CopiesFacts
  <2>2. CASE y = x
    <3>1. Holds(a, y) = Holds(heap, y) \cup {Len(heap) + 1}
      BY <1>1, <1>2, <2>2 DEF Holds
    <3>2. Len(heap) + 1 \notin Holds(heap, y)
      BY <1>2 DEF Holds
    <3> QED  BY <2>1, <2>2, <3>1, <3>2, FS_AddElement DEF Copies
  <2>3. CASE y # x
    <3>1. Holds(a, y) = Holds(heap, y)
      BY <1>1, <1>2, <2>3 DEF Holds
    <3> QED  BY <2>1, <2>3, <3>1 DEF Copies
  <2> QED  BY <2>2, <2>3
<1> QED  BY <1>1, <1>3, BagPlusOne DEF a

\* The copies in an array without its first entry.
LEMMA RestCopies ==
    ASSUME NEW array \in HeapArrays, NEW rest \in HeapArrays,
           1 \in DOMAIN array,
           Len(rest) = Len(array) - 1,
           \A i \in 1 .. Len(rest) : rest[i] = array[i + 1],
           NEW y
    PROVE  Copies(rest, y) = Copies(array, y)
                                - (IF y = array[1] THEN 1 ELSE 0)
<1> DEFINE Below == Holds(array, y) \ {1}
           Up == [i \in Holds(rest, y) |-> i + 1]
<1>1. /\ Len(array) \in Nat /\ Len(rest) \in Nat
      /\ DOMAIN array = 1 .. Len(array)
      /\ DOMAIN rest = 1 .. Len(rest)
  BY ArrayFacts
<1>2. /\ IsFiniteSet(Holds(array, y)) /\ Copies(array, y) \in Nat
      /\ IsFiniteSet(Holds(rest, y))
  BY CopiesFacts
<1>3. \A i \in Holds(rest, y) : i \in Nat /\ i + 1 \in Below
  BY <1>1 DEF Holds
<1>4. \A j \in Below : j - 1 \in Holds(rest, y) /\ (j - 1) + 1 = j
  BY <1>1 DEF Holds
<1>5. Up \in Bijection(Holds(rest, y), Below)
  <2>1. Up \in [Holds(rest, y) -> Below]
    BY <1>3
  <2>2. \A i, j \in Holds(rest, y) : Up[i] = Up[j] => i = j
    BY <1>3
  <2>3. \A j \in Below : \E i \in Holds(rest, y) : Up[i] = j
    BY <1>4
  <2> HIDE DEF Up, Below
  <2> QED
    BY <2>1, <2>2, <2>3 DEF Bijection, Injection, Surjection, IsInjective
<1>6. ExistsBijection(Holds(rest, y), Below)
  BY <1>5, Zenon DEF ExistsBijection
<1>7. Cardinality(Below) = Copies(rest, y)
  <2> HIDE DEF Below
  <2> QED  BY <1>2, <1>6, FS_Bijection DEF Copies
<1>8. 1 \in Holds(array, y) <=> y = array[1]
  BY DEF Holds
<1>9. Cardinality(Below) = IF 1 \in Holds(array, y)
                           THEN Copies(array, y) - 1 ELSE Copies(array, y)
  BY <1>2, FS_RemoveElement DEF Copies
<1> HIDE DEF Below
<1> QED  BY <1>2, <1>7, <1>8, <1>9

LEMMA PopBag ==
    ASSUME HeapTypeOK, heap # <<>>
    PROVE  BagOf(Tail(heap)) = BagOf(heap) (-) SetToBag({heap[1]})
<1> DEFINE a == Tail(heap)
<1>1. /\ heap \in HeapArrays /\ a \in HeapArrays
      /\ Len(a) = Len(heap) - 1
      /\ \A i \in 1 .. Len(a) : a[i] = heap[i + 1]
  BY PopArray DEF HeapTypeOK
<1> HIDE DEF a
<1>2. /\ Len(heap) \in Nat /\ Len(a) \in Nat
      /\ DOMAIN heap = 1 .. Len(heap)
      /\ 1 \in DOMAIN heap
  BY <1>1, ArrayFacts
<1>3. \A y : Copies(a, y) = Copies(heap, y) - (IF y = heap[1] THEN 1 ELSE 0)
  BY <1>1, <1>2, RestCopies
<1>4. Copies(heap, heap[1]) > 0
  <2>1. Copies(heap, heap[1]) \in Nat /\ Copies(heap, heap[1]) # 0
    BY <1>1, <1>2, CopiesFacts
  <2> QED  BY <2>1
<1> QED  BY <1>1, <1>3, <1>4, BagMinusOne DEF a

\* The bag without the key that was on top is that of the rest of the array.
LEMMA MoveBag ==
    ASSUME HeapTypeOK, heap # <<>>, NEW x \in Keys
    PROVE  BagOf([heap EXCEPT ![1] = x]) =
               (BagOf(heap) (-) SetToBag({heap[1]})) (+) SetToBag({x})
<1> DEFINE a == [heap EXCEPT ![1] = x]
           rest == Tail(heap)
<1>1. /\ a \in HeapArrays
      /\ 1 \in 1 .. Len(heap)
      /\ Len(a) = Len(heap)
      /\ a[1] = x
      /\ \A i \in 2 .. Len(heap) : a[i] = heap[i]
  BY MoveArray
<1>2. /\ rest \in HeapArrays
      /\ Len(rest) = Len(heap) - 1
      /\ \A i \in 1 .. Len(rest) : rest[i] = heap[i + 1]
  BY PopArray
<1>3. BagOf(rest) = BagOf(heap) (-) SetToBag({heap[1]})
  BY PopBag
<1> HIDE DEF a, rest
<1>4. /\ Len(heap) \in Nat /\ Len(rest) \in Nat
      /\ DOMAIN a = 1 .. Len(heap)
  BY <1>1, <1>2, ArrayFacts DEF HeapTypeOK
<1>5. \A i \in 1 .. Len(rest) : rest[i] = a[i + 1]
  BY <1>1, <1>2, <1>4
<1>6. ASSUME NEW y
      PROVE  Copies(a, y) = Copies(rest, y) + (IF y = x THEN 1 ELSE 0)
  <2>1. Copies(rest, y) = Copies(a, y) - (IF y = a[1] THEN 1 ELSE 0)
    BY <1>1, <1>2, <1>4, <1>5, RestCopies
  <2>2. Copies(a, y) \in Nat
    BY <1>1, CopiesFacts
  <2> QED  BY <1>1, <2>1, <2>2
<1>7. \A y : Copies(a, y) = Copies(rest, y) + (IF y = x THEN 1 ELSE 0)
  BY <1>6
<1>8. BagOf(a) = BagOf(rest) (+) SetToBag({x})
  <2>1. a \in HeapArrays /\ rest \in HeapArrays
    BY <1>1, <1>2
  <2> QED  BY <1>7, <2>1, BagPlusOne
<1> QED  BY <1>3, <1>8 DEF a

(***************************************************************************)
(* The swap of sink() loses no key and doubles none.                       *)
(***************************************************************************)
LEMMA SinkBag ==
    ASSUME HeapTypeOK, Sink
    PROVE  BagOf(heap') = BagOf(heap)
<1> DEFINE i == heapPos + 1
           j == Child(heapPos) + 1
           b == heap'
<1>1. /\ 2 * heapPos + 1 < Len(heap)
      /\ i \in DOMAIN heap /\ j \in DOMAIN heap
      /\ b \in HeapArrays /\ heap \in HeapArrays
      /\ DOMAIN b = DOMAIN heap
      /\ b[i] = heap[j] /\ b[j] = heap[i]
      /\ \A n \in DOMAIN heap : n # i /\ n # j => b[n] = heap[n]
  BY SinkSwaps DEF HeapTypeOK
<1>2. i # j
  BY <1>1, ChildFacts, MaxSizeAssumption DEF HeapTypeOK
<1> HIDE DEF i, j, b
<1>3. ASSUME NEW x
      PROVE  Copies(b, x) = Copies(heap, x)
  <2>1. IsFiniteSet(Holds(heap, x)) /\ Copies(heap, x) \in Nat
    BY <1>1, CopiesFacts
  <2>2. CASE heap[i] = heap[j] \/ (x # heap[i] /\ x # heap[j])
    <3>1. Holds(b, x) = Holds(heap, x)
      BY <1>1, <2>2 DEF Holds
    <3> QED  BY <3>1 DEF Copies
  <2>3. CASE heap[i] # heap[j] /\ x = heap[i]
    <3>1. Holds(b, x) = (Holds(heap, x) \ {i}) \cup {j}
      BY <1>1, <1>2, <2>3 DEF Holds
    <3>2. i \in Holds(heap, x) /\ j \notin Holds(heap, x) \ {i}
      BY <1>1, <2>3 DEF Holds
    <3>3. /\ IsFiniteSet(Holds(heap, x) \ {i})
          /\ Cardinality(Holds(heap, x) \ {i}) = Copies(heap, x) - 1
      BY <2>1, <3>2, FS_RemoveElement DEF Copies
    <3>4. Copies(b, x) = Cardinality(Holds(heap, x) \ {i}) + 1
      BY <3>1, <3>2, <3>3, FS_AddElement DEF Copies
    <3> QED  BY <2>1, <3>3, <3>4
  <2>4. CASE heap[i] # heap[j] /\ x = heap[j]
    <3>1. Holds(b, x) = (Holds(heap, x) \ {j}) \cup {i}
      BY <1>1, <1>2, <2>4 DEF Holds
    <3>2. j \in Holds(heap, x) /\ i \notin Holds(heap, x) \ {j}
      BY <1>1, <2>4 DEF Holds
    <3>3. /\ IsFiniteSet(Holds(heap, x) \ {j})
          /\ Cardinality(Holds(heap, x) \ {j}) = Copies(heap, x) - 1
      BY <2>1, <3>2, FS_RemoveElement DEF Copies
    <3>4. Copies(b, x) = Cardinality(Holds(heap, x) \ {j}) + 1
      BY <3>1, <3>2, <3>3, FS_AddElement DEF Copies
    <3> QED  BY <2>1, <3>3, <3>4
  <2> QED  BY <2>2, <2>3, <2>4
<1> QED  BY <1>1, <1>3, SameCopies DEF b

-----------------------------------------------------------------------------
(***************************************************************************)
(* The heap implements the priority queue, step by step.                   *)
(***************************************************************************)
\* The bags of the queue are the bags of the heap.
LEMMA QueueBags ==
    /\ Queue!EmptyBag = EmptyBag
    /\ \A S : Queue!SetToBag(S) = SetToBag(S)
    /\ \A x, B : Queue!BagIn(x, B) <=> BagIn(x, B)
BY DEF Queue!EmptyBag, EmptyBag, SetToBag, Queue!SetToBag, Queue!BagIn, BagIn,
       Queue!BagToSet, BagToSet

LEMMA QueuePlus ==
    ASSUME NEW A, NEW B
    PROVE  Queue!(+)(A, B) = A (+) B
BY DEF (+), Queue!(+)

LEMMA QueueMinus ==
    ASSUME NEW A, NEW B
    PROVE  Queue!(-)(A, B) = A (-) B
BY DEF (-), Queue!(-)

LEMMA BagIsEmpty ==
    ASSUME NEW array \in HeapArrays
    PROVE  BagOf(array) = EmptyBag <=> array = <<>>
<1>1. /\ Len(array) \in Nat /\ DOMAIN array = 1 .. Len(array)
      /\ DOMAIN BagOf(array) = {array[i] : i \in DOMAIN array}
      /\ BagOf(array) = [x \in DOMAIN BagOf(array) |-> BagOf(array)[x]]
  BY ArrayFacts, BagFacts
<1>2. array = <<>> <=> Len(array) = 0
  BY ArrayIsSeq, EmptySeq
<1>3. DOMAIN BagOf(array) = {} <=> Len(array) = 0
  <2>1. Len(array) # 0 => 1 \in DOMAIN array
    BY <1>1
  <2>2. Len(array) = 0 => DOMAIN array = {}
    BY <1>1
  <2> QED  BY <1>1, <2>1, <2>2
<1>4. EmptyBag = [x \in {} |-> 1]
  BY DEF EmptyBag, SetToBag
<1>5. BagOf(array) = EmptyBag <=> DOMAIN BagOf(array) = {}
  BY <1>1, <1>4
<1> QED  BY <1>2, <1>3, <1>5

\* The root of a heap is what the queue may show on top.
LEMMA RootIsTop ==
    ASSUME NEW array \in HeapArrays, IsHeap(array)
    PROVE  Queue!TopOf(BagOf(array), IF array # <<>> THEN array[1] ELSE 0)
<1>1. CASE array = <<>>
  BY <1>1, BagIsEmpty, QueueBags DEF Queue!TopOf
<1>2. CASE array # <<>>
  <2>1. BagOf(array) # EmptyBag
    BY <1>2, BagIsEmpty
  <2>2. DOMAIN BagOf(array) = {array[i] : i \in 1 .. Len(array)}
    BY ArrayFacts, BagFacts
  <2>3. 1 \in 1 .. Len(array)
    <3>1. Len(array) # 0 /\ Len(array) \in Nat
      BY <1>2, ArrayFacts, ArrayIsSeq, EmptySeq
    <3> QED  BY <3>1
  <2>4. array[1] \in DOMAIN BagOf(array)
    BY <2>2, <2>3
  <2>5. \A y \in DOMAIN BagOf(array) : array[1] <= y
    BY <2>2, RootIsLeast
  <2> QED
    BY <1>2, <2>1, <2>4, <2>5, QueueBags DEF Queue!TopOf, Queue!IsLeast
<1> QED  BY <1>1, <1>2

LEMMA InitRefines ==
    ASSUME HeapInit
    PROVE  Queue!Init
<1>1. heapPc = "ready" /\ heap \in HeapArrays /\ IsHeap(heap)
  BY DEF HeapInit
<1>2. Queue!TopOf(BagOf(heap), IF heap # <<>> THEN heap[1] ELSE 0)
  BY <1>1, RootIsTop
<1> QED  BY <1>1, <1>2 DEF Queue!Init

LEMMA PushRefines ==
    ASSUME IInv, PushEntry
    PROVE  Queue!Add
<1>1. HeapTypeOK /\ heapPc = "ready" /\ heapPc' = "ready"
      /\ Len(heap) < MaxSize /\ IsHeap(heap')
  BY DEF IInv, PushEntry
<1>2. PICK x \in Keys : heap' \in Arrangements(Append(heap, x))
  BY DEF PushEntry
<1>3. heap' \in HeapArrays /\ BagOf(heap') = BagOf(Append(heap, x))
  <2>1. Append(heap, x) \in HeapArrays
    BY <1>1, PushArray
  <2> QED  BY <1>2, <2>1, SameLength DEF Arrangements
<1>4. BagOf(heap') = BagOf(heap) (+) SetToBag({x})
  BY <1>1, <1>3, PushBag
<1>5. Queue!TopOf(BagOf(heap'), IF heap' # <<>> THEN heap'[1] ELSE 0)
  BY <1>1, <1>3, RootIsTop
<1>6. x \in Queue!Keys
  BY DEF Keys, Queue!Keys
<1>7. BagOf(heap)' = BagOf(heap')
  BY DEF BagOf
<1>8. BagOf(heap)' = Queue!(+)(BagOf(heap), Queue!SetToBag({x}))
  BY <1>4, <1>7, QueueBags, QueuePlus
<1>9. Queue!TopOf(BagOf(heap)',
                  (IF heapPc = "ready" /\ heap # <<>> THEN heap[1] ELSE 0)')
  BY <1>1, <1>5, <1>7
<1> QED
  BY <1>1, <1>6, <1>8, <1>9 DEF Queue!Add

LEMMA MoveRefines ==
    ASSUME IInv, Move
    PROVE  Queue!Change
<1>1. /\ HeapTypeOK /\ heapPc = "ready" /\ heapPc' = "moved" /\ heap # <<>>
      /\ heap \in HeapArrays
  BY DEF IInv, HeapTypeOK, Move
<1>2. heap[1] \in Nat
  BY <1>1, TopIsKey, MaxKeyAssumption DEF Keys
<1>3. PICK x \in heap[1] .. MaxKey : heap' = [heap EXCEPT ![1] = x]
  BY DEF Move
<1>4. x \in Keys
  BY <1>2, <1>3, MaxKeyAssumption DEF Keys
<1>5. BagOf(heap') = (BagOf(heap) (-) SetToBag({heap[1]})) (+) SetToBag({x})
  BY <1>1, <1>3, <1>4, MoveBag
<1>6. BagOf(heap)' = BagOf(heap')
  BY DEF BagOf
<1>7. BagOf(heap) # EmptyBag
  BY <1>1, BagIsEmpty
<1>8. BagOf(heap)' =
          Queue!(+)(Queue!(-)(BagOf(heap), Queue!SetToBag({heap[1]})),
                    Queue!SetToBag({x}))
  BY <1>5, <1>6, QueueBags, QueuePlus, QueueMinus
<1> QED
  BY <1>1, <1>3, <1>7, <1>8, QueueBags DEF Queue!Change

LEMMA PopRefines ==
    ASSUME IInv, Pop
    PROVE  Queue!Remove
<1>1. /\ HeapTypeOK /\ heapPc = "moved" /\ heapPc' = "sinking" /\ heap # <<>>
      /\ heap \in HeapArrays /\ heap[1] = MaxKey
      /\ heap' \in Arrangements(Tail(heap))
  BY DEF IInv, HeapTypeOK, SomeMoved, Pop
<1>2. BagOf(heap') = BagOf(Tail(heap))
  BY <1>1 DEF Arrangements
<1>3. BagOf(heap') = BagOf(heap) (-) SetToBag({MaxKey})
  BY <1>1, <1>2, PopBag
<1>4. BagOf(heap)' = BagOf(heap')
  BY DEF BagOf
<1>5. BagIn(MaxKey, BagOf(heap))
  <2>1. 1 \in DOMAIN heap
    <3>1. Len(heap) # 0 /\ Len(heap) \in Nat /\ DOMAIN heap = 1 .. Len(heap)
      BY <1>1, ArrayFacts, ArrayIsSeq, EmptySeq
    <3> QED  BY <3>1
  <2>2. MaxKey \in DOMAIN BagOf(heap)
    BY <1>1, <2>1, BagFacts
  <2> QED  BY <2>2 DEF BagIn, BagToSet
<1>6. BagOf(heap)' = Queue!(-)(BagOf(heap), Queue!SetToBag({MaxKey}))
  BY <1>3, <1>4, QueueBags, QueueMinus
<1> QED
  BY <1>1, <1>5, <1>6, QueueBags DEF Queue!Remove

LEMMA SunkRefines ==
    ASSUME IInv, Sunk
    PROVE  Queue!Settle
<1>1. /\ HeapTypeOK /\ OneOutOfOrder /\ heapPc = "sinking" /\ ~Sinks
      /\ heapPc' = "ready" /\ heap' = heap /\ heap \in HeapArrays
  BY DEF IInv, HeapTypeOK, Sunk
<1>2. IsHeap(heap)
  BY <1>1, SunkIsHeap
<1>3. Queue!TopOf(BagOf(heap), IF heap # <<>> THEN heap[1] ELSE 0)
  BY <1>1, <1>2, RootIsTop
<1>4. BagOf(heap)' = BagOf(heap)
  BY <1>1 DEF BagOf
<1> QED
  BY <1>1, <1>3, <1>4 DEF Queue!Settle, Queue!TopOf

\* heapify() and the rounds of sink() change nothing the loops could see.
LEMMA SinkingStutters ==
    ASSUME IInv, Heapify \/ Sink \/ UNCHANGED heapVars
    PROVE  UNCHANGED Queue!vars
<1>1. CASE Heapify
  <2>1. heapPc = "moved" /\ heapPc' = "sinking" /\ heap' = heap
    BY <1>1 DEF Heapify
  <2>2. BagOf(heap)' = BagOf(heap)
    BY <2>1 DEF BagOf
  <2> QED  BY <2>1, <2>2 DEF Queue!vars
<1>2. CASE Sink
  <2>1. heapPc = "sinking" /\ heapPc' = "sinking" /\ HeapTypeOK
    BY <1>2 DEF Sink, IInv
  <2>2. BagOf(heap') = BagOf(heap)
    BY <1>2, <2>1, SinkBag
  <2>3. BagOf(heap)' = BagOf(heap')
    BY DEF BagOf
  <2> QED  BY <2>1, <2>2, <2>3 DEF Queue!vars
<1>3. CASE UNCHANGED heapVars
  <2>1. heap' = heap /\ heapPc' = heapPc
    BY <1>3 DEF heapVars
  <2>2. BagOf(heap)' = BagOf(heap)
    BY <2>1 DEF BagOf
  <2> QED  BY <2>1, <2>2 DEF Queue!vars
<1> QED  BY <1>1, <1>2, <1>3

(***************************************************************************)
(* min_heap, moved at its root, popped and sunk, is a priority queue:      *)
(* whenever a loop looks at the root it is a least entry, and no entry is  *)
(* lost or doubled.                                                        *)
(***************************************************************************)
THEOREM Refinement == HeapSpec => RefinesPriorityQueue
<1>1. HeapInit => Queue!Init
  BY InitRefines
<1>2. IInv /\ [HeapNext]_heapVars => [Queue!Next]_(Queue!vars)
  BY PushRefines, MoveRefines, PopRefines, SunkRefines, SinkingStutters
     DEF HeapNext, Queue!Next
<1> QED
  BY <1>1, <1>2, Invariance, PTL DEF HeapSpec, RefinesPriorityQueue, Queue!Spec

=============================================================================

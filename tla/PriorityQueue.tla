--------------------------- MODULE PriorityQueue ---------------------------
(***************************************************************************)
(* What the search loops ask of their heap: the entry on top is one of the *)
(* least; the loops replace its key by a greater one, or remove it, or add *)
(* an entry.  A key stands for the value a cursor or a range shows; equal  *)
(* keys may be many, so the entries are a bag.                             *)
(***************************************************************************)
EXTENDS Naturals, Bags

CONSTANT MaxKey  \* bound: the greatest key

VARIABLES keys,  \* the bag of keys
          ready, \* may the loop look at the top?
          top    \* the key of the entry on top, 0 when there is none

vars == <<keys, ready, top>>

Keys == 0 .. MaxKey

IsLeast(x, bag) == x \in DOMAIN bag /\ \A y \in DOMAIN bag : x <= y

TopOf(bag, x) == IF bag = EmptyBag THEN x = 0 ELSE IsLeast(x, bag)

Init == ready = TRUE /\ TopOf(keys, top)

Add ==
    /\ ready
    /\ \E x \in Keys : keys' = keys (+) SetToBag({x})
    /\ ready' = TRUE
    /\ TopOf(keys', top')

\* The loop moves the cursor on top: its key grows.
Change ==
    /\ ready
    /\ keys # EmptyBag
    /\ \E x \in top .. MaxKey :
          keys' = (keys (-) SetToBag({top})) (+) SetToBag({x})
    /\ ready' = FALSE
    /\ top' = 0

\* The cursor is exhausted: an entry with the greatest key leaves.
Remove ==
    /\ ~ready
    /\ BagIn(MaxKey, keys)
    /\ keys' = keys (-) SetToBag({MaxKey})
    /\ UNCHANGED <<ready, top>>

\* The top is in order again.
Settle ==
    /\ ~ready
    /\ ready' = TRUE
    /\ TopOf(keys, top')
    /\ UNCHANGED keys

Next == Add \/ Change \/ Remove \/ Settle

Spec == Init /\ [][Next]_vars

=============================================================================

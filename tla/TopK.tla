-------------------------------- MODULE TopK --------------------------------
(***************************************************************************)
(* What a top-k query promises, whatever index answers it: the k best of   *)
(* the completions that match (all of them, when fewer match), each one    *)
(* once, the best first.                                                   *)
(***************************************************************************)
EXTENDS Postings, Sequences

CONSTANT MaxK  \* constants::MAX_K, the capacity of the scores

VARIABLES busy,    \* is a query being answered?
          target,  \* the completions that match it, {} between queries
          k,       \* how many of them are wanted, 1 between queries
          answer   \* the answer to the last query

vars == <<busy, target, k, answer>>

\* The sequence holds the best n members of the set, the best first.
IsTopK(seq, n, set) ==
    /\ Ascending(seq)
    /\ Range(seq) \subseteq set
    /\ Len(seq) <= n
    /\ \A d \in set \ Range(seq) :
           Len(seq) = n /\ \A i \in DOMAIN seq : seq[i] < d

Init ==
    /\ busy = FALSE
    /\ target = {}
    /\ k = 1
    /\ answer = <<>>

Ask ==
    /\ ~busy
    /\ busy' = TRUE
    /\ target' \in SUBSET DocIds
    /\ k' \in 1 .. MaxK
    /\ answer' = <<>>

Reply ==
    /\ busy
    /\ busy' = FALSE
    /\ IsTopK(answer', k, target)
    /\ target' = {}
    /\ k' = 1

Next == Ask \/ Reply

Spec == Init /\ [][Next]_vars

=============================================================================

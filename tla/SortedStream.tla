---------------------------- MODULE SortedStream ----------------------------
(***************************************************************************)
(* What an iterator over a set of completions promises: from the moment it *)
(* is opened on a set until its owner drops it, it reports members of the  *)
(* set in ascending order, each one once, and passes over none.            *)
(***************************************************************************)
EXTENDS Postings, Sequences

VARIABLES open,    \* does an iterator exist?
          target,  \* the set it enumerates
          out      \* what it has reported so far

vars == <<open, target, out>>

Pending == target \ Range(out)

TypeOK ==
    /\ open \in BOOLEAN
    /\ target \in SUBSET DocIds
    /\ out \in Seq(DocIds)

Init ==
    /\ open = FALSE
    /\ target = {}
    /\ out = <<>>

Open ==
    /\ ~open
    /\ open' = TRUE
    /\ target' \in SUBSET DocIds
    /\ out' = <<>>

Emit ==
    /\ open
    /\ Pending # {}
    /\ out' = Append(out, Least(Pending))
    /\ UNCHANGED <<open, target>>

Drop ==
    /\ open
    /\ open' = FALSE
    /\ target' = {}
    /\ out' = <<>>

Next == Open \/ Emit \/ Drop

Spec == Init /\ [][Next]_vars

=============================================================================

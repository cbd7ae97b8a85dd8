----------------------------- MODULE QueryPool -----------------------------
(***************************************************************************)
(* scored_string_pool and the frame of a query in autocomplete*.hpp: init  *)
(* empties the pool, a search fills the scores up to results, and          *)
(* extract_strings decodes one string for each of them.  The scores are a  *)
(* buffer of the index that every query reuses and none clears; what a     *)
(* query returns is a view of the pool, good until the next query.         *)
(***************************************************************************)
EXTENDS Postings, Sequences

CONSTANT MaxK  \* constants::MAX_K, the capacity of the scores

ASSUME MaxKAssumption == MaxK \in Nat \ {0}

VARIABLES
    phase,    \* "idle"; "search": looking for results; "extract": decoding
    scores,   \* m_pool.scores()
    k,        \* a local of the query: the number of results wanted
    results,  \* a local of the query: the number of results found
    reply     \* the completions whose strings are in the pool

poolVars == <<phase, scores, k, results, reply>>

Scores == [0 .. MaxK - 1 -> DocIds]

PoolTypeOK ==
    /\ phase \in {"idle", "search", "extract"}
    /\ scores \in Scores
    /\ k \in 1 .. MaxK
    /\ results \in 0 .. k
    /\ reply \in Seq(DocIds)

PoolInit ==
    /\ phase = "idle"
    /\ scores = [i \in 0 .. MaxK - 1 |-> 0]
    /\ k = 1
    /\ results = 0
    /\ reply = <<>>

\* init()
StartQuery ==
    /\ phase = "idle"
    /\ phase' = "search"
    /\ k' \in 1 .. MaxK
    /\ results' = 0
    /\ reply' = <<>>
    /\ UNCHANGED scores

\* topk_scores[results++] = doc
Record(doc) ==
    /\ scores' = [scores EXCEPT ![results] = doc]
    /\ results' = results + 1
    /\ UNCHANGED <<k, reply>>

\* The scores found so far.
Filled == {scores[i] : i \in 0 .. results - 1}

\* The completions whose strings extract_strings decodes.
Extracted == [i \in 1 .. results |-> scores[i - 1]]

\* The query returns and its locals are gone.
EndQuery ==
    /\ phase = "extract"
    /\ phase' = "idle"
    /\ k' = 1
    /\ results' = 0
    /\ UNCHANGED scores

-----------------------------------------------------------------------------

\* The filled scores ascend strictly: benchmark/effectiveness.cpp asserts it
\* before it takes the difference of two of them, and the binary searches in
\* heap_topk, minimal_docids and unsorted_list rely on it.
ScoresSorted ==
    \A i, j \in 0 .. results - 1 : i < j => scores[i] < scores[j]

\* Every query is answered.
Answers == phase = "search" ~> phase = "idle"

=============================================================================

---------------------------- MODULE LexiconTopk ----------------------------
(***************************************************************************)
(* autocomplete2::conjunctive_topk (index type 2).  There is no forward    *)
(* index: the loop decodes each candidate into the next free slot of a     *)
(* buffer of completions and looks for a term of the suffix range in it.   *)
(* A candidate that fails is overwritten by the next one; the strings are  *)
(* made from the slots and not from the scores.                            *)
(*                                                                         *)
(* The control is that of module ForwardTopk, whose actions are taken here *)
(* together with what they do to the buffer.                               *)
(***************************************************************************)
EXTENDS ForwardTopk

VARIABLES
    slots,  \* completions: the completion whose terms each slot holds
    sizes   \* the completion whose number of terms each entry holds

lexVars == <<searchVars, slots, sizes>>

\* Before the first query the buffers hold no completion at all.
Unset == NumDocs
Buffers == [0 .. MaxK - 1 -> 0 .. NumDocs]

LexTypeOK ==
    /\ SearchTypeOK
    /\ slots \in Buffers
    /\ sizes \in Buffers

LexInit ==
    /\ SearchInit
    /\ slots = [i \in 0 .. MaxK - 1 |-> Unset]
    /\ sizes = [i \in 0 .. MaxK - 1 |-> Unset]

LexQuery == Query /\ UNCHANGED <<slots, sizes>>
LexIterate == Iterate /\ UNCHANGED <<slots, sizes>>

\* Regression the checks must catch (never used by the specification): every
\* candidate is decoded into the first slot.
DecodeFirst == slots' = [slots EXCEPT ![0] = cand]

\* m_completions.extract(lex_id, completions[i])
Decode == slots' = [slots EXCEPT ![results] = cand]

LexSkip == Skip /\ Decode /\ UNCHANGED sizes

LexKeep ==
    /\ Keep \/ KeepLast
    /\ Decode
    /\ sizes' = [sizes EXCEPT ![results] = cand]

LexExhausted == Exhausted /\ UNCHANGED <<slots, sizes>>

\* The strings extract_strings makes: the terms of the slot, as many as its
\* size says, which is a completion only if both come from the same one.
Decoded ==
    [i \in 1 .. results |->
        IF sizes[i - 1] = slots[i - 1] THEN slots[i - 1] ELSE Unset]

LexExtractStrings ==
    Forget /\ reply' = Decoded /\ UNCHANGED <<vars, slots, sizes>>

LexNext ==
    \/ LexQuery
    \/ LexIterate \/ LexSkip \/ LexKeep \/ LexExhausted \/ LexExtractStrings

LexSpec == LexInit /\ [][LexNext]_lexVars

-----------------------------------------------------------------------------

\* A slot below the number of results holds the completion its score names,
\* with its size, whatever candidates have been decoded since.
SlotsFollowScores ==
    \A i \in 0 .. results - 1 : slots[i] = scores[i] /\ sizes[i] = scores[i]

\* Once the query has returned, the i-th string and the i-th score of the
\* pool speak of the same completion.
StringsFollowScores ==
    \A i \in DOMAIN reply : reply[i] = scores[i - 1]

\* Type 2 answers as type 1 does: whatever the buffer goes through, the
\* strings it returns are those of the completions the scores name.
RefinesForward == SearchSpec

=============================================================================

------------------------- MODULE ConjunctiveProofs --------------------------
(***************************************************************************)
(* The intersection iterator reports exactly the completions that hold     *)
(* every term, in ascending order, and indexes of types 1, 2 and 3 answer  *)
(* every query, of one token or of several, with the k best completions    *)
(* that match: for every collection, every number of terms, every k, every *)
(* threshold of the scan and every sequence of queries.                    *)
(*                                                                         *)
(* First the intersection and type 1, module ForwardTopk.  Then type 2:    *)
(* the search with known terms, module LexiconTopk, by itself: it answers  *)
(* as the search of type 1 does, and its strings, made from a buffer that  *)
(* failing candidates and earlier queries overwrite, always belong to its  *)
(* scores; the queries of one token, and the index as a whole.  Last type  *)
(* 3, module SuffixHeapTopk.                                               *)
(***************************************************************************)
EXTENDS LexiconIndex, SuffixHeapTopk, PostingsProofs, FiniteSetTheorems

-----------------------------------------------------------------------------
(***************************************************************************)
(* The inductive invariant.  ReportsExactly alone is not inductive: that   *)
(* the leaps of next() miss nothing needs the position of every cursor     *)
(* (Positioned), which of them agree on the candidate (Agreeing), what has *)
(* been reported in the middle of a round (Reported), and why the loop     *)
(* ended (Settled).                                                        *)
(***************************************************************************)
Shape ==
    /\ Len(lists) >= 1
    /\ Len(cur) = Len(lists)
    /\ val \in {0, cand}

\* A cursor shows a member of its list or the sentinel, and no member at or
\* after the candidate lies behind it.
Positioned ==
    \A i \in 1 .. Len(lists) :
        /\ cur[i] \in lists[i] \cup {NumDocs}
        /\ \A d \in lists[i] : d >= cand => d >= cur[i]

\* The cursors visited in this round show the candidate.
Agreeing == \A i \in 1 .. mi : cur[i] = cand

\* Every common member below the candidate has been reported, nothing else.
Reported == Range(out) = {d \in Common(lists) : d < cand}

\* The loop ends when the round is complete or the candidate is the sentinel.
Settled == pc = "at" => mi = Len(lists) \/ cand = NumDocs

Live == Shape /\ Positioned /\ Agreeing /\ Reported /\ Settled

IInv ==
    /\ TypeOK
    /\ Ascending(out)
    /\ pc = "none" => lists = <<>> /\ out = <<>>
    /\ pc # "none" => Live

-----------------------------------------------------------------------------
(***************************************************************************)
(* Consequences of the invariant that several steps use.                   *)
(***************************************************************************)
LEMMA Numbers ==
    ASSUME TypeOK
    PROVE  /\ cand \in Nat /\ cand <= NumDocs /\ val \in Nat
           /\ mi \in Nat /\ mi <= Len(lists)
           /\ Len(lists) \in Nat /\ DOMAIN lists = 1 .. Len(lists)
           /\ Len(cur) \in Nat /\ DOMAIN cur = 1 .. Len(cur)
           /\ \A i \in 1 .. Len(lists) :
                 lists[i] \in PostingLists /\ lists[i] \subseteq DocIds
           /\ \A i \in 1 .. Len(cur) : cur[i] \in CursorValues
           /\ Range(out) \subseteq DocIds
<1>1. cand \in Nat /\ cand <= NumDocs /\ val \in Nat
  BY Universe DEF TypeOK
<1>2. Len(lists) \in Nat /\ DOMAIN lists = 1 .. Len(lists)
  BY LenProperties DEF TypeOK
<1>3. Len(cur) \in Nat /\ DOMAIN cur = 1 .. Len(cur)
  BY LenProperties DEF TypeOK
<1>4. \A i \in 1 .. Len(lists) : lists[i] \in PostingLists
  BY ElementOfSeq DEF TypeOK
<1>5. \A i \in 1 .. Len(cur) : cur[i] \in CursorValues
  BY ElementOfSeq DEF TypeOK
<1>6. Range(out) \subseteq DocIds
  BY RangeOfSeq DEF TypeOK
<1>7. mi \in Nat /\ mi <= Len(lists)
  BY <1>2 DEF TypeOK
<1> QED  BY <1>1, <1>2, <1>3, <1>4, <1>5, <1>6, <1>7 DEF PostingLists

(***************************************************************************)
(* Inside the loop m_i designates one of the lists.                        *)
(***************************************************************************)
LEMMA InLoop ==
    ASSUME IInv, pc = "next", LoopCondition
    PROVE  /\ mi + 1 \in 1 .. Len(lists)
           /\ Answer \in CursorValues
           /\ Answer \in lists[mi + 1] \cup {NumDocs}
           /\ Answer >= cand
           /\ \A d \in lists[mi + 1] : d >= cand => d >= Answer
<1>1. TypeOK
  BY DEF IInv
<1>2. mi + 1 \in 1 .. Len(lists)
  BY <1>1, Numbers DEF LoopCondition
<1>3. lists[mi + 1] \subseteq DocIds /\ cand \in CursorValues
  BY <1>1, <1>2, Numbers DEF TypeOK
<1>4. /\ Answer \in CursorValues
      /\ Answer \in lists[mi + 1] \cup {NumDocs}
      /\ Answer >= cand
      /\ \A d \in lists[mi + 1] : d >= cand => Answer <= d
  BY <1>3, NextGeqFacts DEF Answer
<1> QED
  BY <1>2, <1>4, <1>3, Universe

(***************************************************************************)
(* When the owner sees a completion, every list holds it and the first     *)
(* cursor stands on it.                                                    *)
(***************************************************************************)
LEMMA AtCandidate ==
    ASSUME IInv, pc = "at", HasNext(cand)
    PROVE  /\ cand \in Common(lists)
           /\ cur[1] = cand
           /\ cand \in DocIds
<1>1. TypeOK /\ Live
  BY DEF IInv
<1>2. cand \in DocIds /\ cand # NumDocs
  BY <1>1, Universe, Numbers DEF TypeOK, HasNext
<1>3. mi = Len(lists)
  BY <1>1, <1>2 DEF Live, Settled
<1>4. \A i \in 1 .. Len(lists) : cur[i] = cand
  BY <1>1, <1>3 DEF Live, Agreeing
<1>5. \A i \in 1 .. Len(lists) : cand \in lists[i]
  BY <1>1, <1>2, <1>4 DEF Live, Positioned
<1>6. cand \in Common(lists)
  BY <1>1, <1>2, <1>5, Numbers DEF Common
<1>7. 1 \in 1 .. Len(lists)
  BY <1>1, Numbers DEF Live, Shape
<1> QED  BY <1>2, <1>4, <1>6, <1>7

-----------------------------------------------------------------------------
(***************************************************************************)
(* Every action preserves the invariant.                                   *)
(***************************************************************************)
LEMMA ConstructPreserves ==
    ASSUME IInv, Construct
    PROVE  IInv'
<1>1. PICK n \in 1 .. MaxTerms : \E ls \in [1 .. n -> PostingLists] : ConstructOn(ls)
  BY DEF Construct
<1>2. PICK ls \in [1 .. n -> PostingLists] : ConstructOn(ls)
  BY <1>1
<1>3. /\ lists' = ls /\ cur' = [i \in 1 .. n |-> First(ls[i])]
      /\ cand' = First(ls[1])
      /\ mi' = 1 /\ val' = 0 /\ out' = <<>> /\ pc' = "next"
  BY <1>2 DEF ConstructOn
<1>4. n \in Nat /\ n >= 1
  BY MaxTermsAssumption
<1>5. ls \in Seq(PostingLists) /\ Len(ls) = n /\ DOMAIN ls = 1 .. n
  BY <1>4
<1>6. \A i \in 1 .. n : /\ First(ls[i]) \in ls[i]
                        /\ First(ls[i]) \in DocIds
                        /\ First(ls[i]) \in CursorValues
                        /\ \A d \in ls[i] : First(ls[i]) <= d
  BY FirstFacts, Universe
<1>7. cur' \in Seq(CursorValues) /\ Len(cur') = n
  BY <1>3, <1>4, <1>6
<1>8. \A i \in 1 .. n : cur'[i] = First(ls[i])
  BY <1>3
<1>9. cand' \in CursorValues /\ cand' \in ls[1]
  BY <1>3, <1>4, <1>6
<1>10. TypeOK'
  BY <1>3, <1>4, <1>5, <1>7, <1>9, Universe, NumDocsAssumption
     DEF TypeOK, CursorValues
<1>11. Shape'
  BY <1>3, <1>4, <1>5, <1>7 DEF Shape
<1>12. Positioned'
  <2> SUFFICES ASSUME NEW i \in 1 .. n
               PROVE  /\ cur'[i] \in ls[i] \cup {NumDocs}
                      /\ \A d \in ls[i] : d >= cand' => d >= cur'[i]
    BY <1>3, <1>5 DEF Positioned
  <2>1. ls[i] \subseteq DocIds
    BY DEF PostingLists
  <2> QED  BY <2>1, <1>6, <1>8, Universe
<1>13. Agreeing'
  BY <1>3, <1>4, <1>8 DEF Agreeing
<1>14. Reported'
  <2>1. \A d \in Common(ls) : d >= cand' /\ d \in Nat
    BY <1>3, <1>4, <1>5, <1>6, Universe DEF Common
  <2>2. cand' \in Nat
    BY <1>9, Universe
  <2>3. {d \in Common(ls) : d < cand'} = {}
    BY <2>1, <2>2
  <2>4. Range(out') = {}
    BY <1>3 DEF Range
  <2> QED  BY <1>3, <2>3, <2>4 DEF Reported
<1>15. Ascending(out')
  BY <1>3 DEF Ascending
<1> QED
  BY <1>3, <1>10, <1>11, <1>12, <1>13, <1>14, <1>15 DEF IInv, Live, Settled

LEMMA AgreePreserves ==
    ASSUME IInv, Agree
    PROVE  IInv'
<1>1. TypeOK /\ Live /\ pc = "next" /\ LoopCondition /\ Answer = cand
  BY DEF IInv, Agree
<1>2. /\ cur' = [cur EXCEPT ![mi + 1] = cand] /\ val' = cand /\ mi' = mi + 1
      /\ pc' = pc /\ lists' = lists /\ cand' = cand /\ out' = out
  BY <1>1 DEF Agree, Moved
<1>3. mi + 1 \in 1 .. Len(lists) /\ cand \in lists[mi + 1] \cup {NumDocs}
  BY <1>1, InLoop
<1>4. Len(cur) = Len(lists)
  BY <1>1 DEF Live, Shape
<1>5. /\ cur' \in Seq(CursorValues)
      /\ Len(cur') = Len(cur)
      /\ \A i \in 1 .. Len(lists) : cur'[i] = IF i = mi + 1 THEN cand ELSE cur[i]
  BY <1>1, <1>2, <1>3, <1>4, ExceptSeq DEF TypeOK
<1>6. TypeOK'
  BY <1>1, <1>2, <1>3, <1>5, Numbers DEF TypeOK
<1>7. Shape'
  BY <1>1, <1>2, <1>5 DEF Live, Shape
<1>8. Positioned'
  BY <1>1, <1>2, <1>3, <1>5 DEF Live, Positioned
<1>9. Agreeing'
  <2> SUFFICES ASSUME NEW i \in 1 .. mi + 1
               PROVE  cur'[i] = cand
    BY <1>2 DEF Agreeing
  <2>1. i \in 1 .. Len(lists) /\ (i = mi + 1 \/ i \in 1 .. mi)
    BY <1>1, <1>3, Numbers
  <2> QED  BY <1>1, <1>5, <2>1 DEF Live, Agreeing
<1>10. Reported'
  BY <1>1, <1>2 DEF Live, Reported
<1> QED
  BY <1>1, <1>2, <1>6, <1>7, <1>8, <1>9, <1>10 DEF IInv, Live, Settled

LEMMA DisagreePreserves ==
    ASSUME IInv, Disagree
    PROVE  IInv'
<1>1. TypeOK /\ Live /\ pc = "next" /\ LoopCondition /\ Answer # cand
  BY DEF IInv, Disagree
<1>2. /\ cur' = [cur EXCEPT ![mi + 1] = Answer] /\ val' = Answer /\ cand' = Answer
      /\ mi' = 0 /\ pc' = pc /\ lists' = lists /\ out' = out
  BY <1>1 DEF Disagree, Moved
<1>3. /\ mi + 1 \in 1 .. Len(lists)
      /\ Answer \in CursorValues
      /\ Answer \in lists[mi + 1] \cup {NumDocs}
      /\ Answer >= cand
      /\ \A d \in lists[mi + 1] : d >= cand => d >= Answer
  BY <1>1, InLoop
<1>4. Answer \in Nat /\ cand \in Nat /\ cand < Answer
  BY <1>1, <1>3, Numbers, Universe
<1>5. /\ Len(cur) = Len(lists)
      /\ cur' \in Seq(CursorValues)
      /\ Len(cur') = Len(cur)
      /\ \A i \in 1 .. Len(lists) : cur'[i] = IF i = mi + 1 THEN Answer ELSE cur[i]
  <2>1. Len(cur) = Len(lists)
    BY <1>1 DEF Live, Shape
  <2> QED  BY <1>1, <1>2, <1>3, <2>1, ExceptSeq DEF TypeOK
<1>6. TypeOK'
  BY <1>1, <1>2, <1>3, <1>5, Numbers DEF TypeOK
<1>7. Shape'
  BY <1>1, <1>2, <1>5 DEF Live, Shape
<1>8. Positioned'
  <2> SUFFICES ASSUME NEW i \in 1 .. Len(lists)
               PROVE  /\ cur'[i] \in lists[i] \cup {NumDocs}
                      /\ \A d \in lists[i] : d >= Answer => d >= cur'[i]
    BY <1>2 DEF Positioned
  <2>1. \A d \in lists[i] : d \in Nat
    BY <1>1, Numbers, Universe
  <2>2. CASE i = mi + 1
    BY <1>3, <1>5, <2>2
  <2>3. CASE i # mi + 1
    <3>1. cur'[i] = cur[i]
      BY <1>5, <2>3
    <3>2. /\ cur[i] \in lists[i] \cup {NumDocs}
          /\ \A d \in lists[i] : d >= cand => d >= cur[i]
      BY <1>1 DEF Live, Positioned
    <3>3. \A d \in lists[i] : d >= Answer => d >= cand
      BY <1>4, <2>1
    <3> QED  BY <3>1, <3>2, <3>3
  <2> QED  BY <2>2, <2>3
<1>9. Agreeing'
  BY <1>2 DEF Agreeing
<1>10. Reported'
  <2>1. \A d \in Common(lists) : d \in lists[mi + 1] /\ d \in Nat
    BY <1>1, <1>3, Numbers, Universe DEF Common
  <2>2. \A d \in Common(lists) : d < cand <=> d < Answer
    BY <1>3, <1>4, <2>1
  <2>3. {d \in Common(lists) : d < cand} = {d \in Common(lists) : d < Answer}
    BY <2>2
  <2> QED  BY <1>1, <1>2, <2>3 DEF Live, Reported
<1> QED
  BY <1>1, <1>2, <1>6, <1>7, <1>8, <1>9, <1>10 DEF IInv, Live, Settled

LEMMA ReturnPreserves ==
    ASSUME IInv, Return
    PROVE  IInv'
<1>1. TypeOK /\ Live /\ ~LoopCondition
  BY DEF IInv, Return
<1>2. pc' = "at" /\ UNCHANGED <<lists, cur, cand, mi, val, out>>
  BY DEF Return
<1>3. mi = Len(lists) \/ cand = NumDocs
  <2>1. val = 0 \/ val = cand
    BY <1>1 DEF Live, Shape
  <2>2. NumDocs > 0 /\ NumDocs \in Nat
    BY NumDocsAssumption
  <2> QED  BY <1>1, <2>1, <2>2, Numbers DEF LoopCondition
<1>4. TypeOK' /\ Shape' /\ Positioned' /\ Agreeing' /\ Reported' /\ Ascending(out)'
  BY <1>1, <1>2
     DEF IInv, Live, TypeOK, Shape, Positioned, Agreeing, Reported, Ascending
<1>5. Settled'
  BY <1>2, <1>3 DEF Settled
<1> QED  BY <1>2, <1>4, <1>5 DEF IInv, Live

LEMMA AdvancePreserves ==
    ASSUME IInv, Advance
    PROVE  IInv'
<1> DEFINE after == NextAfter(lists[1], cand)
<1>1. TypeOK /\ Live /\ pc = "at" /\ HasNext(cand)
  BY DEF IInv, Advance
<1>2. cand \in Common(lists) /\ cur[1] = cand /\ cand \in DocIds /\ cand \in Nat
  BY <1>1, AtCandidate, Universe
<1>3. /\ out' = Append(out, cand) /\ cur' = [cur EXCEPT ![1] = after]
      /\ cand' = after /\ mi' = 1 /\ val' = 0 /\ pc' = "next" /\ lists' = lists
  BY <1>2 DEF Advance
<1>4. 1 \in 1 .. Len(lists) /\ Len(cur) = Len(lists)
  BY <1>1, Numbers DEF Live, Shape
<1>5. /\ after \in CursorValues
      /\ after \in lists[1] \cup {NumDocs}
      /\ after > cand
      /\ \A d \in lists[1] : d > cand => after <= d
  BY <1>1, <1>2, <1>4, Numbers, NextAfterFacts
<1> HIDE DEF after
<1>6. after \in Nat
  BY <1>5, Universe
<1>7. /\ cur' \in Seq(CursorValues)
      /\ Len(cur') = Len(cur)
      /\ \A i \in 1 .. Len(lists) : cur'[i] = IF i = 1 THEN after ELSE cur[i]
  BY <1>1, <1>3, <1>4, <1>5, ExceptSeq DEF TypeOK
<1>8. out' \in Seq(DocIds)
  BY <1>1, <1>2, <1>3, AppendProperties DEF TypeOK
<1>9. TypeOK'
  BY <1>1, <1>3, <1>4, <1>5, <1>7, <1>8, Numbers, NumDocsAssumption
     DEF TypeOK, CursorValues
<1>10. Shape'
  BY <1>1, <1>3, <1>7 DEF Live, Shape
<1>11. Positioned'
  <2> SUFFICES ASSUME NEW i \in 1 .. Len(lists)
               PROVE  /\ cur'[i] \in lists[i] \cup {NumDocs}
                      /\ \A d \in lists[i] : d >= after => d >= cur'[i]
    BY <1>3 DEF Positioned
  <2>1. \A d \in lists[i] : d \in Nat
    BY <1>1, Numbers, Universe
  <2>2. CASE i = 1
    BY <1>5, <1>7, <2>2
  <2>3. CASE i # 1
    <3>1. cur'[i] = cur[i]
      BY <1>7, <2>3
    <3>2. /\ cur[i] \in lists[i] \cup {NumDocs}
          /\ \A d \in lists[i] : d >= cand => d >= cur[i]
      BY <1>1 DEF Live, Positioned
    <3>3. \A d \in lists[i] : d >= after => d >= cand
      BY <1>2, <1>5, <1>6, <2>1
    <3> QED  BY <3>1, <3>2, <3>3
  <2> QED  BY <2>2, <2>3
<1>12. Agreeing'
  BY <1>3, <1>4, <1>7 DEF Agreeing
<1>13. Range(out') = Range(out) \cup {cand}
  BY <1>1, <1>2, <1>3, AppendRange DEF TypeOK
<1>14. Reported'
  <2>1. \A d \in Common(lists) : d \in lists[1] /\ d \in Nat
    BY <1>1, <1>4, Numbers, Universe DEF Common
  <2>2. \A d \in Common(lists) : d < after <=> d < cand \/ d = cand
    BY <1>2, <1>5, <1>6, <2>1
  <2>3. Range(out) = {d \in Common(lists) : d < cand}
    BY <1>1 DEF Live, Reported
  <2>4. {d \in Common(lists) : d < after}
           = {d \in Common(lists) : d < cand} \cup {cand}
    BY <1>2, <2>2
  <2> QED  BY <1>3, <1>13, <2>3, <2>4 DEF Reported
<1>15. Ascending(out')
  <2>1. \A d \in Range(out) : d < cand
    BY <1>1 DEF Live, Reported
  <2> QED  BY <1>1, <1>2, <1>3, <2>1, AppendAscending DEF IInv, TypeOK
<1> QED
  BY <1>3, <1>9, <1>10, <1>11, <1>12, <1>14, <1>15 DEF IInv, Live, Settled

LEMMA DropPreserves ==
    ASSUME IInv, Drop
    PROVE  IInv'
<1>1. /\ pc' = "none" /\ lists' = <<>> /\ cur' = <<>> /\ cand' = 0
      /\ mi' = 0 /\ val' = 0 /\ out' = <<>>
  BY DEF Drop
<1>2. TypeOK'
  BY <1>1, EmptySeq, NumDocsAssumption DEF TypeOK, CursorValues
<1>3. Ascending(out')
  BY <1>1 DEF Ascending
<1> QED  BY <1>1, <1>2, <1>3 DEF IInv

-----------------------------------------------------------------------------
(***************************************************************************)
(* The invariant holds of every reachable state.                           *)
(***************************************************************************)
LEMMA InitHolds == Init => IInv
BY EmptySeq, NumDocsAssumption DEF Init, IInv, TypeOK, CursorValues, Ascending

LEMMA StepPreserves == IInv /\ [Next]_vars => IInv'
<1> SUFFICES ASSUME IInv, [Next]_vars
             PROVE  IInv'
  OBVIOUS
<1>1. CASE Construct  BY <1>1, ConstructPreserves
<1>2. CASE Agree      BY <1>2, AgreePreserves
<1>3. CASE Disagree   BY <1>3, DisagreePreserves
<1>4. CASE Return     BY <1>4, ReturnPreserves
<1>5. CASE Advance    BY <1>5, AdvancePreserves
<1>6. CASE Drop       BY <1>6, DropPreserves
<1>7. CASE UNCHANGED vars
  BY <1>7 DEF vars, IInv, TypeOK, Live, Shape, Positioned, Agreeing,
              Reported, Settled, Ascending
<1> QED
  BY <1>1, <1>2, <1>3, <1>4, <1>5, <1>6, <1>7 DEF Next

LEMMA Inductive == Spec => []IInv
BY InitHolds, StepPreserves, PTL DEF Spec

(***************************************************************************)
(* The variables keep their types: a candidate and a cursor never leave    *)
(* the identifiers and the sentinel, m_i never passes the last list.       *)
(***************************************************************************)
THEOREM TypeCorrect == Spec => []TypeOK
<1>1. IInv => TypeOK
  BY DEF IInv
<1> QED  BY <1>1, Inductive, PTL

(***************************************************************************)
(* The owner sees exactly the common members, none missed and none added.  *)
(***************************************************************************)
THEOREM Exactness == Spec => []ReportsExactly
<1>1. IInv => ReportsExactly
  <2> SUFFICES ASSUME IInv, pc = "at"
               PROVE  Range(out) \cup ({cand} \cap DocIds)
                        = {d \in Common(lists) : d <= cand}
    BY DEF ReportsExactly
  <2>1. TypeOK /\ Range(out) = {d \in Common(lists) : d < cand}
    BY DEF IInv, Live, Reported
  <2>2. \A d \in Common(lists) : d \in DocIds /\ d \in Nat /\ d < NumDocs
    BY Universe DEF Common
  <2>3. cand \in Nat /\ cand <= NumDocs /\ cand \in CursorValues /\ NumDocs \in Nat
    BY <2>1, Numbers, NumDocsAssumption DEF TypeOK
  <2>4. CASE cand < NumDocs
    <3>1. cand \in Common(lists) /\ cand \in DocIds
      BY <2>4, AtCandidate DEF HasNext
    <3>2. \A d \in Common(lists) : d <= cand <=> d < cand \/ d = cand
      BY <2>2, <2>3
    <3>3. {d \in Common(lists) : d <= cand}
             = {d \in Common(lists) : d < cand} \cup {cand}
      BY <3>1, <3>2
    <3> QED  BY <2>1, <3>1, <3>3
  <2>5. CASE ~(cand < NumDocs)
    <3>1. cand \notin DocIds
      BY <2>5, Universe
    <3>2. {d \in Common(lists) : d <= cand} = {d \in Common(lists) : d < cand}
      BY <2>2, <2>3, <2>5
    <3> QED  BY <2>1, <3>1, <3>2
  <2> QED  BY <2>4, <2>5
<1> QED  BY <1>1, Inductive, PTL

(***************************************************************************)
(* The completions are reported in strictly ascending order.               *)
(***************************************************************************)
THEOREM Order == Spec => []ReportsAscending
<1>1. IInv => ReportsAscending
  <2> SUFFICES ASSUME IInv
               PROVE  ReportsAscending
    OBVIOUS
  <2>1. Ascending(out)
    BY DEF IInv
  <2>2. ASSUME pc = "at", NEW i \in DOMAIN out  PROVE out[i] < cand
    <3>1. Range(out) = {d \in Common(lists) : d < cand}
      BY <2>2 DEF IInv, Live, Reported
    <3>2. out[i] \in Range(out)
      BY DEF Range
    <3> QED  BY <3>1, <3>2
  <2> QED  BY <2>1, <2>2 DEF ReportsAscending
<1> QED  BY <1>1, Inductive, PTL

(***************************************************************************)
(* No cursor is ever asked for a member it has already passed.             *)
(***************************************************************************)
THEOREM ForwardOnly == Spec => []NeverSeeksBackward
<1>1. IInv => NeverSeeksBackward
  <2> SUFFICES ASSUME IInv, pc = "next", LoopCondition
               PROVE  \A d \in lists[mi + 1] : d >= cand => d >= cur[mi + 1]
    BY DEF NeverSeeksBackward
  <2>1. mi + 1 \in 1 .. Len(lists) /\ Positioned
    BY InLoop DEF IInv, Live
  <2> QED  BY <2>1 DEF Positioned
<1> QED  BY <1>1, Inductive, PTL

(***************************************************************************)
(* operator++ always finds the first cursor on the candidate.              *)
(***************************************************************************)
THEOREM FirstCursor == Spec => []FirstCursorAtCandidate
<1>1. IInv => FirstCursorAtCandidate
  BY AtCandidate DEF FirstCursorAtCandidate
<1> QED  BY <1>1, Inductive, PTL

-----------------------------------------------------------------------------
(***************************************************************************)
(* Reading the candidate is the abstract Emit: the candidate is the least  *)
(* common member that has not been reported.                               *)
(***************************************************************************)
LEMMA CandidateIsLeastPending ==
    ASSUME IInv, pc = "at", HasNext(cand)
    PROVE  /\ cand \in Common(lists) \ Range(out)
           /\ Least(Common(lists) \ Range(out)) = cand
<1> DEFINE P == Common(lists) \ Range(out)
<1>1. TypeOK /\ Range(out) = {d \in Common(lists) : d < cand}
  BY DEF IInv, Live, Reported
<1>2. cand \in Common(lists) /\ cand \in Nat
  BY <1>1, AtCandidate, Numbers
<1>3. \A d \in Common(lists) : d \in Nat
  BY Universe DEF Common
<1>4. cand \in P /\ \A d \in P : d >= cand /\ d \in Nat
  BY <1>1, <1>2, <1>3
<1> HIDE DEF P
<1>5. P \in SUBSET Nat /\ P # {}
  BY <1>4
<1>6. Least(P) \in P /\ \A y \in P : Least(P) <= y
  BY <1>5, LeastExists
<1>7. Least(P) <= cand /\ Least(P) >= cand /\ Least(P) \in Nat
  BY <1>4, <1>6
<1>8. Least(P) = cand
  BY <1>2, <1>7
<1> QED  BY <1>4, <1>8 DEF P

(***************************************************************************)
(* The iterator implements SortedStream on the intersection of its lists.  *)
(***************************************************************************)
THEOREM Refinement == Spec => RefinesStream
<1>1. Init => Stream!Init
  BY DEF Init, Stream!Init
<1>2. IInv /\ [Next]_vars => [Stream!Next]_(Stream!vars)
  <2> SUFFICES ASSUME IInv, [Next]_vars
               PROVE  [Stream!Next]_(Stream!vars)
    OBVIOUS
  <2>1. CASE Construct
    <3>1. pc = "none" /\ pc' = "next" /\ out' = <<>>
      BY <2>1 DEF Construct, ConstructOn
    <3>2. Common(lists)' \in SUBSET Stream!DocIds
      BY DEF Common, DocIds, Stream!DocIds
    <3>3. Stream!Open
      BY <3>1, <3>2 DEF Stream!Open
    <3> QED  BY <3>3 DEF Stream!Next
  <2>2. CASE Agree \/ Disagree \/ Return
    <3>1. pc # "none" /\ pc' # "none" /\ lists' = lists /\ out' = out
      BY <2>2 DEF Agree, Disagree, Return
    <3> QED  BY <3>1 DEF Stream!vars, Common
  <2>3. CASE Advance
    <3>1. /\ pc = "at" /\ HasNext(cand) /\ pc' = "next"
          /\ lists' = lists /\ out' = Append(out, cand)
      BY <2>3 DEF Advance
    <3>2. /\ cand \in Common(lists) \ Range(out)
          /\ Least(Common(lists) \ Range(out)) = cand
      BY <3>1, CandidateIsLeastPending
    <3>3. Common(lists)' = Common(lists)
      BY <3>1 DEF Common
    <3>4. Stream!Pending = Common(lists) \ Range(out)
      BY <3>1 DEF Stream!Pending, Stream!Range, Range
    <3>5. Stream!Least(Stream!Pending) = cand
      BY <3>2, <3>4 DEF Least, Stream!Least
    <3>6. Stream!Emit
      BY <3>1, <3>2, <3>3, <3>4, <3>5 DEF Stream!Emit
    <3> QED  BY <3>6 DEF Stream!Next
  <2>4. CASE Drop
    <3>1. pc = "at" /\ pc' = "none" /\ out' = <<>>
      BY <2>4 DEF Drop
    <3>2. Stream!Drop
      BY <3>1 DEF Stream!Drop
    <3> QED  BY <3>2 DEF Stream!Next
  <2>5. CASE UNCHANGED vars
    BY <2>5 DEF vars, Stream!vars, Common
  <2> QED
    BY <2>1, <2>2, <2>3, <2>4, <2>5 DEF Next
<1> QED
  BY <1>1, <1>2, Inductive, PTL DEF Spec, RefinesStream, Stream!Spec

-----------------------------------------------------------------------------
(***************************************************************************)
(* The inductive invariant.  While the loop runs, the lists are those of   *)
(* the query's terms (Joined), the scores are the matches it has left      *)
(* behind (FilledSoFar) and there is room for one more; when it has        *)
(* stopped, what is missing among the scores is worse than they are, and   *)
(* only missing if there are k of them (FilledBest).                       *)
(***************************************************************************)
Joined == Common(lists) = {d \in DocIds : terms \subseteq corpus[d]}

FilledSoFar == results < k /\ Filled = Target \cap Range(out)

FilledBest ==
    /\ Filled \subseteq Target
    /\ \A d \in Target \ Filled : results = k /\ \A s \in Filled : s < d

Frame ==
    /\ phase = "search" <=> pc # "none"
    /\ phase = "search" => Joined /\ FilledSoFar
    /\ phase = "extract" => FilledBest

SInv ==
    /\ IInv
    /\ QueryTypeOK
    /\ ScoresSorted
    /\ Frame

(***************************************************************************)
(* What the types say of the numbers.                                      *)
(***************************************************************************)
LEMMA PoolNumbers ==
    ASSUME QueryTypeOK
    PROVE  /\ results \in Nat /\ k \in Nat /\ MaxK \in Nat
           /\ results <= k /\ k <= MaxK /\ k > 0
           /\ \A i \in 0 .. results - 1 :
                  i \in 0 .. MaxK - 1 /\ scores[i] \in DocIds /\ scores[i] \in Nat
           /\ Filled \subseteq DocIds
<1>1. /\ results \in Nat /\ k \in Nat /\ MaxK \in Nat
      /\ results <= k /\ k <= MaxK /\ k > 0
  BY MaxKAssumption DEF QueryTypeOK, PoolTypeOK
<1>2. scores \in [0 .. MaxK - 1 -> DocIds]
  BY DEF QueryTypeOK, PoolTypeOK, Scores
<1>3. \A i \in 0 .. results - 1 : i \in 0 .. MaxK - 1 /\ scores[i] \in DocIds
  BY <1>1, <1>2
<1>4. \A d \in DocIds : d \in Nat
  BY Universe
<1> QED  BY <1>1, <1>3, <1>4 DEF Filled

(***************************************************************************)
(* Every term of the dictionary has a posting list, and the completions    *)
(* that a query matches hold all of its terms.                             *)
(***************************************************************************)
LEMMA PostingIsList ==
    ASSUME corpus \in Corpora, NEW t \in TermIds
    PROVE  Posting(corpus, t) \in PostingLists
BY DEF Corpora, Posting, PostingLists

LEMMA TargetInJoin ==
    ASSUME NEW d \in Target
    PROVE  d \in DocIds /\ terms \subseteq corpus[d]
BY DEF Target, Matches

(***************************************************************************)
(* The forward index decides whether a common completion matches.          *)
(***************************************************************************)
LEMMA IntersectsDecides ==
    ASSUME QueryTypeOK, phase # "idle", NEW d \in DocIds, terms \subseteq corpus[d]
    PROVE  Intersects(corpus, d, rng) <=> d \in Target
<1>1. corpus[d] \subseteq TermIds
  BY DEF QueryTypeOK, Corpora
<1>2. /\ NumTerms \in Nat
      /\ rng.begin \in TermIds /\ rng.end \in TermIds
  BY NumTermsAssumption DEF QueryTypeOK, TermRanges
<1>3. \A t \in corpus[d] : Contains(rng, t) <=> t \in rng.begin .. rng.end
  BY <1>1, <1>2 DEF Contains, TermIds
<1>4. d \in Target <=> \E t \in rng.begin .. rng.end : t \in corpus[d]
  BY DEF Target, Matches
<1> QED  BY <1>3, <1>4 DEF Intersects

(***************************************************************************)
(* A score is added behind the others.                                     *)
(***************************************************************************)
LEMMA RecordAdds ==
    ASSUME QueryTypeOK, results < k, NEW d \in DocIds, Record(d)
    PROVE  /\ scores' \in Scores
           /\ results' = results + 1 /\ results' \in 0 .. k' /\ k' = k
           /\ reply' = reply
           /\ Filled' = Filled \cup {d}
           /\ ScoresSorted /\ (\A s \in Filled : s < d) => ScoresSorted'
<1>1. /\ results \in Nat /\ k \in Nat /\ MaxK \in Nat /\ k <= MaxK
  BY PoolNumbers
<1>2. /\ scores' = [scores EXCEPT ![results] = d]
      /\ results' = results + 1 /\ k' = k /\ reply' = reply
  BY DEF Record
<1>3. scores \in [0 .. MaxK - 1 -> DocIds] /\ results \in 0 .. MaxK - 1
  BY <1>1 DEF QueryTypeOK, PoolTypeOK, Scores
<1>4. scores' \in Scores
  BY <1>2, <1>3 DEF Scores
<1>5. /\ scores'[results] = d
      /\ \A i \in 0 .. results - 1 : scores'[i] = scores[i]
  BY <1>1, <1>2, <1>3
<1>6. \A i : i \in 0 .. results' - 1 <=> i \in 0 .. results - 1 \/ i = results
  BY <1>1, <1>2
<1>7. Filled' = Filled \cup {d}
  BY <1>5, <1>6 DEF Filled
<1>8. ASSUME ScoresSorted, \A s \in Filled : s < d
      PROVE  ScoresSorted'
  <2> SUFFICES ASSUME NEW i \in 0 .. results' - 1, NEW j \in 0 .. results' - 1, i < j
               PROVE  scores'[i] < scores'[j]
    BY DEF ScoresSorted
  <2>1. i \in 0 .. results - 1
    BY <1>1, <1>2
  <2>2. CASE j \in 0 .. results - 1
    BY <2>1, <2>2, <1>5, <1>8 DEF ScoresSorted
  <2>3. CASE j = results
    <3>1. scores[i] \in Filled
      BY <2>1 DEF Filled
    <3> QED  BY <2>1, <2>3, <3>1, <1>5, <1>8
  <2> QED  BY <2>2, <2>3, <1>6
<1> QED  BY <1>1, <1>2, <1>4, <1>7, <1>8

-----------------------------------------------------------------------------
(***************************************************************************)
(* A query constructs an iterator on the lists of its terms.               *)
(***************************************************************************)
LEMMA PrefixSize ==
    ASSUME NEW prefix \in Prefixes
    PROVE  /\ Range(prefix) \in SUBSET TermIds
           /\ Cardinality(Range(prefix)) \in 1 .. MaxTerms
<1>1. PICK n \in 1 .. MaxTerms : prefix \in [1 .. n -> TermIds]
  BY DEF Prefixes
<1>2. MaxTerms \in Nat /\ n \in Nat /\ n >= 1 /\ n <= MaxTerms
  BY <1>1, MaxTermsAssumption
<1> DEFINE T == Range(prefix)
<1>3. prefix \in Surjection(1 .. n, T)
  BY <1>1 DEF Range, Surjection
<1>4. IsFiniteSet(1 .. n) /\ Cardinality(1 .. n) = n
  BY <1>2, FS_Interval
<1>5. IsFiniteSet(T) /\ Cardinality(T) <= n
  BY <1>3, <1>4, FS_Surjection
<1>6. prefix[1] \in T
  BY <1>1, <1>2 DEF Range
<1>7. Cardinality(T) \in Nat /\ Cardinality(T) # 0
  BY <1>5, <1>6, FS_EmptySet, FS_CardinalityType
<1>8. T \in SUBSET TermIds
  BY <1>1 DEF Range
<1> QED  BY <1>2, <1>5, <1>7, <1>8

LEMMA QueryConstructs ==
    ASSUME QueryTypeOK, Query
    PROVE  /\ Construct /\ pc' # "none" /\ out' = <<>>
           /\ Joined'
<1>1. PICK prefix \in Prefixes :
          /\ Ask(Range(prefix))
          /\ \E order \in Orders(Range(prefix)) :
              LET ls == [i \in DOMAIN order |-> Posting(corpus, order[i])]
              IN  ShortestFirst(ls) /\ ConstructOn(ls)
  BY DEF Query
<1> DEFINE T == Range(prefix)
           m == Cardinality(T)
<1>2. PICK order \in Orders(T) :
          LET ls == [i \in DOMAIN order |-> Posting(corpus, order[i])]
          IN  ShortestFirst(ls) /\ ConstructOn(ls)
  BY <1>1
<1> DEFINE ls == [i \in DOMAIN order |-> Posting(corpus, order[i])]
<1>3. order \in [1 .. m -> T] /\ Range(order) = T
  BY DEF Orders
<1>4. T \in SUBSET TermIds /\ m \in 1 .. MaxTerms
  BY PrefixSize
<1>5. \A t \in T : Posting(corpus, t) \in PostingLists
  BY <1>4, PostingIsList DEF QueryTypeOK
<1> HIDE DEF m, T
<1>6. ls \in [1 .. m -> PostingLists]
  BY <1>3, <1>5
<1>7. ConstructOn(ls) /\ ShortestFirst(ls)
  BY <1>2
<1>8. Construct
  BY <1>4, <1>6, <1>7 DEF Construct
<1>9. lists' = ls /\ terms' = T /\ corpus' = corpus /\ pc' = "next" /\ out' = <<>>
  BY <1>1, <1>7 DEF ConstructOn, Ask, T
<1>10. \A d \in DocIds : d \in Common(ls) <=> T \subseteq corpus[d]
  <2> SUFFICES ASSUME NEW d \in DocIds
               PROVE  d \in Common(ls) <=> T \subseteq corpus[d]
    OBVIOUS
  <2>1. d \in Common(ls) <=> \A i \in 1 .. m : order[i] \in corpus[d]
    BY <1>3 DEF Common, Posting
  <2>2. \A t : t \in T <=> \E i \in 1 .. m : order[i] = t
    BY <1>3 DEF Range
  <2> QED  BY <2>1, <2>2
<1>11. Common(ls) = {d \in DocIds : T \subseteq corpus[d]}
  BY <1>10 DEF Common
<1>12. Joined'
  <2>1. Common(lists)' = Common(ls)
    BY <1>9 DEF Common
  <2> QED  BY <1>9, <1>11, <2>1 DEF Joined
<1> QED  BY <1>8, <1>9, <1>12

(***************************************************************************)
(* The steps of a search are steps of the iterator, or leave it alone.     *)
(***************************************************************************)
LEMMA StepOfIterator ==
    ASSUME QueryTypeOK, [SearchNext]_searchVars
    PROVE  [Next]_vars
<1>1. CASE Query
  BY <1>1, QueryConstructs DEF Next
<1>2. CASE Iterate
  BY <1>2 DEF Iterate, Next
<1>3. CASE Skip \/ Keep
  BY <1>3 DEF Skip, Keep, Next
<1>4. CASE KeepLast \/ Exhausted
  BY <1>4 DEF KeepLast, Exhausted, Next
<1>5. CASE Answered
  BY <1>5 DEF Answered
<1>6. CASE UNCHANGED searchVars
  BY <1>6 DEF searchVars
<1> QED  BY <1>1, <1>2, <1>3, <1>4, <1>5, <1>6 DEF SearchNext, Run

-----------------------------------------------------------------------------
(***************************************************************************)
(* Every step of a search keeps the invariant.                             *)
(***************************************************************************)
LEMMA QueryKeeps ==
    ASSUME SInv, Query
    PROVE  SInv'
<1>1. IInv /\ QueryTypeOK
  BY DEF SInv
<1>2. /\ Construct /\ pc' # "none" /\ out' = <<>> /\ Joined'
  BY <1>1, QueryConstructs
<1>3. IInv'
  BY <1>1, <1>2, ConstructPreserves
<1>4. PICK prefix \in Prefixes : Ask(Range(prefix))
  BY DEF Query
<1>5. /\ phase' = "search" /\ k' \in 1 .. MaxK /\ results' = 0 /\ reply' = <<>>
      /\ UNCHANGED <<scores, corpus>>
      /\ terms' = Range(prefix) /\ rng' \in TermRanges
  BY <1>4 DEF Ask, StartQuery
<1>6. QueryTypeOK'
  <2>1. k' \in Nat /\ 0 \in 0 .. k'
    BY <1>5
  <2>2. terms' \in SUBSET TermIds
    BY <1>5, PrefixSize
  <2>3. reply' \in Seq(DocIds)
    BY <1>5, EmptySeq
  <2> QED  BY <1>1, <1>5, <2>1, <2>2, <2>3 DEF QueryTypeOK, PoolTypeOK, Scores, Corpora
<1>7. Filled' = {} /\ ScoresSorted'
  BY <1>5 DEF Filled, ScoresSorted
<1>8. Range(out)' = {}
  BY <1>2 DEF Range
<1>9. FilledSoFar'
  BY <1>5, <1>7, <1>8 DEF FilledSoFar
<1> QED  BY <1>2, <1>3, <1>5, <1>6, <1>7, <1>9 DEF SInv, Frame

LEMMA IterateKeeps ==
    ASSUME SInv, Iterate \/ UNCHANGED searchVars
    PROVE  SInv'
<1>1. [Next]_vars /\ UNCHANGED queryVars
  BY DEF Iterate, searchVars, Next
<1>2. IInv'
  BY <1>1, StepPreserves DEF SInv
<1>3. UNCHANGED <<lists, out>> /\ (pc # "none" <=> pc' # "none")
  BY DEF Iterate, Agree, Disagree, Return, searchVars, vars
<1>4. UNCHANGED <<phase, scores, k, results, reply, corpus, terms, rng>>
  BY <1>1 DEF queryVars, poolVars
<1> QED
  BY <1>2, <1>3, <1>4
  DEF SInv, QueryTypeOK, PoolTypeOK, Scores, Corpora, ScoresSorted, Frame, Joined,
      Common, FilledSoFar, FilledBest, Filled, Target, Range

(***************************************************************************)
(* What the loop knows when control is with it.                            *)
(***************************************************************************)
LEMMA OwnerKnows ==
    ASSUME SInv, phase = "search", pc = "at"
    PROVE  /\ Range(out) = {d \in DocIds : terms \subseteq corpus[d] /\ d < cand}
           /\ results < k
           /\ Filled = Target \cap Range(out)
           /\ \A s \in Filled : s < cand
<1>1. IInv /\ Joined /\ FilledSoFar
  BY DEF SInv, Frame
<1>2. Range(out) = {d \in Common(lists) : d < cand}
  BY <1>1 DEF IInv, Live, Reported
<1>3. Range(out) = {d \in DocIds : terms \subseteq corpus[d] /\ d < cand}
  BY <1>1, <1>2 DEF Joined
<1> QED  BY <1>1, <1>3 DEF FilledSoFar

(***************************************************************************)
(* The completion that is read and left behind is the candidate.           *)
(***************************************************************************)
LEMMA AdvanceReports ==
    ASSUME IInv, Advance
    PROVE  /\ Range(out)' = Range(out) \cup {cand}
           /\ lists' = lists /\ pc' = "next" /\ pc = "at" /\ HasNext(cand)
<1>1. TypeOK /\ cand \in DocIds
  BY AtCandidate DEF IInv, Advance
<1>2. out' = Append(out, cand)
  BY DEF Advance
<1>3. Range(out') = Range(out) \cup {cand}
  BY <1>1, <1>2, AppendRange DEF TypeOK
<1> QED  BY <1>3 DEF Advance, Range

LEMMA CandidateJoins ==
    ASSUME SInv, Found
    PROVE  /\ cand \in DocIds /\ terms \subseteq corpus[cand]
           /\ Intersects(corpus, cand, rng) <=> cand \in Target
<1>1. IInv /\ QueryTypeOK /\ Joined /\ phase = "search"
  BY DEF SInv, Frame, Found
<1>2. cand \in Common(lists) /\ cand \in DocIds
  BY <1>1, AtCandidate DEF Found
<1>3. terms \subseteq corpus[cand]
  BY <1>1, <1>2 DEF Joined
<1> QED  BY <1>1, <1>2, <1>3, IntersectsDecides

LEMMA SkipKeeps ==
    ASSUME SInv, Skip
    PROVE  SInv'
<1>1. /\ Found /\ ~Intersects(corpus, cand, rng) /\ Advance
      /\ phase = "search" /\ pc = "at"
      /\ UNCHANGED <<phase, scores, k, results, reply, corpus, terms, rng>>
  BY DEF Skip, Found, queryVars, poolVars
<1>2. IInv'
  BY <1>1, AdvancePreserves DEF SInv
<1>3. cand \notin Target
  BY <1>1, CandidateJoins
<1>4. /\ Range(out)' = Range(out) \cup {cand}
      /\ lists' = lists /\ pc' = "next"
  BY <1>1, AdvanceReports DEF SInv
<1>5. /\ QueryTypeOK' /\ ScoresSorted' /\ Joined' /\ Filled' = Filled /\ Target' = Target
  BY <1>1, <1>4
  DEF SInv, QueryTypeOK, PoolTypeOK, Scores, Corpora, ScoresSorted, Frame, Joined,
      Common, Filled, Target, Matches
<1>6. FilledSoFar'
  BY <1>1, <1>3, <1>4, <1>5, OwnerKnows DEF FilledSoFar
<1> QED  BY <1>1, <1>2, <1>4, <1>5, <1>6 DEF SInv, Frame

(***************************************************************************)
(* A completion that matches becomes the last score.                       *)
(***************************************************************************)
LEMMA HitRecords ==
    ASSUME SInv, Hit, Record(cand), UNCHANGED <<corpus, terms, rng>>,
           phase' \in {"search", "extract"}
    PROVE  /\ QueryTypeOK' /\ ScoresSorted'
           /\ cand \in Target /\ Target' = Target
           /\ Filled' = Filled \cup {cand}
           /\ results' = results + 1 /\ k' = k /\ results \in Nat /\ k \in Nat
<1>1. QueryTypeOK /\ Found /\ phase = "search" /\ pc = "at" /\ ScoresSorted
  BY DEF SInv, Hit, Found
<1>2. cand \in Target /\ cand \in DocIds
  BY <1>1, CandidateJoins DEF Hit
<1>3. results < k /\ \A s \in Filled : s < cand
  BY <1>1, OwnerKnows
<1>4. /\ scores' \in Scores
      /\ results' = results + 1 /\ results' \in 0 .. k' /\ k' = k
      /\ reply' = reply
      /\ Filled' = Filled \cup {cand}
      /\ ScoresSorted'
  BY <1>1, <1>2, <1>3, RecordAdds
<1>5. QueryTypeOK'
  BY <1>1, <1>4 DEF QueryTypeOK, PoolTypeOK, Corpora, Scores
<1>6. Target' = Target
  BY <1>1 DEF Target, Matches
<1> QED  BY <1>1, <1>2, <1>4, <1>5, <1>6, PoolNumbers

LEMMA KeepKeeps ==
    ASSUME SInv, Keep
    PROVE  SInv'
<1>1. /\ Hit /\ Record(cand) /\ Advance /\ results + 1 # k
      /\ UNCHANGED <<phase, corpus, terms, rng>>
      /\ phase = "search" /\ pc = "at"
  BY DEF Keep, Hit, Found
<1>2. IInv'
  BY <1>1, AdvancePreserves DEF SInv
<1>3. /\ QueryTypeOK' /\ ScoresSorted'
      /\ cand \in Target /\ Target' = Target
      /\ Filled' = Filled \cup {cand}
      /\ results' = results + 1 /\ k' = k /\ results \in Nat /\ k \in Nat
  BY <1>1, HitRecords
<1>4. /\ Range(out)' = Range(out) \cup {cand}
      /\ lists' = lists /\ pc' = "next"
  BY <1>1, AdvanceReports DEF SInv
<1>5. Joined'
  BY <1>1, <1>4 DEF SInv, Frame, Joined, Common
<1>6. results < k /\ Filled = Target \cap Range(out)
  BY <1>1, OwnerKnows
<1>7. FilledSoFar'
  <2>1. results' < k'
    BY <1>1, <1>3, <1>6
  <2>2. Filled' = Target' \cap Range(out)'
    BY <1>3, <1>4, <1>6
  <2> QED  BY <2>1, <2>2 DEF FilledSoFar
<1> QED  BY <1>1, <1>2, <1>3, <1>4, <1>5, <1>7 DEF SInv, Frame

(***************************************************************************)
(* The loop stops at k results: the matches that are missing come later.   *)
(***************************************************************************)
LEMMA KeepLastKeeps ==
    ASSUME SInv, KeepLast
    PROVE  SInv'
<1>1. /\ Hit /\ Record(cand) /\ Drop /\ results + 1 = k
      /\ UNCHANGED <<corpus, terms, rng>> /\ phase' = "extract"
      /\ phase = "search" /\ pc = "at"
  BY DEF KeepLast, Hit, Found
<1>2. IInv' /\ pc' = "none"
  BY <1>1, DropPreserves DEF SInv, Drop
<1>3. /\ QueryTypeOK' /\ ScoresSorted'
      /\ cand \in Target /\ Target' = Target
      /\ Filled' = Filled \cup {cand}
      /\ results' = results + 1 /\ k' = k /\ results \in Nat /\ k \in Nat
  BY <1>1, HitRecords
<1>4. /\ Range(out) = {d \in DocIds : terms \subseteq corpus[d] /\ d < cand}
      /\ Filled = Target \cap Range(out)
      /\ \A s \in Filled : s < cand
  BY <1>1, OwnerKnows
<1>5. cand \in Nat
  BY Numbers DEF SInv, IInv
<1>6. ASSUME NEW d \in Target', d \notin Filled'
      PROVE  \A s \in Filled' : s < d
  <2>1. d \in DocIds /\ terms \subseteq corpus[d] /\ d \in Nat
    BY <1>3, <1>6, TargetInJoin, Universe
  <2>2. d \notin Range(out) /\ d # cand
    BY <1>3, <1>4, <1>6
  <2>3. cand < d
    BY <1>4, <1>5, <2>1, <2>2
  <2>4. \A s \in Filled : s \in Nat
    BY PoolNumbers, Universe DEF SInv
  <2> QED  BY <1>3, <1>4, <1>5, <2>1, <2>3, <2>4
<1>7. FilledBest'
  <2>1. Filled' \subseteq Target'
    BY <1>3, <1>4
  <2>2. results' = k'
    BY <1>1, <1>3
  <2> QED  BY <1>6, <2>1, <2>2 DEF FilledBest
<1> QED  BY <1>1, <1>2, <1>3, <1>7 DEF SInv, Frame

(***************************************************************************)
(* The iterator is exhausted: every match has been recorded.               *)
(***************************************************************************)
LEMMA ExhaustedKeeps ==
    ASSUME SInv, Exhausted
    PROVE  SInv'
<1>1. /\ phase = "search" /\ pc = "at" /\ ~HasNext(cand) /\ Drop /\ phase' = "extract"
      /\ UNCHANGED <<scores, k, results, reply, corpus, terms, rng>>
  BY DEF Exhausted
<1>2. IInv' /\ pc' = "none"
  BY <1>1, DropPreserves DEF SInv, Drop
<1>3. /\ QueryTypeOK' /\ ScoresSorted' /\ Filled' = Filled
  BY <1>1 DEF SInv, QueryTypeOK, PoolTypeOK, Scores, Corpora, ScoresSorted, Filled
<1>4. Target' = Target
  BY <1>1 DEF Target, Matches
<1>5. /\ Range(out) = {d \in DocIds : terms \subseteq corpus[d] /\ d < cand}
      /\ Filled = Target \cap Range(out)
  BY <1>1, OwnerKnows
<1>6. cand \in Nat /\ ~(cand < NumDocs) /\ NumDocs \in Nat
  BY <1>1, Numbers, Universe DEF SInv, IInv, HasNext
<1>7. ASSUME NEW d \in Target
      PROVE  d \in Filled
  <2>1. d \in DocIds /\ terms \subseteq corpus[d]
    BY TargetInJoin
  <2>2. d < cand
    BY <1>6, <2>1, Universe
  <2> QED  BY <1>5, <2>1, <2>2
<1>8. FilledBest'
  <2>1. Filled' = Target'
    BY <1>3, <1>4, <1>5, <1>7
  <2> QED  BY <2>1 DEF FilledBest
<1> QED  BY <1>1, <1>2, <1>3, <1>8 DEF SInv, Frame

(***************************************************************************)
(* The strings that are returned are those of the scores.                  *)
(***************************************************************************)
LEMMA ExtractedFacts ==
    ASSUME QueryTypeOK
    PROVE  /\ Extracted \in Seq(DocIds) /\ Len(Extracted) = results
           /\ DOMAIN Extracted = 1 .. results
           /\ Range(Extracted) = Filled
           /\ ScoresSorted => Ascending(Extracted)
<1>1. /\ results \in Nat
      /\ \A i \in 0 .. results - 1 : scores[i] \in DocIds
  BY PoolNumbers
<1>2. \A i \in 1 .. results : i - 1 \in 0 .. results - 1
  BY <1>1
<1>3. /\ Extracted \in [1 .. results -> DocIds]
      /\ \A i \in 1 .. results : Extracted[i] = scores[i - 1]
  BY <1>1, <1>2 DEF Extracted
<1>4. Extracted \in Seq(DocIds) /\ Len(Extracted) = results /\ DOMAIN Extracted = 1 .. results
  BY <1>1, <1>3, SeqDef
<1>5. Range(Extracted) = Filled
  <2>1. ASSUME NEW d \in Filled  PROVE  d \in Range(Extracted)
    <3>1. PICK i \in 0 .. results - 1 : d = scores[i]
      BY DEF Filled
    <3>2. i + 1 \in 1 .. results /\ (i + 1) - 1 = i
      BY <1>1
    <3>3. Extracted[i + 1] = d
      BY <1>3, <3>1, <3>2
    <3> QED  BY <1>4, <3>2, <3>3 DEF Range
  <2>2. ASSUME NEW d \in Range(Extracted)  PROVE  d \in Filled
    <3>1. PICK i \in 1 .. results : d = Extracted[i]
      BY <1>4 DEF Range
    <3> QED  BY <1>2, <1>3, <3>1 DEF Filled
  <2> QED  BY <2>1, <2>2
<1>6. ASSUME ScoresSorted, NEW i \in 1 .. results, NEW j \in 1 .. results, i < j
      PROVE  Extracted[i] < Extracted[j]
  <2>1. i - 1 < j - 1
    BY <1>1, <1>6
  <2> QED  BY <1>2, <1>3, <1>6, <2>1 DEF ScoresSorted
<1> QED  BY <1>4, <1>5, <1>6 DEF Ascending

LEMMA AnsweredKeeps ==
    ASSUME SInv, Answered
    PROVE  SInv'
<1>1. /\ UNCHANGED vars /\ phase = "extract" /\ phase' = "idle" /\ k' = 1 /\ results' = 0
      /\ UNCHANGED <<scores, corpus>> /\ terms' = {} /\ rng' = AnyRange
      /\ reply' = Extracted
  BY DEF Answered, ExtractStrings, Forget, EndQuery
<1>2. IInv' /\ pc = "none" /\ pc' = "none"
  <2>1. IInv'
    BY <1>1, StepPreserves DEF SInv
  <2> QED  BY <1>1, <2>1 DEF SInv, Frame, IInv, vars, TypeOK
<1>3. QueryTypeOK'
  <2>1. AnyRange \in TermRanges
    BY NumTermsAssumption DEF AnyRange, TermRanges, TermIds
  <2>2. 1 \in 1 .. MaxK
    BY MaxKAssumption
  <2>3. QueryTypeOK /\ Extracted \in Seq(DocIds)
    BY ExtractedFacts DEF SInv
  <2> QED  BY <1>1, <2>1, <2>2, <2>3 DEF QueryTypeOK, PoolTypeOK, Scores, Corpora
<1>4. ScoresSorted'
  BY <1>1 DEF ScoresSorted
<1> QED  BY <1>1, <1>2, <1>3, <1>4 DEF SInv, Frame

LEMMA SearchInitHolds == SearchInit => SInv
<1> SUFFICES ASSUME SearchInit
             PROVE  SInv
  OBVIOUS
<1>1. IInv /\ pc = "none"
  BY InitHolds DEF SearchInit, Init
<1>2. /\ phase = "idle" /\ scores = [i \in 0 .. MaxK - 1 |-> 0] /\ k = 1 /\ results = 0
      /\ reply = <<>> /\ corpus \in Corpora /\ terms = {} /\ rng = AnyRange
  BY DEF SearchInit, QueryInit, PoolInit
<1>3. AnyRange \in TermRanges
  BY NumTermsAssumption DEF AnyRange, TermRanges, TermIds
<1>4. 1 \in 1 .. MaxK /\ 0 \in DocIds
  BY MaxKAssumption, NumDocsAssumption DEF DocIds
<1>5. <<>> \in Seq(DocIds)
  BY EmptySeq
<1>6. QueryTypeOK
  BY <1>2, <1>3, <1>4, <1>5 DEF QueryTypeOK, PoolTypeOK, Scores
<1>7. ScoresSorted
  BY <1>2 DEF ScoresSorted
<1> QED  BY <1>1, <1>2, <1>6, <1>7 DEF SInv, Frame

LEMMA SearchStepPreserves == SInv /\ [SearchNext]_searchVars => SInv'
<1> SUFFICES ASSUME SInv, [SearchNext]_searchVars
             PROVE  SInv'
  OBVIOUS
<1>1. CASE Query      BY <1>1, QueryKeeps
<1>2. CASE Iterate    BY <1>2, IterateKeeps
<1>3. CASE Skip       BY <1>3, SkipKeeps
<1>4. CASE Keep       BY <1>4, KeepKeeps
<1>5. CASE KeepLast   BY <1>5, KeepLastKeeps
<1>6. CASE Exhausted  BY <1>6, ExhaustedKeeps
<1>7. CASE Answered   BY <1>7, AnsweredKeeps
<1>8. CASE UNCHANGED searchVars  BY <1>8, IterateKeeps
<1> QED
  BY <1>1, <1>2, <1>3, <1>4, <1>5, <1>6, <1>7, <1>8 DEF SearchNext, Run

LEMMA SearchInductive == SearchSpec => []SInv
BY SearchInitHolds, SearchStepPreserves, PTL DEF SearchSpec

-----------------------------------------------------------------------------
(***************************************************************************)
(* The buffer of scores is never written or read beyond its capacity.      *)
(***************************************************************************)
THEOREM SearchTypeCorrect == SearchSpec => []SearchTypeOK
<1>1. SInv => SearchTypeOK
  BY DEF SInv, IInv, SearchTypeOK
<1> QED  BY <1>1, SearchInductive, PTL

(***************************************************************************)
(* The scores ascend strictly, whatever an earlier query left behind them. *)
(***************************************************************************)
THEOREM SearchSorted == SearchSpec => []ScoresSorted
<1>1. SInv => ScoresSorted
  BY DEF SInv
<1> QED  BY <1>1, SearchInductive, PTL

(***************************************************************************)
(* The scores are the matches left behind, and when the loop stops before  *)
(* k it has left all of them behind.                                       *)
(***************************************************************************)
LEMMA LeftBehindIsFilled == SInv => ScoresComplete
<1> SUFFICES ASSUME SInv
             PROVE  ScoresComplete
  OBVIOUS
<1>1. phase = "search" => Filled = Target \cap Range(out)
  BY DEF SInv, Frame, FilledSoFar
<1>2. phase = "extract" /\ results < k => Filled = Target
  <2> SUFFICES ASSUME phase = "extract", results < k
               PROVE  Filled = Target
    OBVIOUS
  <2>1. FilledBest /\ QueryTypeOK
    BY DEF SInv, Frame
  <2>2. results \in Nat /\ k \in Nat
    BY <2>1, PoolNumbers
  <2>3. results # k
    BY <2>2
  <2> QED  BY <2>1, <2>3 DEF FilledBest
<1> QED  BY <1>1, <1>2 DEF ScoresComplete

(***************************************************************************)
(* On an index of type 1 no match the iterator has passed is lost.         *)
(***************************************************************************)
THEOREM Complete == SearchSpec => []ScoresComplete
BY LeftBehindIsFilled, SearchInductive, PTL

-----------------------------------------------------------------------------
(***************************************************************************)
(* What extract_strings finds is the answer promised.                      *)
(***************************************************************************)
LEMMA ExtractedIsTopK ==
    ASSUME SInv, phase = "extract"
    PROVE  Promise!IsTopK(Extracted, k, Target)
<1>1. FilledBest /\ QueryTypeOK /\ ScoresSorted
  BY DEF SInv, Frame
<1>2. /\ Len(Extracted) = results /\ DOMAIN Extracted = 1 .. results
      /\ Range(Extracted) = Filled /\ Ascending(Extracted)
  BY <1>1, ExtractedFacts
<1>3. results <= k
  BY <1>1, PoolNumbers
<1>4. \A i \in DOMAIN Extracted : Extracted[i] \in Filled
  BY <1>2 DEF Range
<1>5. Promise!Ascending(Extracted) /\ Promise!Range(Extracted) = Filled
  BY <1>2 DEF Ascending, Promise!Ascending, Range, Promise!Range
<1> QED  BY <1>1, <1>2, <1>3, <1>4, <1>5 DEF Promise!IsTopK, FilledBest

LEMMA QueryAsks ==
    ASSUME SInv, Query
    PROVE  Promise!Ask
<1>1. PICK prefix \in Prefixes : Ask(Range(prefix))
  BY DEF Query
<1>2. /\ phase = "idle" /\ phase' = "search" /\ k' \in 1 .. MaxK /\ reply' = <<>>
  BY <1>1 DEF Ask, StartQuery
<1>3. Target' \in SUBSET DocIds
  BY DEF Target, Matches
<1>4. (phase # "idle")' = TRUE
  BY <1>2
<1> QED  BY <1>2, <1>3, <1>4 DEF Promise!Ask, Promise!DocIds, DocIds

LEMMA AnsweredReplies ==
    ASSUME SInv, Answered
    PROVE  Promise!Reply
<1>1. /\ phase = "extract" /\ phase' = "idle" /\ k' = 1 /\ reply' = Extracted
  BY DEF Answered, ExtractStrings, Forget, EndQuery
<1>2. Promise!IsTopK(reply', k, Target)
  BY <1>1, ExtractedIsTopK
<1>3. Target' = {}
  BY <1>1 DEF Target
<1> QED  BY <1>1, <1>2, <1>3 DEF Promise!Reply

LEMMA LoopStutters ==
    ASSUME Iterate \/ Skip \/ Keep \/ KeepLast \/ Exhausted \/ UNCHANGED searchVars
    PROVE  UNCHANGED Promise!vars
<1>1. k' = k /\ reply' = reply /\ UNCHANGED <<corpus, terms, rng>>
  BY DEF Iterate, Skip, Keep, KeepLast, Exhausted, Record, queryVars, poolVars, searchVars
<1>2. phase' = phase \/ (phase = "search" /\ phase' = "extract")
  BY DEF Iterate, Skip, Keep, KeepLast, Exhausted, Hit, Found, queryVars, poolVars, searchVars
<1>3. (phase # "idle")' = (phase # "idle")
  BY <1>2
<1>4. Target' = Target
  BY <1>1, <1>3 DEF Target, Matches
<1> QED  BY <1>1, <1>3, <1>4 DEF Promise!vars

(***************************************************************************)
(* Conjunctive search answers every query with the k best completions that *)
(* hold all its terms and a term of its range, each one once, the best     *)
(* first: a query asks, the return replies, every other step is invisible. *)
(***************************************************************************)
THEOREM SearchRefinement == SearchSpec => RefinesTopK
<1>1. SearchInit => Promise!Init
  BY DEF SearchInit, QueryInit, PoolInit, Target, Promise!Init
<1>2. SInv /\ [SearchNext]_searchVars => [Promise!Next]_(Promise!vars)
  <2> SUFFICES ASSUME SInv, [SearchNext]_searchVars
               PROVE  [Promise!Next]_(Promise!vars)
    OBVIOUS
  <2>1. CASE Query
    BY <2>1, QueryAsks DEF Promise!Next
  <2>2. CASE Answered
    BY <2>2, AnsweredReplies DEF Promise!Next
  <2>3. CASE Iterate \/ Skip \/ Keep \/ KeepLast \/ Exhausted \/ UNCHANGED searchVars
    BY <2>3, LoopStutters
  <2> QED  BY <2>1, <2>2, <2>3 DEF SearchNext, Run
<1> QED
  BY <1>1, <1>2, SearchInductive, PTL DEF SearchSpec, RefinesTopK, Promise!Spec

-----------------------------------------------------------------------------
(***************************************************************************)
(* The invariant of the search.  A string is right when the pool is read   *)
(* because the slots below results follow the scores while it is filled.   *)
(***************************************************************************)
NothingYet == phase # "idle" => reply = <<>>

LInv ==
    /\ SInv
    /\ slots \in Buffers /\ sizes \in Buffers
    /\ SlotsFollowScores
    /\ StringsFollowScores
    /\ NothingYet

-----------------------------------------------------------------------------
(***************************************************************************)
(* As long as the slots follow the scores, decoding them and extracting    *)
(* the scores is the same.                                                 *)
(***************************************************************************)
LEMMA DecodedIsExtracted ==
    ASSUME LInv
    PROVE  Decoded = Extracted
<1>1. results \in Nat
  BY PoolNumbers DEF LInv, SInv
<1>2. \A i \in 1 .. results : i - 1 \in 0 .. results - 1
  BY <1>1
<1>3. \A i \in 1 .. results :
          (IF sizes[i - 1] = slots[i - 1] THEN slots[i - 1] ELSE Unset) = scores[i - 1]
  BY <1>2 DEF LInv, SlotsFollowScores
<1> QED  BY <1>3 DEF Decoded, Extracted

(***************************************************************************)
(* Every step is a step of the search of type 1.                           *)
(***************************************************************************)
LEMMA LexStepIsSearchStep ==
    ASSUME LInv, [LexNext]_lexVars
    PROVE  [SearchNext]_searchVars
<1>1. CASE LexQuery
  BY <1>1 DEF LexQuery, SearchNext
<1>2. CASE LexIterate \/ LexSkip \/ LexKeep \/ LexExhausted
  BY <1>2 DEF LexIterate, LexSkip, LexKeep, LexExhausted, SearchNext, Run
<1>3. CASE LexExtractStrings
  <2>1. ExtractStrings /\ UNCHANGED vars
    BY <1>3, DecodedIsExtracted DEF LexExtractStrings, ExtractStrings
  <2> QED  BY <2>1 DEF Answered, SearchNext, Run
<1>4. CASE UNCHANGED lexVars
  BY <1>4 DEF lexVars
<1> QED  BY <1>1, <1>2, <1>3, <1>4 DEF LexNext

-----------------------------------------------------------------------------
(***************************************************************************)
(* A candidate is decoded behind the results found: it disturbs no slot of *)
(* theirs, and it stays there only with its score and its size.            *)
(***************************************************************************)
LEMMA DecodeKeepsFound ==
    ASSUME LInv, Found, results < k, Decode
    PROVE  /\ slots' \in Buffers
           /\ slots'[results] = cand
           /\ \A i \in 0 .. results - 1 : slots'[i] = slots[i]
<1>1. /\ results \in Nat /\ k \in Nat /\ MaxK \in Nat /\ k <= MaxK
  BY PoolNumbers DEF LInv, SInv
<1>2. slots \in [0 .. MaxK - 1 -> 0 .. NumDocs] /\ results \in 0 .. MaxK - 1
  BY <1>1 DEF LInv, Buffers
<1>3. cand \in 0 .. NumDocs
  BY DEF LInv, SInv, IInv, TypeOK, CursorValues
<1>4. slots' = [slots EXCEPT ![results] = cand]
  BY DEF Decode
<1> QED  BY <1>1, <1>2, <1>3, <1>4 DEF Buffers

LEMMA RoomForOne ==
    ASSUME LInv, Found
    PROVE  results < k
BY DEF LInv, SInv, Frame, FilledSoFar, Found

LEMMA LexSkipKeeps ==
    ASSUME LInv, LexSkip
    PROVE  LInv'
<1>1. SInv'
  <2>1. SInv /\ Skip
    BY DEF LInv, LexSkip
  <2> QED  BY <2>1, SkipKeeps
<1>2. Found /\ Decode /\ UNCHANGED <<scores, results, reply, phase, sizes>>
  BY DEF LexSkip, Skip, queryVars, poolVars
<1>3. /\ slots' \in Buffers
      /\ \A i \in 0 .. results - 1 : slots'[i] = slots[i]
  BY <1>2, RoomForOne, DecodeKeepsFound
<1>4. SlotsFollowScores'
  BY <1>2, <1>3 DEF LInv, SlotsFollowScores
<1> QED
  BY <1>1, <1>2, <1>3, <1>4 DEF LInv, StringsFollowScores, NothingYet, Buffers

LEMMA LexKeepKeeps ==
    ASSUME LInv, LexKeep
    PROVE  LInv'
<1>1. SInv'
  BY KeepKeeps, KeepLastKeeps DEF LInv, LexKeep
<1>2. Found /\ Decode /\ Record(cand) /\ sizes' = [sizes EXCEPT ![results] = cand]
  BY DEF LexKeep, Keep, KeepLast, Hit
<1>3. phase = "search"
  BY <1>2 DEF Found
<1>4. /\ slots' \in Buffers /\ slots'[results] = cand
      /\ \A i \in 0 .. results - 1 : slots'[i] = slots[i]
  BY <1>2, RoomForOne, DecodeKeepsFound
<1>5. /\ results \in Nat /\ k \in Nat /\ MaxK \in Nat /\ k <= MaxK /\ results < k
  BY <1>2, RoomForOne, PoolNumbers DEF LInv, SInv
<1>6. results \in 0 .. MaxK - 1
  BY <1>5
<1>7. /\ sizes' \in Buffers /\ sizes'[results] = cand
      /\ \A i \in 0 .. results - 1 : sizes'[i] = sizes[i]
  <2>1. sizes \in [0 .. MaxK - 1 -> 0 .. NumDocs]
    BY DEF LInv, Buffers
  <2>2. cand \in 0 .. NumDocs
    BY DEF LInv, SInv, IInv, TypeOK, CursorValues
  <2> QED  BY <1>2, <1>5, <1>6, <2>1, <2>2 DEF Buffers
<1>8. /\ scores'[results] = cand
      /\ \A i \in 0 .. results - 1 : scores'[i] = scores[i]
      /\ results' = results + 1 /\ reply' = reply
  <2>1. scores \in [0 .. MaxK - 1 -> DocIds]
    BY DEF LInv, SInv, QueryTypeOK, PoolTypeOK, Scores
  <2> QED  BY <1>2, <1>5, <1>6, <2>1 DEF Record
<1>9. SlotsFollowScores'
  <2> SUFFICES ASSUME NEW i \in 0 .. results' - 1
               PROVE  slots'[i] = scores'[i] /\ sizes'[i] = scores'[i]
    BY DEF SlotsFollowScores
  <2>1. i \in 0 .. results - 1 \/ i = results
    BY <1>5, <1>8
  <2> QED  BY <2>1, <1>4, <1>7, <1>8 DEF LInv, SlotsFollowScores
<1>10. reply' = <<>>
  BY <1>3, <1>8 DEF LInv, NothingYet
<1> QED
  BY <1>1, <1>4, <1>7, <1>9, <1>10 DEF LInv, StringsFollowScores, NothingYet

LEMMA LexQueryKeeps ==
    ASSUME LInv, LexQuery
    PROVE  LInv'
<1>1. SInv'
  <2>1. SInv /\ Query
    BY DEF LInv, LexQuery
  <2> QED  BY <2>1, QueryKeeps
<1>2. results' = 0 /\ reply' = <<>> /\ UNCHANGED <<slots, sizes>>
  BY DEF LexQuery, Query, Ask, StartQuery
<1>3. SlotsFollowScores' /\ StringsFollowScores' /\ NothingYet'
  BY <1>2 DEF SlotsFollowScores, StringsFollowScores, NothingYet
<1> QED  BY <1>1, <1>2, <1>3 DEF LInv, Buffers

LEMMA LexQuietKeeps ==
    ASSUME LInv, LexIterate \/ LexExhausted \/ UNCHANGED lexVars
    PROVE  LInv'
<1>1. SInv'
  <2>1. [SearchNext]_searchVars
    BY LexStepIsSearchStep DEF LexNext
  <2> QED  BY <2>1, SearchStepPreserves DEF LInv
<1>2. UNCHANGED <<scores, results, reply, slots, sizes>>
  BY DEF LexIterate, Iterate, LexExhausted, Exhausted, lexVars, searchVars, queryVars, poolVars
<1>3. phase' # "idle" => phase # "idle"
  BY DEF LexIterate, Iterate, LexExhausted, Exhausted, lexVars, searchVars, queryVars, poolVars
<1> QED
  BY <1>1, <1>2, <1>3
  DEF LInv, SlotsFollowScores, StringsFollowScores, NothingYet, Buffers

LEMMA LexExtractKeeps ==
    ASSUME LInv, LexExtractStrings
    PROVE  LInv'
<1>1. SInv'
  <2>1. [SearchNext]_searchVars
    BY LexStepIsSearchStep DEF LexNext
  <2> QED  BY <2>1, SearchStepPreserves DEF LInv
<1>2. /\ results' = 0 /\ phase' = "idle" /\ reply' = Extracted
      /\ UNCHANGED <<scores, slots, sizes>>
  BY DecodedIsExtracted DEF LexExtractStrings, Forget, EndQuery
<1>3. StringsFollowScores'
  BY <1>2 DEF StringsFollowScores, Extracted
<1>4. SlotsFollowScores' /\ NothingYet'
  BY <1>2 DEF SlotsFollowScores, NothingYet
<1> QED  BY <1>1, <1>2, <1>3, <1>4 DEF LInv, Buffers

LEMMA LexInitHolds == LexInit => LInv
<1> SUFFICES ASSUME LexInit
             PROVE  LInv
  OBVIOUS
<1>1. SInv
  BY SearchInitHolds DEF LexInit
<1>2. results = 0 /\ reply = <<>>
  BY DEF LexInit, SearchInit, QueryInit, PoolInit
<1>3. Unset \in 0 .. NumDocs
  BY NumDocsAssumption DEF Unset
<1>4. slots \in Buffers /\ sizes \in Buffers
  BY <1>3 DEF LexInit, Buffers
<1> QED
  BY <1>1, <1>2, <1>4 DEF LInv, SlotsFollowScores, StringsFollowScores, NothingYet

LEMMA LexStepPreserves == LInv /\ [LexNext]_lexVars => LInv'
<1> SUFFICES ASSUME LInv, [LexNext]_lexVars
             PROVE  LInv'
  OBVIOUS
<1>1. CASE LexQuery           BY <1>1, LexQueryKeeps
<1>2. CASE LexSkip            BY <1>2, LexSkipKeeps
<1>3. CASE LexKeep            BY <1>3, LexKeepKeeps
<1>4. CASE LexExtractStrings  BY <1>4, LexExtractKeeps
<1>5. CASE LexIterate \/ LexExhausted \/ UNCHANGED lexVars
  BY <1>5, LexQuietKeeps
<1> QED  BY <1>1, <1>2, <1>3, <1>4, <1>5 DEF LexNext

LEMMA LexInductive == LexSpec => []LInv
BY LexInitHolds, LexStepPreserves, PTL DEF LexSpec

-----------------------------------------------------------------------------
(***************************************************************************)
(* The i-th string a query of type 2 returns is the completion of its i-th *)
(* score, for every collection, every k and every sequence of queries.     *)
(***************************************************************************)
THEOREM Strings == LexSpec => []StringsFollowScores
<1>1. LInv => StringsFollowScores
  BY DEF LInv
<1> QED  BY <1>1, LexInductive, PTL

(***************************************************************************)
(* Type 2 implements type 1, and so by SearchRefinement what conjunctive   *)
(* search promises.                                                        *)
(***************************************************************************)
THEOREM LexRefinement == LexSpec => RefinesForward
<1>1. LexInit => SearchInit
  BY DEF LexInit
<1>2. LInv /\ [LexNext]_lexVars => [SearchNext]_searchVars
  BY LexStepIsSearchStep
<1> QED  BY <1>1, <1>2, LexInductive, PTL DEF LexSpec, RefinesForward, SearchSpec

(***************************************************************************)
(* An index of type 2 answers every query with the k best completions that *)
(* match, each one once, the best first.                                   *)
(***************************************************************************)
THEOREM LexAnswers == LexSpec => RefinesTopK
BY LexRefinement, SearchRefinement DEF RefinesForward

-----------------------------------------------------------------------------
(***************************************************************************)
(* The invariant of the index.  Outside the loop of minimal_docids it is   *)
(* that of the search (LInv).  Inside, the entries of the queue are in the *)
(* range of the query and show values of their lists, a closed one the     *)
(* least value of its range (QueueShape); no range is covered twice        *)
(* (RangesDisjoint), every completion of the range is found or covered     *)
(* (FoundOrCovered), and no score is greater than an entry (TokenSoFar).   *)
(***************************************************************************)
FirstPosition == rng.begin - 1
LastPosition == rng.end - 1

QueueShape ==
    \A p \in DOMAIN queue :
        /\ p \in FirstPosition .. LastPosition
        /\ queue[p] \in Entries
        /\ queue[p].value \in ListOf(p)
        /\ ~queue[p].open =>
               /\ p \in queue[p].begin .. queue[p].end
               /\ FirstPosition <= queue[p].begin /\ queue[p].end <= LastPosition
               /\ p \in Minima(queue[p].begin, queue[p].end)
               /\ queue[p].value = MinimalDocId(p)

TokenSoFar ==
    /\ results < k
    /\ Filled \subseteq Target
    /\ \A s \in Filled : \A p \in DOMAIN queue : s <= queue[p].value

Located ==
    /\ pc # "none" <=> phase = "search" /\ terms # {}
    /\ pc # "none" => Joined /\ FilledSoFar
    /\ Merging => QueueShape /\ TokenSoFar
    /\ phase = "extract" => FilledBest

StringsInv ==
    /\ slots \in Buffers /\ sizes \in Buffers
    /\ ~Merging => SlotsFollowScores
    /\ StringsFollowScores
    /\ NothingYet

XInv ==
    /\ IInv
    /\ QueryTypeOK
    /\ ScoresSorted
    /\ Located
    /\ StringsInv
    /\ RangesDisjoint
    /\ FoundOrCovered

(***************************************************************************)
(* Outside the loop, the invariant is that of the search of type 2.        *)
(***************************************************************************)
LEMMA LexPart ==
    ASSUME XInv, ~Merging
    PROVE  LInv
BY DEF XInv, LInv, SInv, Located, StringsInv, Frame, Merging

LEMMA LexStepsKeep ==
    ASSUME LInv', RangesDisjoint', phase' = "search" => terms' # {}
    PROVE  XInv'
BY DEF XInv, LInv, SInv, Located, StringsInv, Frame, Merging, FoundOrCovered

-----------------------------------------------------------------------------
(***************************************************************************)
(* The positions of the range have lists, with a least value.              *)
(***************************************************************************)
LEMMA PositionLists ==
    ASSUME QueryTypeOK, NEW p \in FirstPosition .. LastPosition
    PROVE  /\ p \in Positions /\ p \in Nat
           /\ p + 1 \in rng.begin .. rng.end
           /\ ListOf(p) \in PostingLists /\ ListOf(p) \subseteq DocIds
           /\ MinimalDocId(p) \in ListOf(p)
           /\ MinimalDocId(p) \in DocIds /\ MinimalDocId(p) \in Nat
           /\ \A d \in ListOf(p) : MinimalDocId(p) <= d
<1>1. /\ rng.begin \in 1 .. NumTerms /\ rng.end \in 1 .. NumTerms
      /\ NumTerms \in Nat
  BY NumTermsAssumption DEF QueryTypeOK, TermRanges, TermIds
<1>2. p \in Positions /\ p \in Nat /\ p + 1 \in rng.begin .. rng.end /\ p + 1 \in TermIds
  BY <1>1 DEF Positions, FirstPosition, LastPosition, TermIds
<1>3. ListOf(p) \in PostingLists /\ ListOf(p) \subseteq DocIds
  BY <1>2, PostingIsList DEF QueryTypeOK, ListOf, Posting
<1> QED  BY <1>2, <1>3, FirstFacts, Universe DEF MinimalDocId

(***************************************************************************)
(* A part of the range has a position with the least value, and the queue  *)
(* gets an entry at one of them.                                           *)
(***************************************************************************)
LEMMA PushedFacts ==
    ASSUME QueryTypeOK, NEW a \in Int, NEW b \in Int,
           FirstPosition <= a, b <= LastPosition,
           NEW q, NEW new \in Pushed(q, a, b)
    PROVE  \/ a > b /\ new = q
           \/ a <= b /\ \E x \in Minima(a, b) : new = With(q, x, Closed(a, b, x))
<1>1. CASE a > b
  BY <1>1 DEF Pushed
<1>2. CASE a <= b
  <2>1. \A x \in a .. b : x \in FirstPosition .. LastPosition
    <3>1. rng.begin \in Int /\ rng.end \in Int
      BY NumTermsAssumption DEF QueryTypeOK, TermRanges, TermIds
    <3> QED  BY <3>1 DEF FirstPosition, LastPosition
  <2>2. \A x \in a .. b : MinimalDocId(x) \in Nat
    BY <2>1, PositionLists
  <2> DEFINE S == {MinimalDocId(x) : x \in a .. b}
  <2>3. S \in SUBSET Nat /\ S # {}
    BY <1>2, <2>2
  <2>4. Least(S) \in S /\ \A y \in S : Least(S) <= y
    <3> HIDE DEF S
    <3> QED  BY <2>3, LeastExists
  <2>5. Minima(a, b) # {} /\ Minima(a, b) \in SUBSET Nat
    <3>1. PICK x \in a .. b : MinimalDocId(x) = Least(S)
      BY <2>4
    <3>2. x \in Minima(a, b)
      BY <2>4, <3>1 DEF Minima
    <3>3. \A y \in a .. b : y \in Nat
      BY <2>1, PositionLists
    <3> QED  BY <3>2, <3>3 DEF Minima
  <2>6. MinPositions(a, b) \subseteq Minima(a, b)
    BY <2>5, LeastExists DEF MinPositions
  <2>7. ~(a > b)
    BY <1>2
  <2>8. PICK x \in MinPositions(a, b) : new = With(q, x, Closed(a, b, x))
    BY <2>7 DEF Pushed
  <2> QED  BY <1>2, <2>6, <2>8
<1> QED  BY <1>1, <1>2

(***************************************************************************)
(* The top of the queue matches, no score is greater, and what is still to *)
(* be found is at or after it.                                             *)
(***************************************************************************)
LEMMA TokenTop ==
    ASSUME XInv, Merging, NEW p \in TopEntry
    PROVE  /\ p \in DOMAIN queue
           /\ queue[p].value \in DocIds /\ queue[p].value \in Nat
           /\ queue[p].value \in Target
           /\ \A s \in Filled : s \in Nat /\ s <= queue[p].value
           /\ \A d \in Target : d \in Nat /\ (d \in Filled \/ queue[p].value <= d)
           /\ \A u \in DOMAIN queue :
                  queue[u].value \in Nat /\ queue[p].value <= queue[u].value
<1>1. /\ p \in DOMAIN queue
      /\ \A u \in DOMAIN queue : queue[p].value <= queue[u].value
  BY DEF TopEntry
<1>2. QueueShape /\ TokenSoFar /\ QueryTypeOK /\ FoundOrCovered
  BY DEF XInv, Located
<1>3. \A u \in DOMAIN queue : queue[u].value \in DocIds /\ queue[u].value \in Nat
  BY <1>2, PositionLists, Universe DEF QueueShape
<1>4. phase = "search" /\ terms = {}
  BY DEF Merging
<1>5. queue[p].value \in Target
  <2>1. p + 1 \in rng.begin .. rng.end /\ queue[p].value \in Posting(corpus, p + 1)
    BY <1>1, <1>2, PositionLists DEF QueueShape, ListOf
  <2> QED  BY <1>4, <2>1 DEF Target, Matches, Posting
<1>6. \A s \in Filled : s \in Nat /\ s <= queue[p].value
  BY <1>1, <1>2, PoolNumbers, Universe DEF TokenSoFar
<1>7. ASSUME NEW d \in Target, d \notin Filled
      PROVE  queue[p].value <= d
  <2>1. d \in DocIds /\ d \in Nat
    BY TargetInJoin, Universe
  <2>2. PICK t \in rng.begin .. rng.end : t \in corpus[d]
    BY <1>4 DEF Target, Matches
  <2>3. rng.begin \in Int /\ rng.end \in Int
    BY <1>2, NumTermsAssumption DEF QueryTypeOK, TermRanges, TermIds
  <2> DEFINE u == t - 1
  <2>4. u \in FirstPosition .. LastPosition /\ u + 1 = t
    BY <2>3 DEF FirstPosition, LastPosition
  <2>5. d \in ListOf(u)
    BY <2>1, <2>2, <2>4 DEF ListOf, Posting
  <2> HIDE DEF u
  <2>6. <<u, d>> \in Ahead
    BY <1>2, <1>7, <2>4, <2>5 DEF FoundOrCovered, FirstPosition, LastPosition
  <2>7. CASE u \in DOMAIN queue /\ queue[u].value <= d
    BY <1>1, <1>3, <2>1, <2>7
  <2>8. CASE \E q \in DOMAIN queue :
                 ~queue[q].open /\ u \in queue[q].begin .. queue[q].end
    <3>1. PICK q \in DOMAIN queue :
                 ~queue[q].open /\ u \in queue[q].begin .. queue[q].end
      BY <2>8
    <3>2. queue[q].value = MinimalDocId(q) /\ MinimalDocId(q) <= MinimalDocId(u)
      BY <1>2, <3>1 DEF QueueShape, Minima
    <3>3. MinimalDocId(u) \in Nat /\ MinimalDocId(u) <= d
      BY <1>2, <2>4, <2>5, PositionLists
    <3> QED  BY <1>1, <1>3, <2>1, <3>1, <3>2, <3>3
  <2> QED  BY <2>6, <2>7, <2>8 DEF Ahead
<1>8. \A d \in Target : d \in Nat
  BY TargetInJoin, Universe
<1> QED  BY <1>1, <1>3, <1>5, <1>6, <1>7, <1>8

-----------------------------------------------------------------------------
(***************************************************************************)
(* The entry on top moves to the next value of its list, or leaves.        *)
(***************************************************************************)
LEMMA MovedOnFacts ==
    ASSUME XInv, Merging, NEW p \in DOMAIN queue
    PROVE  /\ DOMAIN MovedOn(p) \subseteq DOMAIN queue
           /\ \A u \in DOMAIN queue \ {p} :
                  u \in DOMAIN MovedOn(p) /\ MovedOn(p)[u] = queue[u]
           /\ p \in DOMAIN MovedOn(p) =>
                  /\ MovedOn(p)[p] \in Entries /\ MovedOn(p)[p].open
                  /\ MovedOn(p)[p].value \in ListOf(p)
                  /\ MovedOn(p)[p].value > queue[p].value
           /\ \A d \in ListOf(p) : d > queue[p].value =>
                  p \in DOMAIN MovedOn(p) /\ MovedOn(p)[p].value <= d
<1> DEFINE list == ListOf(p)
           shown == queue[p].value
           value == NextAfter(list, shown)
<1>1. QueueShape /\ QueryTypeOK
  BY DEF XInv, Located
<1>2. /\ p \in FirstPosition .. LastPosition
      /\ queue[p] \in Entries /\ shown \in list
  BY <1>1 DEF QueueShape
<1>3. list \subseteq DocIds /\ \A d \in list : d \in Nat /\ d < NumDocs /\ NumDocs \in Nat
  BY <1>1, <1>2, PositionLists, Universe
<1>4. /\ value \in CursorValues /\ value \in list \cup {NumDocs} /\ value > shown
      /\ \A d \in list : d > shown => value <= d
  BY <1>2, <1>3, NextAfterFacts
<1>5. value \in Nat /\ (HasNext(value) <=> value \in list)
  BY <1>3, <1>4, Universe DEF HasNext
<1>6. CASE HasNext(value)
  <2> DEFINE entry == [queue[p] EXCEPT !.open = TRUE, !.value = value]
  <2>1. MovedOn(p) = [x \in DOMAIN queue \cup {p} |-> IF x = p THEN entry ELSE queue[x]]
    BY <1>6 DEF MovedOn, With
  <2>2. entry \in Entries /\ entry.open /\ entry.value = value
    BY <1>2, <1>3, <1>5, <1>6 DEF Entries
  <2> HIDE DEF value, entry
  <2> QED  BY <1>4, <1>5, <1>6, <2>1, <2>2
<1>7. CASE ~HasNext(value)
  <2>1. MovedOn(p) = [x \in DOMAIN queue \ {p} |-> queue[x]]
    BY <1>7 DEF MovedOn, Without
  <2>2. value = NumDocs
    BY <1>4, <1>5, <1>7
  <2>3. \A d \in list : ~(d > shown)
    BY <1>2, <1>3, <1>4, <2>2
  <2> HIDE DEF value
  <2> QED  BY <2>1, <2>3
<1> QED  BY <1>6, <1>7

(***************************************************************************)
(* The queue after a round: the other entries stay, the one on top has     *)
(* moved on, and each part of a closed one has exactly one closed entry.   *)
(***************************************************************************)
PartsOf(p) ==
    IF queue[p].open THEN {}
    ELSE {part \in {<<queue[p].begin, p - 1>>, <<p + 1, queue[p].end>>} : part[1] <= part[2]}

IsPart(q, part) ==
    \E x \in Minima(part[1], part[2]) :
        /\ x \in DOMAIN q /\ q[x] = Closed(part[1], part[2], x)
        /\ \A y \in DOMAIN q : y \in part[1] .. part[2] => y = x

AfterRound(p, q) ==
    /\ \A u \in DOMAIN queue \ {p} : u \in DOMAIN q /\ q[u] = queue[u]
    /\ p \in DOMAIN MovedOn(p) => p \in DOMAIN q /\ q[p] = MovedOn(p)[p]
    /\ \A part \in PartsOf(p) : IsPart(q, part)
    /\ \A u \in DOMAIN q :
           \/ u \in DOMAIN queue \ {p}
           \/ u = p /\ p \in DOMAIN MovedOn(p)
           \/ \E part \in PartsOf(p) : u \in part[1] .. part[2]

(***************************************************************************)
(* The bounds of the range a closed entry stands for.                      *)
(***************************************************************************)
LEMMA ClosedBounds ==
    ASSUME XInv, Merging, NEW p \in DOMAIN queue, ~queue[p].open
    PROVE  /\ p \in Int /\ queue[p].begin \in Int /\ queue[p].end \in Int
           /\ FirstPosition \in Int /\ LastPosition \in Int
           /\ queue[p].begin <= p /\ p <= queue[p].end
           /\ FirstPosition <= queue[p].begin /\ queue[p].end <= LastPosition
<1>1. QueueShape /\ QueryTypeOK
  BY DEF XInv, Located
<1>2. queue[p].begin \in Positions /\ queue[p].end \in Positions
  BY <1>1 DEF QueueShape, Entries
<1>3. \A x \in Positions : x \in Int
  BY NumTermsAssumption DEF Positions
<1>4. FirstPosition \in Int /\ LastPosition \in Int
  BY <1>1, NumTermsAssumption DEF QueryTypeOK, TermRanges, TermIds, FirstPosition, LastPosition
<1>5. /\ p \in queue[p].begin .. queue[p].end
      /\ FirstPosition <= queue[p].begin /\ queue[p].end <= LastPosition
  BY <1>1 DEF QueueShape
<1> QED  BY <1>2, <1>3, <1>4, <1>5

LEMMA SplitFacts ==
    ASSUME XInv, Merging, NEW p \in DOMAIN queue, ~queue[p].open, NEW q \in Split(p)
    PROVE  AfterRound(p, q)
<1> DEFINE m == MovedOn(p)
           b == queue[p].begin
           e == queue[p].end
<1>1. /\ p \in Int /\ b \in Int /\ e \in Int /\ b <= p /\ p <= e
      /\ FirstPosition \in Int /\ LastPosition \in Int
      /\ FirstPosition <= b /\ e <= LastPosition
  BY ClosedBounds
<1>2. /\ DOMAIN m \subseteq DOMAIN queue
      /\ \A u \in DOMAIN queue \ {p} : u \in DOMAIN m /\ m[u] = queue[u]
  BY MovedOnFacts
<1>3. \A u \in DOMAIN queue \ {p} : u \notin b .. e
  BY DEF XInv, RangesDisjoint
<1>4. PICK l \in Pushed(m, b, p - 1) : q \in Pushed(l, p + 1, e)
  BY DEF Split
<1> HIDE DEF m, b, e
<1>5. \/ b > p - 1 /\ l = m
      \/ b <= p - 1 /\ \E x \in Minima(b, p - 1) : l = With(m, x, Closed(b, p - 1, x))
  BY <1>1, <1>4, PushedFacts DEF XInv
<1>6. \/ p + 1 > e /\ q = l
      \/ p + 1 <= e /\ \E x \in Minima(p + 1, e) : q = With(l, x, Closed(p + 1, e, x))
  BY <1>1, <1>4, PushedFacts DEF XInv
<1>7. \A u \in DOMAIN m : u \notin b .. p - 1 /\ u \notin p + 1 .. e
  BY <1>1, <1>2, <1>3
<1>8. /\ \A u \in DOMAIN m : u \in DOMAIN l /\ l[u] = m[u]
      /\ b <= p - 1 => IsPart(l, <<b, p - 1>>)
      /\ \A u \in DOMAIN l : u \in DOMAIN m \/ (b <= p - 1 /\ u \in b .. p - 1)
      /\ \A u \in DOMAIN l : u \notin p + 1 .. e
  <2>1. CASE b > p - 1 /\ l = m
    BY <1>1, <1>7, <2>1
  <2>2. CASE b <= p - 1 /\ \E x \in Minima(b, p - 1) : l = With(m, x, Closed(b, p - 1, x))
    <3>1. PICK x \in Minima(b, p - 1) : l = With(m, x, Closed(b, p - 1, x))
      BY <2>2
    <3>2. x \in b .. p - 1
      BY <3>1 DEF Minima
    <3>3. /\ DOMAIN l = DOMAIN m \cup {x} /\ l[x] = Closed(b, p - 1, x)
          /\ \A u \in DOMAIN m : u # x => l[u] = m[u]
      BY <3>1 DEF With
    <3>4. x \notin DOMAIN m
      BY <1>7, <3>2
    <3>5. IsPart(l, <<b, p - 1>>)
      BY <1>7, <3>1, <3>2, <3>3 DEF IsPart
    <3>6. x \notin p + 1 .. e
      BY <1>1, <3>2
    <3> QED  BY <1>7, <2>2, <3>2, <3>3, <3>4, <3>5, <3>6
  <2> QED  BY <1>5, <2>1, <2>2
<1>9. /\ \A u \in DOMAIN l : u \in DOMAIN q /\ q[u] = l[u]
      /\ p + 1 <= e => IsPart(q, <<p + 1, e>>)
      /\ \A u \in DOMAIN q : u \in DOMAIN l \/ (p + 1 <= e /\ u \in p + 1 .. e)
  <2>1. CASE p + 1 > e /\ q = l
    BY <1>1, <2>1
  <2>2. CASE p + 1 <= e /\ \E x \in Minima(p + 1, e) : q = With(l, x, Closed(p + 1, e, x))
    <3>1. PICK x \in Minima(p + 1, e) : q = With(l, x, Closed(p + 1, e, x))
      BY <2>2
    <3>2. x \in p + 1 .. e
      BY <3>1 DEF Minima
    <3>3. /\ DOMAIN q = DOMAIN l \cup {x} /\ q[x] = Closed(p + 1, e, x)
          /\ \A u \in DOMAIN l : u # x => q[u] = l[u]
      BY <3>1 DEF With
    <3>4. x \notin DOMAIN l
      BY <1>8, <3>2
    <3>5. IsPart(q, <<p + 1, e>>)
      BY <1>8, <3>1, <3>2, <3>3 DEF IsPart
    <3> QED  BY <2>2, <3>2, <3>3, <3>4, <3>5
  <2> QED  BY <1>6, <2>1, <2>2
<1>10. b <= p - 1 => IsPart(q, <<b, p - 1>>)
  <2> SUFFICES ASSUME b <= p - 1  PROVE IsPart(q, <<b, p - 1>>)
    OBVIOUS
  <2>1. PICK x \in Minima(b, p - 1) :
            /\ x \in DOMAIN l /\ l[x] = Closed(b, p - 1, x)
            /\ \A y \in DOMAIN l : y \in b .. p - 1 => y = x
    BY <1>8 DEF IsPart
  <2>2. \A y \in DOMAIN q : y \in b .. p - 1 => y \in DOMAIN l
    BY <1>1, <1>9
  <2> QED  BY <1>9, <2>1, <2>2 DEF IsPart
<1>11. /\ \A part \in PartsOf(p) : IsPart(q, part)
       /\ b <= p - 1 => <<b, p - 1>> \in PartsOf(p)
       /\ p + 1 <= e => <<p + 1, e>> \in PartsOf(p)
  BY <1>9, <1>10 DEF PartsOf, b, e
<1>12. \A u \in DOMAIN queue \ {p} : u \in DOMAIN q /\ q[u] = queue[u]
  BY <1>2, <1>8, <1>9
<1>13. p \in DOMAIN m => p \in DOMAIN q /\ q[p] = m[p]
  BY <1>8, <1>9
<1>14. ASSUME NEW u \in DOMAIN q
       PROVE  \/ u \in DOMAIN queue \ {p}
              \/ u = p /\ p \in DOMAIN m
              \/ \E part \in PartsOf(p) : u \in part[1] .. part[2]
  <2>1. CASE u \in DOMAIN m
    BY <1>2, <2>1
  <2>2. CASE b <= p - 1 /\ u \in b .. p - 1
    BY <1>11, <2>2
  <2>3. CASE p + 1 <= e /\ u \in p + 1 .. e
    BY <1>11, <2>3
  <2> QED  BY <1>8, <1>9, <2>1, <2>2, <2>3
<1> QED  BY <1>11, <1>12, <1>13, <1>14 DEF AfterRound, m

LEMMA RoundFacts ==
    ASSUME XInv, Merging, NEW p \in DOMAIN queue,
           NEW q \in IF queue[p].open THEN {MovedOn(p)} ELSE Split(p)
    PROVE  AfterRound(p, q)
<1>1. CASE queue[p].open
  <2>1. q = MovedOn(p) /\ PartsOf(p) = {}
    BY <1>1 DEF PartsOf
  <2> QED  BY <2>1, MovedOnFacts DEF AfterRound
<1>2. CASE ~queue[p].open
  BY <1>2, SplitFacts
<1> QED  BY <1>1, <1>2

(***************************************************************************)
(* The parts of a closed entry: inside its range, without its position.    *)
(***************************************************************************)
LEMMA PartFacts ==
    ASSUME XInv, Merging, NEW p \in DOMAIN queue, NEW part \in PartsOf(p)
    PROVE  /\ ~queue[p].open
           /\ part[1] \in Int /\ part[2] \in Int /\ part[1] <= part[2]
           /\ queue[p].begin <= part[1] /\ part[2] <= queue[p].end
           /\ FirstPosition <= part[1] /\ part[2] <= LastPosition
           /\ part[1] .. part[2] \subseteq queue[p].begin .. queue[p].end
           /\ part[1] .. part[2] \subseteq FirstPosition .. LastPosition
           /\ p \notin part[1] .. part[2]
           /\ \A other \in PartsOf(p) :
                  other # part => part[1] .. part[2] \cap other[1] .. other[2] = {}
<1>1. ~queue[p].open
  BY DEF PartsOf
<1> DEFINE b == queue[p].begin
           e == queue[p].end
<1>2. /\ p \in Int /\ b \in Int /\ e \in Int /\ b <= p /\ p <= e
      /\ FirstPosition \in Int /\ LastPosition \in Int
      /\ FirstPosition <= b /\ e <= LastPosition
  BY <1>1, ClosedBounds
<1>3. \A x \in PartsOf(p) :
          (x = <<b, p - 1>> \/ x = <<p + 1, e>>) /\ x[1] <= x[2]
  BY <1>1 DEF PartsOf
<1> HIDE DEF b, e
<1>4. \A x \in PartsOf(p) : (x[1] = b /\ x[2] = p - 1) \/ (x[1] = p + 1 /\ x[2] = e)
  BY <1>3
<1>5. /\ part[1] \in Int /\ part[2] \in Int /\ part[1] <= part[2]
      /\ b <= part[1] /\ part[2] <= e
      /\ FirstPosition <= part[1] /\ part[2] <= LastPosition
      /\ p \notin part[1] .. part[2]
  BY <1>2, <1>3, <1>4
<1>6. ASSUME NEW other \in PartsOf(p), other # part
      PROVE  part[1] .. part[2] \cap other[1] .. other[2] = {}
  <2>1. \/ part = <<b, p - 1>> /\ other = <<p + 1, e>>
        \/ part = <<p + 1, e>> /\ other = <<b, p - 1>>
    BY <1>3, <1>6
  <2>2. CASE part = <<b, p - 1>> /\ other = <<p + 1, e>>
    BY <1>2, <2>2
  <2>3. CASE part = <<p + 1, e>> /\ other = <<b, p - 1>>
    BY <1>2, <2>3
  <2> QED  BY <2>1, <2>2, <2>3
<1>7. /\ part[1] .. part[2] \subseteq b .. e
      /\ part[1] .. part[2] \subseteq FirstPosition .. LastPosition
  BY <1>2, <1>5
<1> QED  BY <1>1, <1>5, <1>6, <1>7 DEF b, e

(***************************************************************************)
(* An entry after the round is an old one, the opened one, or a part.      *)
(***************************************************************************)
LEMMA EntryAfterRound ==
    ASSUME XInv, Merging, NEW p \in DOMAIN queue, NEW q, AfterRound(p, q),
           NEW u \in DOMAIN q
    PROVE  \/ u \in DOMAIN queue /\ u # p /\ q[u] = queue[u]
           \/ /\ u = p /\ p \in DOMAIN MovedOn(p) /\ q[p] = MovedOn(p)[p]
              /\ q[u] \in Entries /\ q[u].open
              /\ q[u].value \in ListOf(p) /\ q[u].value > queue[p].value
           \/ \E part \in PartsOf(p) :
                  /\ u \in part[1] .. part[2] /\ u \in Minima(part[1], part[2])
                  /\ q[u] = Closed(part[1], part[2], u)
                  /\ \A y \in DOMAIN q : y \in part[1] .. part[2] => y = u
<1>1. CASE u \in DOMAIN queue \ {p}
  BY <1>1 DEF AfterRound
<1>2. CASE u = p /\ p \in DOMAIN MovedOn(p)
  <2>1. q[p] = MovedOn(p)[p]
    BY <1>2 DEF AfterRound
  <2> QED  BY <1>2, <2>1, MovedOnFacts
<1>3. CASE \E part \in PartsOf(p) : u \in part[1] .. part[2]
  <2>1. PICK part \in PartsOf(p) : u \in part[1] .. part[2]
    BY <1>3
  <2>2. PICK x \in Minima(part[1], part[2]) :
            /\ x \in DOMAIN q /\ q[x] = Closed(part[1], part[2], x)
            /\ \A y \in DOMAIN q : y \in part[1] .. part[2] => y = x
    BY DEF AfterRound, IsPart
  <2>3. u = x
    BY <2>1, <2>2
  <2> QED  BY <2>1, <2>2, <2>3
<1> QED  BY <1>1, <1>2, <1>3 DEF AfterRound

LEMMA RoundKeepsDisjoint ==
    ASSUME XInv, Merging, NEW p \in DOMAIN queue, AfterRound(p, queue')
    PROVE  RangesDisjoint'
<1> SUFFICES ASSUME NEW u \in DOMAIN queue', NEW w \in DOMAIN queue', u # w, ~queue'[u].open
             PROVE  /\ w \notin queue'[u].begin .. queue'[u].end
                    /\ ~queue'[w].open =>
                           queue'[w].begin .. queue'[w].end
                               \cap queue'[u].begin .. queue'[u].end = {}
  BY DEF RangesDisjoint
<1>1. RangesDisjoint
  BY DEF XInv
<1> DEFINE part(x, s) == /\ x \in s[1] .. s[2] /\ queue'[x] = Closed(s[1], s[2], x)
                         /\ \A y \in DOMAIN queue' : y \in s[1] .. s[2] => y = x
           old(x) == x \in DOMAIN queue /\ x # p /\ queue'[x] = queue[x]
<1>2. old(u) \/ \E s \in PartsOf(p) : part(u, s)
  BY EntryAfterRound
<1>3. old(w) \/ (w = p /\ queue'[w].open) \/ \E s \in PartsOf(p) : part(w, s)
  BY EntryAfterRound
<1>4. \A x, s : part(x, s) =>
          ~queue'[x].open /\ queue'[x].begin = s[1] /\ queue'[x].end = s[2]
  BY DEF Closed
<1>5. CASE old(u)
  <2>1. CASE old(w)
    BY <1>1, <1>5, <2>1 DEF RangesDisjoint
  <2>2. CASE w = p /\ queue'[w].open
    BY <1>1, <1>5, <2>2 DEF RangesDisjoint
  <2>3. CASE \E s \in PartsOf(p) : part(w, s)
    <3>1. PICK s \in PartsOf(p) : part(w, s)
      BY <2>3
    <3>2. ~queue[p].open /\ s[1] .. s[2] \subseteq queue[p].begin .. queue[p].end
      BY PartFacts
    <3>3. queue[p].begin .. queue[p].end \cap queue[u].begin .. queue[u].end = {}
      BY <1>1, <1>5, <3>2 DEF RangesDisjoint
    <3> QED  BY <1>4, <1>5, <3>1, <3>2, <3>3
  <2> QED  BY <1>3, <2>1, <2>2, <2>3
<1>6. CASE \E s \in PartsOf(p) : part(u, s)
  <2>1. PICK s \in PartsOf(p) : part(u, s)
    BY <1>6
  <2>2. /\ ~queue[p].open /\ s[1] .. s[2] \subseteq queue[p].begin .. queue[p].end
        /\ p \notin s[1] .. s[2]
    BY PartFacts
  <2>3. queue'[u].begin = s[1] /\ queue'[u].end = s[2]
    BY <1>4, <2>1
  <2>4. w \notin s[1] .. s[2]
    BY <2>1
  <2>5. CASE old(w)
    <3>1. ~queue[w].open =>
              queue[w].begin .. queue[w].end \cap queue[p].begin .. queue[p].end = {}
      BY <1>1, <2>2, <2>5 DEF RangesDisjoint
    <3> QED  BY <2>2, <2>3, <2>4, <2>5, <3>1
  <2>6. CASE w = p /\ queue'[w].open
    BY <2>2, <2>3, <2>6
  <2>7. CASE \E o \in PartsOf(p) : part(w, o)
    <3>1. PICK o \in PartsOf(p) : part(w, o)
      BY <2>7
    <3>2. o # s
      BY <2>4, <3>1
    <3>3. s[1] .. s[2] \cap o[1] .. o[2] = {}
      BY <3>2, PartFacts
    <3>4. queue'[w].begin = o[1] /\ queue'[w].end = o[2]
      BY <1>4, <3>1
    <3> QED  BY <2>3, <2>4, <3>3, <3>4
  <2> QED  BY <1>3, <2>5, <2>6, <2>7
<1> QED  BY <1>2, <1>5, <1>6

(***************************************************************************)
(* The shape of the queue after a round, with no value below the top's.    *)
(***************************************************************************)
LEMMA RoundKeepsShape ==
    ASSUME XInv, Merging, NEW p \in TopEntry, AfterRound(p, queue'), UNCHANGED <<corpus, rng>>
    PROVE  /\ QueueShape'
           /\ \A u \in DOMAIN queue' :
                  queue'[u].value \in Nat /\ queue[p].value <= queue'[u].value
<1>1. QueueShape /\ QueryTypeOK
  BY DEF XInv, Located
<1>2. /\ p \in DOMAIN queue /\ queue[p].value \in Nat
      /\ \A u \in DOMAIN queue :
             queue[u].value \in Nat /\ queue[p].value <= queue[u].value
  BY TokenTop
<1>3. p \in FirstPosition .. LastPosition
  BY <1>1, <1>2 DEF QueueShape
<1>4. \A x \in FirstPosition .. LastPosition :
          /\ ListOf(x) \subseteq DocIds /\ x \in Positions
          /\ MinimalDocId(x) \in ListOf(x) /\ MinimalDocId(x) \in DocIds
          /\ MinimalDocId(x) \in Nat
  BY <1>1, PositionLists
<1>5. ASSUME NEW u \in DOMAIN queue'
      PROVE  /\ u \in FirstPosition .. LastPosition
             /\ queue'[u] \in Entries
             /\ queue'[u].value \in ListOf(u)
             /\ ~queue'[u].open =>
                    /\ u \in queue'[u].begin .. queue'[u].end
                    /\ FirstPosition <= queue'[u].begin /\ queue'[u].end <= LastPosition
                    /\ u \in Minima(queue'[u].begin, queue'[u].end)
                    /\ queue'[u].value = MinimalDocId(u)
             /\ queue'[u].value \in Nat /\ queue[p].value <= queue'[u].value
  <2>1. CASE u \in DOMAIN queue /\ u # p /\ queue'[u] = queue[u]
    BY <1>1, <1>2, <2>1 DEF QueueShape
  <2>2. CASE /\ u = p /\ queue'[u] \in Entries /\ queue'[u].open
             /\ queue'[u].value \in ListOf(p) /\ queue'[u].value > queue[p].value
    <3>1. queue'[u].value \in Nat
      BY <1>3, <1>4, <2>2, Universe
    <3> QED  BY <1>2, <1>3, <2>2, <3>1
  <2>3. CASE \E part \in PartsOf(p) :
                 /\ u \in part[1] .. part[2] /\ u \in Minima(part[1], part[2])
                 /\ queue'[u] = Closed(part[1], part[2], u)
    <3>1. PICK s \in PartsOf(p) :
                 /\ u \in s[1] .. s[2] /\ u \in Minima(s[1], s[2])
                 /\ queue'[u] = Closed(s[1], s[2], u)
      BY <2>3
    <3>2. /\ ~queue[p].open
          /\ s[1] \in Int /\ s[2] \in Int /\ s[1] <= s[2]
          /\ FirstPosition <= s[1] /\ s[2] <= LastPosition
          /\ s[1] .. s[2] \subseteq queue[p].begin .. queue[p].end
          /\ s[1] .. s[2] \subseteq FirstPosition .. LastPosition
      BY <1>2, PartFacts
    <3>3. u \in FirstPosition .. LastPosition /\ u \in queue[p].begin .. queue[p].end
      BY <3>1, <3>2
    <3>4. s[1] \in Positions /\ s[2] \in Positions
      <4>1. s[1] \in s[1] .. s[2] /\ s[2] \in s[1] .. s[2]
        BY <3>2
      <4> QED  BY <1>4, <3>2, <4>1
    <3>5. queue'[u] = [open |-> FALSE, begin |-> s[1], end |-> s[2], value |-> MinimalDocId(u)]
      BY <3>1 DEF Closed
    <3>6. queue'[u] \in Entries
      BY <1>4, <3>3, <3>4, <3>5 DEF Entries
    <3>7. queue[p].value = MinimalDocId(p) /\ MinimalDocId(p) <= MinimalDocId(u)
      BY <1>1, <1>2, <3>2, <3>3 DEF QueueShape, Minima
    <3> QED  BY <1>4, <3>1, <3>2, <3>3, <3>5, <3>6, <3>7
  <2> QED  BY <1>2, <2>1, <2>2, <2>3, EntryAfterRound
<1>6. \A x, a, b : (x \in ListOf(a))' = (x \in ListOf(a)) /\ (MinimalDocId(a))' = MinimalDocId(a)
                   /\ Minima(a, b)' = Minima(a, b)
  BY DEF ListOf, Posting, MinimalDocId, Minima
<1>7. FirstPosition' = FirstPosition /\ LastPosition' = LastPosition
  BY DEF FirstPosition, LastPosition
<1> QED  BY <1>5, <1>6, <1>7 DEF QueueShape

(***************************************************************************)
(* A round takes exactly the value of the top from what is ahead.          *)
(***************************************************************************)
LEMMA RoundTakesOne ==
    ASSUME XInv, Merging, NEW p \in TopEntry, AfterRound(p, queue'), UNCHANGED <<corpus, rng>>
    PROVE  /\ <<p, queue[p].value>> \in Ahead
           /\ Ahead' = Ahead \ {<<p, queue[p].value>>}
<1> DEFINE v == queue[p].value
           InRange == FirstPosition .. LastPosition
           Opened(q, u, d) == u \in DOMAIN q /\ q[u].open /\ q[u].value <= d
           Covered(q, u) == \E x \in DOMAIN q : ~q[x].open /\ u \in q[x].begin .. q[x].end
<1>1. QueueShape /\ QueryTypeOK /\ RangesDisjoint
  BY DEF XInv, Located
<1>2. p \in DOMAIN queue /\ v \in DocIds /\ v \in Nat
  BY TokenTop
<1>3. \A x : x \in Ahead <=>
          /\ x \in InRange \X DocIds /\ x[2] \in ListOf(x[1])
          /\ Opened(queue, x[1], x[2]) \/ Covered(queue, x[1])
  BY DEF Ahead, FirstPosition, LastPosition
<1>4. \A x : x \in Ahead' <=>
          /\ x \in InRange \X DocIds /\ x[2] \in ListOf(x[1])
          /\ Opened(queue', x[1], x[2]) \/ Covered(queue', x[1])
  BY DEF Ahead, FirstPosition, LastPosition, ListOf, Posting
<1>5. p \in InRange /\ v \in ListOf(p)
  BY <1>1, <1>2 DEF QueueShape
<1>6. queue[p].open \/ p \in queue[p].begin .. queue[p].end
  BY <1>1, <1>2 DEF QueueShape
<1>7. <<p, v>> \in Ahead
  BY <1>2, <1>3, <1>5, <1>6
<1>8. ASSUME NEW u \in InRange, NEW d \in ListOf(u), d \in DocIds,
             Opened(queue, u, d) \/ Covered(queue, u), ~(u = p /\ d = v)
      PROVE  Opened(queue', u, d) \/ Covered(queue', u)
  <2>0. d \in Nat
    BY <1>8, Universe
  <2>1. \A x \in DOMAIN queue \ {p} : x \in DOMAIN queue' /\ queue'[x] = queue[x]
    BY DEF AfterRound
  <2>2. ASSUME u = p, d >= v  PROVE Opened(queue', u, d)
    <3>1. d > v
      BY <1>2, <1>8, <2>0, <2>2
    <3>2. p \in DOMAIN MovedOn(p) /\ MovedOn(p)[p].value <= d /\ MovedOn(p)[p].open
      BY <1>2, <2>2, <3>1, MovedOnFacts
    <3> QED  BY <2>2, <3>2 DEF AfterRound
  <2>3. CASE Opened(queue, u, d)
    <3>1. CASE u # p
      BY <2>1, <2>3, <3>1
    <3>2. CASE u = p
      BY <1>2, <2>0, <2>2, <2>3, <3>2
    <3> QED  BY <3>1, <3>2
  <2>4. CASE Covered(queue, u)
    <3>1. PICK x \in DOMAIN queue : ~queue[x].open /\ u \in queue[x].begin .. queue[x].end
      BY <2>4
    <3>2. CASE x # p
      BY <2>1, <3>1, <3>2
    <3>3. CASE x = p
      <4>1. CASE u = p
        <5>1. v = MinimalDocId(p)
          BY <1>1, <1>2, <3>1, <3>3 DEF QueueShape
        <5>2. MinimalDocId(p) <= d
          BY <1>1, <1>5, <4>1, PositionLists
        <5> QED  BY <1>2, <2>0, <2>2, <4>1, <5>1, <5>2
      <4>2. CASE u # p
        <5>1. /\ queue[p].begin \in Int /\ queue[p].end \in Int /\ p \in Int
          BY <1>2, <3>1, <3>3, ClosedBounds
        <5>2. PICK s \in PartsOf(p) : u \in s[1] .. s[2]
          <6>1. CASE u < p
            <7>1. <<queue[p].begin, p - 1>> \in PartsOf(p)
              BY <3>1, <3>3, <5>1, <6>1 DEF PartsOf
            <7> QED  BY <3>1, <3>3, <5>1, <6>1, <7>1
          <6>2. CASE u > p
            <7>1. <<p + 1, queue[p].end>> \in PartsOf(p)
              BY <3>1, <3>3, <5>1, <6>2 DEF PartsOf
            <7> QED  BY <3>1, <3>3, <5>1, <6>2, <7>1
          <6> QED  BY <3>1, <3>3, <4>2, <5>1, <6>1, <6>2
        <5>3. PICK y \in Minima(s[1], s[2]) :
                  y \in DOMAIN queue' /\ queue'[y] = Closed(s[1], s[2], y)
          BY DEF AfterRound, IsPart
        <5>4. /\ ~queue'[y].open /\ queue'[y].begin = s[1] /\ queue'[y].end = s[2]
          BY <5>3 DEF Closed
        <5> QED  BY <5>2, <5>3, <5>4
      <4> QED  BY <4>1, <4>2
    <3> QED  BY <3>2, <3>3
  <2> QED  BY <1>8, <2>3, <2>4
<1>9. ASSUME NEW u \in InRange, NEW d \in ListOf(u), d \in DocIds,
             Opened(queue', u, d) \/ Covered(queue', u)
      PROVE  (Opened(queue, u, d) \/ Covered(queue, u)) /\ ~(u = p /\ d = v)
  <2>0. d \in Nat
    BY <1>9, Universe
  <2>1. \A s \in PartsOf(p) : /\ ~queue[p].open /\ p \notin s[1] .. s[2]
                              /\ s[1] .. s[2] \subseteq queue[p].begin .. queue[p].end
    BY <1>2, PartFacts
  <2>2. CASE Opened(queue', u, d)
    <3>1. CASE u \in DOMAIN queue /\ u # p /\ queue'[u] = queue[u]
      BY <2>2, <3>1
    <3>2. CASE u = p /\ queue'[u].value \in ListOf(p) /\ queue'[u].value > v
      <4>1. queue'[u].value \in Nat
        BY <1>1, <1>5, <3>2, PositionLists, Universe
      <4>2. d > v
        BY <1>2, <2>0, <2>2, <3>2, <4>1
      <4>3. Opened(queue, p, d) \/ Covered(queue, p)
        BY <1>2, <1>6, <2>0, <4>2
      <4> QED  BY <1>2, <3>2, <4>2, <4>3
    <3>3. CASE \E s \in PartsOf(p) : queue'[u] = Closed(s[1], s[2], u)
      BY <2>2, <3>3 DEF Closed
    <3> QED  BY <1>2, <2>2, <3>1, <3>2, <3>3, EntryAfterRound
  <2>3. CASE Covered(queue', u)
    <3>1. PICK x \in DOMAIN queue' : ~queue'[x].open /\ u \in queue'[x].begin .. queue'[x].end
      BY <2>3
    <3>2. CASE x \in DOMAIN queue /\ x # p /\ queue'[x] = queue[x]
      <4>1. p \notin queue[x].begin .. queue[x].end
        BY <1>1, <1>2, <3>1, <3>2 DEF RangesDisjoint
      <4> QED  BY <3>1, <3>2, <4>1
    <3>3. CASE x = p /\ queue'[x].open
      BY <3>1, <3>3
    <3>4. CASE \E s \in PartsOf(p) : queue'[x] = Closed(s[1], s[2], x)
      <4>1. PICK s \in PartsOf(p) : queue'[x] = Closed(s[1], s[2], x)
        BY <3>4
      <4>2. u \in s[1] .. s[2]
        BY <3>1, <4>1 DEF Closed
      <4> QED  BY <1>2, <2>1, <4>2
    <3> QED  BY <1>2, <3>1, <3>2, <3>3, <3>4, EntryAfterRound
  <2> QED  BY <1>9, <2>2, <2>3
<1>10. \A x : x \in Ahead' <=> x \in Ahead /\ x # <<p, v>>
  <2> SUFFICES ASSUME NEW u \in InRange, NEW d \in DocIds, d \in ListOf(u)
               PROVE  Opened(queue', u, d) \/ Covered(queue', u) <=>
                      (Opened(queue, u, d) \/ Covered(queue, u)) /\ ~(u = p /\ d = v)
    <3> HIDE DEF v, InRange, Opened, Covered
    <3>1. \A x \in InRange \X DocIds :
              x[1] \in InRange /\ x[2] \in DocIds /\ (x # <<p, v>> <=> ~(x[1] = p /\ x[2] = v))
      OBVIOUS
    <3> QED  BY <1>3, <1>4, <3>1
  <2> QED  BY <1>8, <1>9
<1> QED  BY <1>7, <1>10

-----------------------------------------------------------------------------
(***************************************************************************)
(* Every step of a query of one token keeps the invariant.                 *)
(***************************************************************************)
LEMMA TokenQueryKeeps ==
    ASSUME XInv, TokenQuery
    PROVE  XInv'
<1>1. Ask({}) /\ UNCHANGED vars /\ UNCHANGED <<slots, sizes>>
  BY DEF TokenQuery, StartMinimal
<1>2. /\ phase = "idle" /\ phase' = "search" /\ k' \in 1 .. MaxK /\ results' = 0
      /\ reply' = <<>> /\ terms' = {} /\ rng' \in TermRanges
      /\ scores' = scores /\ corpus' = corpus
  BY <1>1 DEF Ask, StartQuery
<1>3. IInv' /\ pc' = "none"
  <2>1. pc = "none"
    BY <1>2 DEF XInv, Located, IInv, TypeOK
  <2>2. IInv'
    BY <1>1, StepPreserves DEF XInv
  <2> QED  BY <1>1, <2>1, <2>2 DEF vars
<1>4. QueryTypeOK'
  <2>1. k' \in Nat /\ 0 \in 0 .. k' /\ reply' \in Seq(DocIds)
    BY <1>2, EmptySeq
  <2> QED  BY <1>2, <2>1 DEF XInv, QueryTypeOK, PoolTypeOK, Scores, Corpora
<1>5. Filled' = {} /\ ScoresSorted'
  BY <1>2 DEF Filled, ScoresSorted
<1> DEFINE lo == rng'.begin - 1
           hi == rng'.end - 1
<1>6. PICK p \in Minima(lo, hi) : queue' = With(EmptyQueue, p, Closed(lo, hi, p))
  BY DEF TokenQuery, StartMinimal
<1>7. DOMAIN queue' = {p} /\ queue'[p] = Closed(lo, hi, p)
  <2>1. DOMAIN EmptyQueue = {}
    BY DEF EmptyQueue
  <2> QED  BY <1>6, <2>1 DEF With
<1>8. queue'[p] = [open |-> FALSE, begin |-> lo, end |-> hi, value |-> MinimalDocId(p)]
  BY <1>7 DEF Closed
<1>9. /\ lo \in Positions /\ hi \in Positions /\ lo \in Int /\ hi \in Int
      /\ lo = FirstPosition' /\ hi = LastPosition'
      /\ \A x \in lo .. hi : x + 1 \in TermIds
  BY <1>2, NumTermsAssumption DEF TermRanges, TermIds, Positions, FirstPosition, LastPosition
<1>10. p \in lo .. hi
  BY <1>6 DEF Minima
<1>11. /\ MinimalDocId(p) \in ListOf(p) /\ MinimalDocId(p) \in DocIds
  <2>1. ListOf(p) \in PostingLists
    BY <1>9, <1>10, PostingIsList DEF XInv, QueryTypeOK, ListOf
  <2> QED  BY <2>1, FirstFacts DEF MinimalDocId
<1> HIDE DEF lo, hi
<1>12. \A a, b, x : /\ (ListOf(x))' = ListOf(x) /\ (MinimalDocId(x))' = MinimalDocId(x)
                    /\ (Minima(a, b))' = Minima(a, b)
  BY <1>2 DEF ListOf, Posting, MinimalDocId, Minima
<1>13. p \in Positions
  <2>1. lo \in Int /\ hi \in Int /\ lo >= 0 /\ hi <= NumTerms - 1 /\ NumTerms \in Nat
    BY <1>9, NumTermsAssumption DEF Positions
  <2> QED  BY <1>10, <2>1 DEF Positions
<1>14. queue'[p] \in Entries
  BY <1>8, <1>9, <1>11 DEF Entries
<1>15. QueueShape'
  BY <1>6, <1>7, <1>8, <1>9, <1>10, <1>11, <1>12, <1>14 DEF QueueShape
<1>16. RangesDisjoint'
  BY <1>7 DEF RangesDisjoint
<1>17. TokenSoFar'
  BY <1>2, <1>5 DEF TokenSoFar
<1>18. FoundOrCovered'
  <2> SUFFICES ASSUME NEW x \in FirstPosition' .. LastPosition', NEW d \in ListOf(x)
               PROVE  <<x, d>> \in Ahead'
    BY <1>12 DEF FoundOrCovered, FirstPosition, LastPosition
  <2>1. d \in DocIds
    BY DEF ListOf, Posting
  <2>2. x \in queue'[p].begin .. queue'[p].end
    BY <1>8, <1>9
  <2> QED  BY <1>7, <1>8, <1>12, <2>1, <2>2 DEF Ahead, FirstPosition, LastPosition
<1>19. Located'
  BY <1>2, <1>3, <1>15, <1>17 DEF Located, Merging
<1>20. StringsInv'
  BY <1>1, <1>2 DEF XInv, StringsInv, Merging, StringsFollowScores, NothingYet, Buffers
<1> QED  BY <1>3, <1>4, <1>5, <1>16, <1>18, <1>19, <1>20 DEF XInv

(***************************************************************************)
(* What a completion that comes up adds to the scores.                     *)
(***************************************************************************)
LEMMA TokenRecords ==
    ASSUME XInv, Merging, NEW p \in TopEntry, Record(queue[p].value), queue[p].value \notin Filled,
           UNCHANGED <<corpus, terms, rng>>, phase' \in {"search", "extract"}
    PROVE  /\ QueryTypeOK' /\ ScoresSorted'
           /\ Filled' = Filled \cup {queue[p].value}
           /\ results' = results + 1 /\ k' = k /\ reply' = reply
           /\ results \in Nat /\ k \in Nat /\ results < k
<1> DEFINE v == queue[p].value
<1>1. v \in DocIds /\ v \in Nat /\ \A s \in Filled : s \in Nat /\ s <= v
  BY TokenTop
<1>2. QueryTypeOK /\ ScoresSorted /\ results < k
  BY DEF XInv, Located, TokenSoFar
<1>3. results \in Nat /\ k \in Nat
  BY <1>2, PoolNumbers
<1> HIDE DEF v
<1>4. v \notin Filled /\ Record(v)
  BY DEF v
<1>5. \A s \in Filled : s < v
  BY <1>1, <1>4
<1>6. /\ scores' \in Scores
      /\ results' = results + 1 /\ results' \in 0 .. k' /\ k' = k /\ reply' = reply
      /\ Filled' = Filled \cup {v} /\ ScoresSorted'
  BY <1>1, <1>2, <1>4, <1>5, RecordAdds
<1>7. QueryTypeOK'
  BY <1>2, <1>6 DEF QueryTypeOK, PoolTypeOK, Scores, Corpora
<1> QED  BY <1>2, <1>3, <1>6, <1>7 DEF v

(***************************************************************************)
(* A round that is not the last one, and all it does.                      *)
(***************************************************************************)
LEMMA VisitFacts ==
    ASSUME XInv, Visit
    PROVE  /\ Merging /\ UNCHANGED <<phase, corpus, terms, rng>>
           /\ \E p \in TopEntry :
                 /\ AfterRound(p, queue')
                 /\ Filled' = Filled \cup {queue[p].value}
                 /\ QueryTypeOK' /\ ScoresSorted' /\ results' < k' /\ reply' = reply
<1>1. Merging /\ UNCHANGED <<phase, corpus, terms, rng>> /\ phase = "search"
  BY DEF Visit, Merging
<1>2. PICK p \in TopEntry :
         /\ ~Completes(queue[p].value)
         /\ NoteNew(queue[p].value) \/ NotePresent(queue[p].value)
         /\ queue' \in IF queue[p].open THEN {MovedOn(p)} ELSE Split(p)
  BY DEF Visit
<1>3. AfterRound(p, queue')
  <2>1. p \in DOMAIN queue
    BY DEF TopEntry
  <2> QED  BY <1>1, <1>2, <2>1, RoundFacts
<1>4. CASE NotePresent(queue[p].value)
  <2>1. queue[p].value \in Filled /\ UNCHANGED <<scores, results, k, reply>>
    BY <1>4 DEF NotePresent, AlreadyPresent
  <2>2. Filled' = Filled
    BY <2>1 DEF Filled
  <2>3. QueryTypeOK' /\ ScoresSorted'
    BY <1>1, <2>1 DEF XInv, QueryTypeOK, PoolTypeOK, Scores, Corpora, ScoresSorted
  <2>4. results < k
    BY <1>1 DEF XInv, Located, TokenSoFar
  <2> QED  BY <1>1, <1>3, <2>1, <2>2, <2>3, <2>4
<1>5. CASE NoteNew(queue[p].value)
  <2>1. /\ queue[p].value \notin Filled /\ Record(queue[p].value) /\ results + 1 # k
    BY <1>2, <1>5 DEF NoteNew, AlreadyPresent, Completes
  <2>2. /\ QueryTypeOK' /\ ScoresSorted'
        /\ Filled' = Filled \cup {queue[p].value}
        /\ results' = results + 1 /\ k' = k /\ reply' = reply
        /\ results \in Nat /\ k \in Nat /\ results < k
    BY <1>1, <2>1, TokenRecords
  <2>3. results' < k'
    BY <2>1, <2>2
  <2> QED  BY <1>1, <1>3, <2>2, <2>3
<1> QED  BY <1>2, <1>4, <1>5

LEMMA TokenStepKeeps ==
    ASSUME XInv, TokenStep
    PROVE  XInv'
<1>1. Visit /\ UNCHANGED vars /\ UNCHANGED <<slots, sizes>>
  BY DEF TokenStep
<1>2. Merging /\ UNCHANGED <<phase, corpus, terms, rng>> /\ phase = "search" /\ terms = {}
  BY <1>1, VisitFacts DEF Merging
<1>3. PICK p \in TopEntry :
          /\ AfterRound(p, queue')
          /\ Filled' = Filled \cup {queue[p].value}
          /\ QueryTypeOK' /\ ScoresSorted' /\ results' < k' /\ reply' = reply
  BY <1>1, VisitFacts
<1> DEFINE v == queue[p].value
<1>4. /\ p \in DOMAIN queue /\ v \in Target /\ v \in Nat
      /\ \A s \in Filled : s \in Nat /\ s <= v
  BY <1>2, TokenTop
<1>5. /\ QueueShape'
      /\ \A u \in DOMAIN queue' : queue'[u].value \in Nat /\ v <= queue'[u].value
  BY <1>2, <1>3, RoundKeepsShape
<1>6. RangesDisjoint'
  BY <1>2, <1>3, <1>4, RoundKeepsDisjoint
<1>7. Ahead' = Ahead \ {<<p, v>>}
  BY <1>2, <1>3, RoundTakesOne
<1> HIDE DEF v
<1>8. Filled' = Filled \cup {v}
  BY <1>3 DEF v
<1>9. FoundOrCovered'
  <2> SUFFICES ASSUME NEW x \in rng.begin - 1 .. rng.end - 1, NEW d \in ListOf(x)
               PROVE  d \in Filled' \/ <<x, d>> \in Ahead'
    BY <1>2 DEF FoundOrCovered, ListOf, Posting
  <2>1. d \in Filled \/ <<x, d>> \in Ahead
    BY <1>2 DEF XInv, FoundOrCovered
  <2> QED  BY <1>7, <1>8, <2>1
<1>10. TokenSoFar'
  <2>1. Target' = Target /\ Filled \subseteq Target
    BY <1>2 DEF Target, Matches, XInv, Located, TokenSoFar
  <2>2. \A s \in Filled' : s \in Nat /\ s <= v
    BY <1>4, <1>8
  <2>3. \A s \in Filled' : \A u \in DOMAIN queue' : s <= queue'[u].value
    BY <1>4, <1>5, <2>2
  <2> QED  BY <1>3, <1>4, <1>8, <2>1, <2>3 DEF TokenSoFar
<1>11. IInv' /\ pc' = pc /\ pc = "none"
  <2>1. IInv'
    BY <1>1, StepPreserves DEF XInv
  <2> QED  BY <1>1, <1>2, <2>1 DEF vars, XInv, Located, IInv, TypeOK
<1>12. Located' /\ Merging'
  BY <1>2, <1>5, <1>10, <1>11 DEF Located, Merging
<1>13. StringsInv'
  <2>1. reply = <<>>
    BY <1>2 DEF XInv, StringsInv, NothingYet
  <2> QED  BY <1>1, <1>3, <1>12, <2>1 DEF XInv, StringsInv, StringsFollowScores, NothingYet, Buffers
<1> QED  BY <1>3, <1>6, <1>9, <1>11, <1>12, <1>13 DEF XInv

(***************************************************************************)
(* The loop ends at the k-th result, or with nothing left to find; what it *)
(* leaves in the queue does no harm.                                       *)
(***************************************************************************)
LEMMA LastFacts ==
    ASSUME XInv, VisitLast
    PROVE  QueryTypeOK' /\ ScoresSorted' /\ FilledBest' /\ reply' = reply /\ k' = k
<1>1. Merging /\ phase' = "extract" /\ UNCHANGED <<corpus, terms, rng>>
  BY DEF VisitLast
<1>2. PICK p \in TopEntry : Completes(queue[p].value) /\ Record(queue[p].value)
  BY DEF VisitLast
<1>3. queue[p].value \notin Filled /\ results + 1 = k
  BY <1>2 DEF Completes, AlreadyPresent
<1>4. /\ QueryTypeOK' /\ ScoresSorted'
      /\ Filled' = Filled \cup {queue[p].value}
      /\ results' = results + 1 /\ k' = k /\ reply' = reply
  BY <1>1, <1>2, <1>3, TokenRecords
<1> DEFINE v == queue[p].value
<1>5. /\ v \in Target /\ v \in Nat
      /\ \A s \in Filled : s \in Nat /\ s <= v
      /\ \A d \in Target : d \in Nat /\ (d \in Filled \/ v <= d)
  BY <1>1, TokenTop
<1>6. Target' = Target /\ Filled \subseteq Target
  BY <1>1 DEF Target, Matches, Merging, XInv, Located, TokenSoFar
<1> HIDE DEF v
<1>7. Filled' = Filled \cup {v}
  BY <1>4 DEF v
<1>8. ASSUME NEW d \in Target', d \notin Filled'
      PROVE  results' = k' /\ \A s \in Filled' : s < d
  <2>1. d \in Nat /\ v <= d /\ v # d
    BY <1>5, <1>6, <1>7, <1>8
  <2>2. \A s \in Filled' : s \in Nat /\ s <= v
    BY <1>5, <1>7
  <2> QED  BY <1>3, <1>4, <1>5, <2>1, <2>2
<1>9. FilledBest'
  BY <1>5, <1>6, <1>7, <1>8 DEF FilledBest
<1> QED  BY <1>4, <1>9

LEMMA EmptiedFacts ==
    ASSUME XInv, Emptied
    PROVE  QueryTypeOK' /\ ScoresSorted' /\ FilledBest' /\ reply' = reply /\ k' = k
<1>1. /\ Merging /\ queue = EmptyQueue /\ phase' = "extract" /\ phase = "search"
      /\ UNCHANGED <<scores, k, results, reply, corpus, terms, rng, queue>>
  BY DEF Emptied, Merging
<1>2. /\ QueryTypeOK' /\ ScoresSorted' /\ Filled' = Filled /\ Target' = Target
  BY <1>1 DEF XInv, QueryTypeOK, PoolTypeOK, Scores, Corpora, ScoresSorted, Filled, Target, Matches
<1>3. Filled \subseteq Target /\ QueryTypeOK /\ FoundOrCovered
  BY <1>1 DEF XInv, Located, TokenSoFar
<1>4. Ahead = {}
  <2>1. DOMAIN queue = {}
    BY <1>1 DEF EmptyQueue
  <2> QED  BY <2>1 DEF Ahead
<1>5. ASSUME NEW d \in Target
      PROVE  d \in Filled
  <2>1. d \in DocIds
    BY TargetInJoin
  <2>2. PICK t \in rng.begin .. rng.end : t \in corpus[d]
    BY <1>1 DEF Target, Matches, Merging
  <2>3. rng.begin \in Int /\ rng.end \in Int
    BY <1>3, NumTermsAssumption DEF QueryTypeOK, TermRanges, TermIds
  <2> DEFINE u == t - 1
  <2>4. u \in rng.begin - 1 .. rng.end - 1 /\ u + 1 = t
    BY <2>3
  <2>5. d \in ListOf(u)
    BY <2>1, <2>2, <2>4 DEF ListOf, Posting
  <2> HIDE DEF u
  <2> QED  BY <1>1, <1>3, <1>4, <2>4, <2>5 DEF FoundOrCovered
<1>6. FilledBest'
  BY <1>2, <1>3, <1>5 DEF FilledBest
<1> QED  BY <1>1, <1>2, <1>6

LEMMA SlotsBelow ==
    ASSUME NEW n \in Nat, NEW m \in Nat, n <= m
    PROVE  \A i \in 0 .. n - 1 : i \in 0 .. m - 1 /\ i < n
OBVIOUS

LEMMA WithScoresFollow ==
    ASSUME QueryTypeOK', NEW buffer \in Buffers
    PROVE  /\ WithScores(buffer) \in Buffers
           /\ \A i \in 0 .. results' - 1 : WithScores(buffer)[i] = scores'[i]
<1>1. /\ results' \in Nat /\ k' \in Nat /\ results' <= k' /\ k' <= MaxK /\ MaxK \in Nat
      /\ scores' \in [0 .. MaxK - 1 -> DocIds]
  BY MaxKAssumption DEF QueryTypeOK, PoolTypeOK, Scores
<1>2. buffer \in [0 .. MaxK - 1 -> 0 .. NumDocs] /\ DOMAIN buffer = 0 .. MaxK - 1
  BY DEF Buffers
<1>3. \A i \in 0 .. MaxK - 1 : scores'[i] \in 0 .. NumDocs
  BY <1>1, NumDocsAssumption DEF DocIds
<1>4. WithScores(buffer) \in Buffers
  BY <1>2, <1>3 DEF WithScores, Buffers
<1>5. \A i \in 0 .. results' - 1 : i \in 0 .. MaxK - 1 /\ i < results'
  BY <1>1, SlotsBelow
<1> QED  BY <1>2, <1>4, <1>5 DEF WithScores

LEMMA TokenEndKeeps ==
    ASSUME XInv, TokenEnd
    PROVE  XInv'
<1>1. /\ Merging /\ phase' = "extract" /\ phase = "search" /\ terms = {}
      /\ UNCHANGED <<vars, corpus, terms, rng, queue>>
      /\ slots' = WithScores(slots) /\ sizes' = WithScores(sizes)
  BY DEF TokenEnd, VisitLast, Emptied, Merging
<1>2. QueryTypeOK' /\ ScoresSorted' /\ FilledBest' /\ reply' = reply /\ k' = k
  BY LastFacts, EmptiedFacts DEF TokenEnd
<1>3. IInv' /\ pc' = "none"
  <2>1. IInv' /\ pc = "none"
    BY <1>1, StepPreserves DEF XInv, Located, IInv, TypeOK
  <2> QED  BY <1>1, <2>1 DEF vars
<1>4. Located' /\ FoundOrCovered'
  BY <1>1, <1>2, <1>3 DEF Located, Merging, FoundOrCovered
<1>5. RangesDisjoint'
  BY <1>1 DEF XInv, RangesDisjoint
<1>6. StringsInv'
  <2>1. slots' \in Buffers /\ sizes' \in Buffers /\ SlotsFollowScores'
    BY <1>1, <1>2, WithScoresFollow DEF XInv, StringsInv, SlotsFollowScores
  <2>2. reply' = <<>>
    BY <1>1, <1>2 DEF XInv, StringsInv, NothingYet
  <2> QED  BY <2>1, <2>2 DEF StringsInv, StringsFollowScores, NothingYet
<1> QED  BY <1>2, <1>3, <1>4, <1>5, <1>6 DEF XInv

-----------------------------------------------------------------------------
(***************************************************************************)
(* The steps of the other queries are those of module LexiconTopk.         *)
(***************************************************************************)
LEMMA LexStepFacts ==
    ASSUME XInv, TermsQuery \/ TermsStep \/ IndexExtract
    PROVE  /\ LInv /\ ~Merging /\ [LexNext]_lexVars
           /\ UNCHANGED queue
           /\ phase' = "search" => terms' # {}
<1>1. CASE TermsQuery
  <2>1. LexQuery /\ Query /\ UNCHANGED queue
    BY <1>1 DEF TermsQuery, LexQuery
  <2>2. PICK prefix \in Prefixes : Ask(Range(prefix))
    BY <2>1 DEF Query
  <2>3. phase = "idle" /\ terms' = Range(prefix)
    BY <2>2 DEF Ask, StartQuery
  <2>4. terms' # {}
    <3>1. Cardinality(Range(prefix)) # 0
      BY PrefixSize
    <3> QED  BY <2>3, <3>1, FS_EmptySet
  <2> QED  BY <2>1, <2>3, <2>4, LexPart DEF LexNext, Merging
<1>2. CASE TermsStep
  <2>1. UNCHANGED queue /\ (LexIterate \/ LexSkip \/ LexKeep \/ LexExhausted)
    BY <1>2 DEF TermsStep
  <2>2. pc # "none" /\ UNCHANGED terms
    BY <2>1
    DEF LexIterate, Iterate, Agree, Disagree, Return, LexSkip, Skip, LexKeep, Keep, KeepLast,
        Hit, Found, LexExhausted, Exhausted, queryVars
  <2>3. terms # {}
    BY <2>2 DEF XInv, Located
  <2> QED  BY <2>1, <2>2, <2>3, LexPart DEF LexNext, Merging
<1>3. CASE IndexExtract
  <2>1. /\ LexExtractStrings /\ UNCHANGED queue
        /\ phase = "extract" /\ phase' = "idle"
    BY <1>3 DEF IndexExtract, LexExtractStrings, Forget, EndQuery
  <2> QED  BY <2>1, LexPart DEF LexNext, Merging
<1> QED  BY <1>1, <1>2, <1>3

LEMMA LexStepsKeepAll ==
    ASSUME XInv, TermsQuery \/ TermsStep \/ IndexExtract
    PROVE  XInv'
<1>1. /\ LInv /\ [LexNext]_lexVars
      /\ UNCHANGED queue
      /\ phase' = "search" => terms' # {}
  BY LexStepFacts
<1>2. LInv'
  BY <1>1, LexStepPreserves
<1>3. RangesDisjoint'
  BY <1>1 DEF XInv, RangesDisjoint
<1> QED  BY <1>1, <1>2, <1>3, LexStepsKeep

LEMMA IndexStutterKeeps ==
    ASSUME XInv, UNCHANGED indexVars
    PROVE  XInv'
<1>1. /\ UNCHANGED <<pc, lists, cur, cand, mi, val, out>>
      /\ UNCHANGED <<phase, scores, k, results, reply, corpus, terms, rng>>
      /\ UNCHANGED <<slots, sizes, queue>>
  BY DEF indexVars, lexVars, searchVars, vars, queryVars, poolVars
<1>2. CASE Merging
  <2>1. IInv'
    BY <1>1, StepPreserves DEF XInv, vars
  <2>2. QueryTypeOK' /\ ScoresSorted' /\ RangesDisjoint' /\ Filled' = Filled /\ Target' = Target
    BY <1>1
    DEF XInv, QueryTypeOK, PoolTypeOK, Scores, Corpora, ScoresSorted, RangesDisjoint, Filled,
        Target, Matches
  <2>3. QueueShape'
    <3>1. QueueShape
      BY <1>2 DEF XInv, Located
    <3>2. corpus' = corpus /\ rng' = rng /\ queue' = queue
      BY <1>1
    <3> QED
      BY <3>1, <3>2, ZenonT(60)
      DEF QueueShape, FirstPosition, LastPosition, ListOf, Posting, MinimalDocId, Minima
  <2>4. FoundOrCovered'
    BY <1>1, <2>2 DEF XInv, FoundOrCovered, Merging, Ahead, ListOf, Posting
  <2>5. Located'
    BY <1>1, <1>2, <2>2, <2>3 DEF XInv, Located, Merging, TokenSoFar, IInv, TypeOK
  <2>6. StringsInv'
    BY <1>1, <1>2
    DEF XInv, StringsInv, Merging, Buffers, StringsFollowScores, NothingYet
  <2> QED  BY <2>1, <2>2, <2>4, <2>5, <2>6 DEF XInv
<1>3. CASE ~Merging
  <2>1. LInv'
    BY <1>1, <1>3, LexPart, LexQuietKeeps DEF indexVars
  <2>2. RangesDisjoint'
    BY <1>1 DEF XInv, RangesDisjoint
  <2> QED  BY <1>1, <1>3, <2>1, <2>2, LexStepsKeep DEF Merging
<1> QED  BY <1>2, <1>3

LEMMA IndexInitHolds == IndexInit => XInv
<1> SUFFICES ASSUME IndexInit
             PROVE  XInv
  OBVIOUS
<1>1. LInv
  BY LexInitHolds DEF IndexInit
<1>2. phase = "idle" /\ DOMAIN queue = {}
  BY DEF IndexInit, LexInit, SearchInit, QueryInit, PoolInit, EmptyQueue
<1>3. RangesDisjoint
  BY <1>2 DEF RangesDisjoint
<1> QED
  BY <1>1, <1>2, <1>3
  DEF XInv, LInv, SInv, Located, StringsInv, Frame, Merging, FoundOrCovered

LEMMA IndexStepPreserves == XInv /\ [IndexNext]_indexVars => XInv'
<1> SUFFICES ASSUME XInv, [IndexNext]_indexVars
             PROVE  XInv'
  OBVIOUS
<1>1. CASE TermsQuery \/ TermsStep \/ IndexExtract  BY <1>1, LexStepsKeepAll
<1>2. CASE TokenQuery  BY <1>2, TokenQueryKeeps
<1>3. CASE TokenStep   BY <1>3, TokenStepKeeps
<1>4. CASE TokenEnd    BY <1>4, TokenEndKeeps
<1>5. CASE UNCHANGED indexVars  BY <1>5, IndexStutterKeeps
<1> QED  BY <1>1, <1>2, <1>3, <1>4, <1>5 DEF IndexNext, IndexRun

LEMMA IndexInductive == IndexSpec => []XInv
BY IndexInitHolds, IndexStepPreserves, PTL DEF IndexSpec

-----------------------------------------------------------------------------
(***************************************************************************)
(* The strings of the pool belong to its scores, whichever of the two ways *)
(* of answering has written the buffer of completions last.                *)
(***************************************************************************)
THEOREM IndexStrings == IndexSpec => []StringsFollowScores
<1>1. XInv => StringsFollowScores
  BY DEF XInv, StringsInv
<1> QED  BY <1>1, IndexInductive, PTL

(***************************************************************************)
(* Splitting the ranges of the queue loses no completion: each one of the  *)
(* range is found or still to come up in every list that holds it.         *)
(***************************************************************************)
THEOREM TokenCovers == IndexSpec => []FoundOrCovered
<1>1. XInv => FoundOrCovered
  BY DEF XInv
<1> QED  BY <1>1, IndexInductive, PTL

(***************************************************************************)
(* The ranges in the queue never overlap: no list is opened twice.         *)
(***************************************************************************)
THEOREM TokenDisjoint == IndexSpec => []RangesDisjoint
<1>1. XInv => RangesDisjoint
  BY DEF XInv
<1> QED  BY <1>1, IndexInductive, PTL

(***************************************************************************)
(* Every round of the loop over the queue takes one entry of one list, so  *)
(* their number is a bound on the rounds of a query.                       *)
(***************************************************************************)
THEOREM TokenProgress == IndexSpec => RoundsTakeOne
<1>1. ASSUME XInv, [IndexNext]_indexVars
      PROVE  [Merging /\ Merging' => \E x \in Ahead : Ahead' = Ahead \ {x}]_queueVars
  <2>1. CASE TermsQuery \/ TermsStep \/ IndexExtract
    BY <1>1, <2>1, LexStepFacts
  <2>2. CASE TokenQuery
    <3>1. phase = "idle"
      BY <2>2 DEF TokenQuery, StartMinimal, Ask, StartQuery
    <3> QED  BY <3>1 DEF Merging
  <2>3. CASE TokenStep
    <3>1. Visit
      BY <2>3 DEF TokenStep
    <3>2. Merging /\ UNCHANGED <<phase, corpus, terms, rng>>
      BY <1>1, <3>1, VisitFacts
    <3>3. PICK p \in TopEntry : AfterRound(p, queue')
      BY <1>1, <3>1, VisitFacts
    <3>4. /\ <<p, queue[p].value>> \in Ahead
          /\ Ahead' = Ahead \ {<<p, queue[p].value>>}
      BY <1>1, <3>2, <3>3, RoundTakesOne
    <3> QED  BY <3>4
  <2>4. CASE TokenEnd
    <3>1. phase' = "extract"
      BY <2>4 DEF TokenEnd, VisitLast, Emptied
    <3> QED  BY <3>1 DEF Merging
  <2>5. CASE UNCHANGED indexVars
    <3>1. UNCHANGED queueVars
      BY <2>5 DEF indexVars, lexVars, searchVars, queueVars
    <3> QED  BY <3>1
  <2> QED  BY <1>1, <2>1, <2>2, <2>3, <2>4, <2>5 DEF IndexNext, IndexRun
<1>2. XInv /\ [IndexNext]_indexVars =>
          [Merging /\ Merging' => \E x \in Ahead : Ahead' = Ahead \ {x}]_queueVars
  BY <1>1
<1> QED  BY <1>2, IndexInductive, PTL DEF IndexSpec, RoundsTakeOne

(***************************************************************************)
(* A query of several tokens has, as on an index of type 1, recorded every *)
(* match that the iterator has passed.                                     *)
(***************************************************************************)
THEOREM IndexComplete == IndexSpec => []ScoresComplete
<1>1. XInv => ScoresComplete
  <2> SUFFICES ASSUME XInv
               PROVE  ScoresComplete
    OBVIOUS
  <2>1. CASE terms = {}
    BY <2>1 DEF ScoresComplete
  <2>2. CASE terms # {}
    <3>1. SInv
      BY <2>2, LexPart DEF Merging, LInv
    <3> QED  BY <3>1, LeftBehindIsFilled
  <2> QED  BY <2>1, <2>2
<1> QED  BY <1>1, IndexInductive, PTL

-----------------------------------------------------------------------------
(***************************************************************************)
(* The iterator of the queries of several tokens is the one of module      *)
(* Intersection; a query of one token leaves it alone.  So what is proved  *)
(* of it there holds here.                                                 *)
(***************************************************************************)
THEOREM IndexIterates == IndexSpec => Spec
<1>1. IndexInit => Init
  BY DEF IndexInit, LexInit, SearchInit
<1>2. XInv /\ [IndexNext]_indexVars => [Next]_vars
  <2> SUFFICES ASSUME XInv, [IndexNext]_indexVars
               PROVE  [Next]_vars
    OBVIOUS
  <2>1. CASE TermsQuery \/ TermsStep \/ IndexExtract
    <3>1. LInv /\ [LexNext]_lexVars
      BY <2>1, LexStepFacts
    <3>2. [SearchNext]_searchVars /\ QueryTypeOK
      BY <3>1, LexStepIsSearchStep DEF LInv, SInv
    <3> QED  BY <3>2, StepOfIterator
  <2>2. CASE TokenQuery \/ TokenStep \/ TokenEnd
    BY <2>2 DEF TokenQuery, TokenStep, TokenEnd
  <2>3. CASE UNCHANGED indexVars
    BY <2>3 DEF indexVars, lexVars, searchVars
  <2> QED  BY <2>1, <2>2, <2>3 DEF IndexNext, IndexRun
<1> QED  BY <1>1, <1>2, IndexInductive, PTL DEF IndexSpec, Spec

(***************************************************************************)
(* Under whatever queries the index gets, the iterator reports exactly the *)
(* common completions, seeks only forward and implements SortedStream.     *)
(***************************************************************************)
THEOREM IndexStreams ==
    IndexSpec => []ReportsExactly /\ []NeverSeeksBackward /\ RefinesStream
BY IndexIterates, Exactness, ForwardOnly, Refinement, PTL

-----------------------------------------------------------------------------
(***************************************************************************)
(* The loop over the queue, from its first entry to the last result, is    *)
(* invisible in the promise.                                               *)
(***************************************************************************)
LEMMA TokenLoopStutters ==
    ASSUME XInv, TokenStep \/ TokenEnd
    PROVE  UNCHANGED Promise!vars
<1>1. k' = k /\ reply' = reply /\ UNCHANGED <<corpus, terms, rng>>
  BY DEF TokenStep, TokenEnd, Visit, VisitLast, Emptied, NoteNew, NotePresent, Record
<1>2. phase = "search" /\ phase' \in {"search", "extract"}
  BY DEF TokenStep, TokenEnd, Visit, VisitLast, Emptied, Merging
<1>3. (phase # "idle")' = (phase # "idle")
  BY <1>2
<1>4. Target' = Target
  BY <1>1, <1>3 DEF Target, Matches
<1> QED  BY <1>1, <1>3, <1>4 DEF Promise!vars

LEMMA TokenQueryAsks ==
    ASSUME TokenQuery
    PROVE  Promise!Ask
<1>1. /\ phase = "idle" /\ phase' = "search" /\ k' \in 1 .. MaxK /\ reply' = <<>>
  BY DEF TokenQuery, StartMinimal, Ask, StartQuery
<1>2. Target' \in SUBSET DocIds
  BY DEF Target, Matches
<1>3. (phase # "idle")' = TRUE
  BY <1>1
<1> QED  BY <1>1, <1>2, <1>3 DEF Promise!Ask, Promise!DocIds, DocIds

(***************************************************************************)
(* An index of type 2 answers every query, of one token or of several,     *)
(* with the k best completions that match, each one once, the best first.  *)
(***************************************************************************)
THEOREM IndexAnswers == IndexSpec => RefinesTopK
<1>1. IndexInit => Promise!Init
  BY DEF IndexInit, LexInit, SearchInit, QueryInit, PoolInit, Target, Promise!Init
<1>2. XInv /\ [IndexNext]_indexVars => [Promise!Next]_(Promise!vars)
  <2> SUFFICES ASSUME XInv, [IndexNext]_indexVars
               PROVE  [Promise!Next]_(Promise!vars)
    OBVIOUS
  <2>1. CASE TermsQuery
    <3>1. SInv /\ Query
      BY <2>1, LexStepFacts DEF LInv, TermsQuery, LexQuery
    <3> QED  BY <3>1, QueryAsks DEF Promise!Next
  <2>2. CASE TokenQuery
    BY <2>2, TokenQueryAsks DEF Promise!Next
  <2>3. CASE IndexExtract
    <3>1. LInv
      BY <2>3, LexStepFacts
    <3>2. Answered
      BY <2>3, <3>1, DecodedIsExtracted
      DEF IndexExtract, LexExtractStrings, Answered, ExtractStrings
    <3> QED  BY <3>1, <3>2, AnsweredReplies DEF LInv, Promise!Next
  <2>4. CASE TermsStep
    <3>1. Iterate \/ Skip \/ Keep \/ KeepLast \/ Exhausted
      BY <2>4 DEF TermsStep, LexIterate, LexSkip, LexKeep, LexExhausted
    <3> QED  BY <3>1, LoopStutters
  <2>5. CASE TokenStep \/ TokenEnd
    BY <2>5, TokenLoopStutters
  <2>6. CASE UNCHANGED indexVars
    BY <2>6, LoopStutters DEF indexVars, lexVars
  <2> QED  BY <2>1, <2>2, <2>3, <2>4, <2>5, <2>6 DEF IndexNext, IndexRun
<1> QED
  BY <1>1, <1>2, IndexInductive, PTL DEF IndexSpec, RefinesTopK, Promise!Spec

-----------------------------------------------------------------------------
(***************************************************************************)
(* Type 3, module SuffixHeapTopk: the heap of cursors misses no completion *)
(* of the range.                                                           *)
(***************************************************************************)

(***************************************************************************)
(* The inductive invariant.  Outside the merge it is that of the search of *)
(* type 1 (SInv).  The merge, which has no iterator, keeps in its place    *)
(* that the scores are matches not worse than any cursor (MergeSoFar).     *)
(***************************************************************************)
HeapTyped ==
    /\ DOMAIN heap \subseteq rng.begin .. rng.end
    /\ \A t \in DOMAIN heap : heap[t] \in Posting(corpus, t)
    /\ inner \in BOOLEAN
    /\ inner => Found
    /\ phase # "search" => heap = EmptyHeap

MergeSoFar ==
    /\ results < k
    /\ Filled \subseteq Target
    /\ \A s \in Filled : \A t \in DOMAIN heap : s <= heap[t]

Placed ==
    /\ pc # "none" <=> phase = "search" /\ terms # {}
    /\ pc # "none" => Joined /\ FilledSoFar
    /\ Merging => MergeSoFar
    /\ phase = "extract" => FilledBest

\* No cursor has passed a member of its list that is at or after the bound.
NoneBehind(bound) ==
    \A t \in rng.begin .. rng.end : \A d \in Posting(corpus, t) :
        d >= bound => t \in DOMAIN heap /\ heap[t] <= d

HInv ==
    /\ IInv
    /\ QueryTypeOK
    /\ ScoresSorted
    /\ Placed
    /\ HeapTyped
    /\ HeapNeverAhead
    /\ FoundOrAhead

(***************************************************************************)
(* Without a merge, the invariant is that of the search.                   *)
(***************************************************************************)
LEMMA SearchPart ==
    ASSUME HInv, ~Merging
    PROVE  SInv
BY DEF HInv, SInv, Placed, Frame, Merging

(***************************************************************************)
(* Without cursors there is nothing to say of them.                        *)
(***************************************************************************)
LEMMA NoCursors ==
    ASSUME heap' = EmptyHeap, phase' # "search", inner' = FALSE
    PROVE  HeapTyped' /\ HeapNeverAhead'
<1>1. DOMAIN heap' = {}
  BY DEF EmptyHeap
<1> QED  BY <1>1 DEF HeapTyped, HeapNeverAhead

(***************************************************************************)
(* The terms of the range have posting lists.                              *)
(***************************************************************************)
LEMMA RangeLists ==
    ASSUME QueryTypeOK, NEW t \in rng.begin .. rng.end
    PROVE  /\ t \in TermIds
           /\ Posting(corpus, t) \in PostingLists
           /\ Posting(corpus, t) \subseteq DocIds
<1>1. /\ rng.begin \in 1 .. NumTerms /\ rng.end \in 1 .. NumTerms
      /\ NumTerms \in Nat
  BY NumTermsAssumption DEF QueryTypeOK, TermRanges, TermIds
<1>2. t \in TermIds
  BY <1>1 DEF TermIds
<1>3. corpus \in Corpora
  BY DEF QueryTypeOK
<1> QED  BY <1>2, <1>3, PostingIsList DEF Posting

(***************************************************************************)
(* What the cursors in the heap show.                                      *)
(***************************************************************************)
LEMMA CursorFacts ==
    ASSUME HInv, NEW t \in DOMAIN heap
    PROVE  /\ t \in rng.begin .. rng.end
           /\ heap[t] \in Posting(corpus, t)
           /\ heap[t] \in DocIds /\ heap[t] \in Nat
           /\ Posting(corpus, t) \subseteq DocIds
<1>1. t \in rng.begin .. rng.end /\ heap[t] \in Posting(corpus, t)
  BY DEF HInv, HeapTyped
<1>2. Posting(corpus, t) \subseteq DocIds
  BY <1>1, RangeLists DEF HInv
<1> QED  BY <1>1, <1>2, Universe

(***************************************************************************)
(* The candidate never gets smaller while the iterator runs.               *)
(***************************************************************************)
LEMMA CandidateGrows ==
    ASSUME IInv, (Agree \/ Disagree \/ Return) \/ Advance
    PROVE  cand' >= cand /\ cand \in Nat /\ cand' \in Nat
<1>1. cand \in Nat /\ cand <= NumDocs
  BY Numbers DEF IInv
<1>2. CASE Agree \/ Return
  BY <1>1, <1>2 DEF Agree, Return
<1>3. CASE Disagree
  <2>1. pc = "next" /\ LoopCondition /\ cand' = Answer
    BY <1>3 DEF Disagree
  <2>2. Answer \in CursorValues /\ Answer >= cand
    BY <2>1, InLoop
  <2> QED  BY <1>1, <2>1, <2>2, Universe
<1>4. CASE Advance
  <2>1. pc = "at" /\ HasNext(cand) /\ cand' = NextAfter(lists[1], cur[1])
    BY <1>4 DEF Advance
  <2>2. cur[1] = cand /\ cand \in DocIds
    BY <2>1, AtCandidate
  <2>3. lists[1] \in SUBSET DocIds
    <3>1. TypeOK /\ Shape
      BY <2>1 DEF IInv, Live
    <3>2. 1 \in 1 .. Len(lists)
      BY <3>1, Numbers DEF Shape
    <3> QED  BY <3>1, <3>2, Numbers
  <2>4. cand' \in CursorValues /\ cand' > cand
    BY <2>1, <2>2, <2>3, NextAfterFacts
  <2> QED  BY <1>1, <2>4, Universe
<1> QED  BY <1>2, <1>3, <1>4

(***************************************************************************)
(* A cursor that is moved up to the candidate passes no member at or after *)
(* it, and leaves the heap only when there is none.                        *)
(***************************************************************************)
LEMMA HeapAfterKeeps ==
    ASSUME HInv, inner, NEW t \in DOMAIN heap, heap' = HeapAfter(t),
           UNCHANGED <<corpus, rng>>
    PROVE  /\ DOMAIN heap' \subseteq rng.begin .. rng.end
           /\ \A u \in DOMAIN heap' : heap'[u] \in Posting(corpus, u)
           /\ \A u \in rng.begin .. rng.end : \A d \in Posting(corpus, u) :
                  d >= cand => u \in DOMAIN heap' /\ heap'[u] <= d
<1> DEFINE list == Posting(corpus, t)
           value == SoughtValue(t)
<1>1. Found /\ HeapNeverAhead /\ HeapTyped
  BY DEF HInv, HeapTyped
<1>2. phase = "search" /\ pc = "at" /\ HasNext(cand) /\ terms # {}
  BY <1>1 DEF Found, HInv, Placed
<1>3. cand \in DocIds
  BY <1>2, AtCandidate DEF HInv
<1>4. cand \in Nat /\ cand \in CursorValues
  BY <1>3, Universe
<1>5. heap[t] \in list /\ list \subseteq DocIds /\ heap[t] \in Nat
  BY CursorFacts
<1>6. /\ value \in list \cup {NumDocs}
      /\ value >= heap[t]
      /\ \A d \in list : d >= cand => value <= d
  <2>1. CASE heap[t] < cand
    <3>1. value = NextGeq(list, cand)
      BY <2>1 DEF SoughtValue
    <3>2. /\ value \in CursorValues /\ value \in list \cup {NumDocs}
          /\ value >= cand /\ \A d \in list : d >= cand => value <= d
      BY <1>4, <1>5, <3>1, NextGeqFacts
    <3> QED  BY <1>4, <1>5, <2>1, <3>2, Universe
  <2>2. CASE ~(heap[t] < cand)
    <3>1. value = heap[t]
      BY <2>2 DEF SoughtValue
    <3>2. t \in rng.begin .. rng.end
      BY CursorFacts
    <3> QED  BY <1>1, <1>2, <1>5, <3>1, <3>2 DEF HeapNeverAhead
  <2> QED  BY <2>1, <2>2
<1>7. HasNext(value) <=> value \in list
  BY <1>5, <1>6, Universe DEF HasNext
<1> HIDE DEF value
<1>8. CASE HasNext(value)
  <2>1. heap' = [heap EXCEPT ![t] = value]
    BY <1>8 DEF HeapAfter, value
  <2> QED  BY <1>1, <1>2, <1>6, <1>7, <1>8, <2>1 DEF HeapNeverAhead, HeapTyped
<1>9. CASE ~HasNext(value)
  <2>1. heap' = [u \in DOMAIN heap \ {t} |-> heap[u]]
    BY <1>9 DEF HeapAfter, value
  <2>2. ASSUME NEW d \in list  PROVE ~(d >= cand)
    <3> SUFFICES ASSUME d >= cand  PROVE FALSE
      OBVIOUS
    <3>1. value = NumDocs /\ value <= d
      BY <1>6, <1>7, <1>9
    <3> QED  BY <3>1, <1>5, Universe
  <2> QED  BY <1>1, <1>2, <2>1, <2>2 DEF HeapNeverAhead, HeapTyped
<1> QED  BY <1>8, <1>9

-----------------------------------------------------------------------------
(***************************************************************************)
(* Every step outside the merge keeps the invariant.                       *)
(***************************************************************************)
LEMMA HeapQueryKeeps ==
    ASSUME HInv, HeapQuery
    PROVE  HInv'
<1>1. Query /\ UNCHANGED inner
      /\ heap' = [t \in rng'.begin .. rng'.end |-> First(Posting(corpus, t))]
  BY DEF HeapQuery
<1>2. PICK prefix \in Prefixes : Ask(Range(prefix))
  BY <1>1 DEF Query
<1>3. phase = "idle" /\ terms' = Range(prefix) /\ UNCHANGED corpus
  BY <1>2 DEF Ask, StartQuery
<1>4. SInv
  BY <1>3, SearchPart DEF Merging
<1>5. SInv'
  BY <1>1, <1>4, QueryKeeps
<1>6. terms' # {}
  <2>1. Cardinality(Range(prefix)) # 0
    BY PrefixSize
  <2> QED  BY <1>3, <2>1, FS_EmptySet
<1>7. ~inner
  BY <1>3 DEF HInv, HeapTyped, Found
<1>8. \A t \in rng'.begin .. rng'.end :
          /\ First(Posting(corpus, t)) \in Posting(corpus, t)
          /\ \A d \in Posting(corpus, t) : First(Posting(corpus, t)) <= d
  <2> SUFFICES ASSUME NEW t \in rng'.begin .. rng'.end
               PROVE  Posting(corpus, t) \in PostingLists
    BY FirstFacts
  <2>1. corpus \in Corpora /\ rng' \in TermRanges
    BY <1>2, <1>4 DEF SInv, QueryTypeOK, Ask
  <2>2. t \in TermIds
    BY <2>1, NumTermsAssumption DEF TermRanges, TermIds
  <2> QED  BY <2>1, <2>2, PostingIsList
<1>9. phase' = "search"
  BY <1>2 DEF Ask, StartQuery
<1>10. corpus' = corpus /\ inner' = FALSE
  BY <1>1, <1>3, <1>7 DEF HInv, HeapTyped
<1>11. HeapTyped'
  BY <1>1, <1>8, <1>9, <1>10 DEF HeapTyped, Posting
<1>12. HeapNeverAhead'
  BY <1>1, <1>8, <1>10 DEF HeapNeverAhead, Posting
<1> QED  BY <1>5, <1>6, <1>11, <1>12 DEF HInv, SInv, Placed, Frame, Merging, FoundOrAhead

LEMMA SearchStepsKeep ==
    ASSUME SInv', HeapTyped', HeapNeverAhead',
           phase' = "search" => terms' # {}
    PROVE  HInv'
BY DEF HInv, SInv, Placed, Frame, Merging, FoundOrAhead

LEMMA HeapIterateKeeps ==
    ASSUME HInv, HeapIterate
    PROVE  HInv'
<1>1. /\ Iterate /\ UNCHANGED <<heap, inner>> /\ pc = "next"
      /\ UNCHANGED <<phase, scores, k, results, reply, corpus, terms, rng>>
  BY DEF HeapIterate, Iterate, Agree, Disagree, Return, queryVars, poolVars
<1>2. phase = "search" /\ terms # {} /\ ~inner
  BY <1>1 DEF HInv, Placed, HeapTyped, Found
<1>3. SInv
  BY <1>2, SearchPart DEF Merging
<1>4. SInv'
  BY <1>1, <1>3, IterateKeeps
<1>5. cand' >= cand /\ cand \in Nat /\ cand' \in Nat
  BY <1>1, CandidateGrows DEF HInv, Iterate
<1>6. HeapTyped'
  BY <1>1, <1>2 DEF HInv, HeapTyped, Posting
<1>7. HeapNeverAhead'
  <2> SUFFICES ASSUME NEW t \in rng.begin .. rng.end, NEW d \in Posting(corpus, t), d >= cand'
               PROVE  t \in DOMAIN heap /\ heap[t] <= d
    BY <1>1 DEF HeapNeverAhead, Posting
  <2>1. d \in Nat
    BY RangeLists, Universe DEF HInv
  <2>2. d >= cand
    BY <1>5, <2>1
  <2> QED  BY <1>2, <2>2 DEF HInv, HeapNeverAhead
<1> QED  BY <1>1, <1>2, <1>4, <1>6, <1>7, SearchStepsKeep

(***************************************************************************)
(* Inside the loops the search of type 1 is in progress, and a cursor of   *)
(* the heap shows the candidate whenever the range has it.                 *)
(***************************************************************************)
LEMMA SearchInProgress ==
    ASSUME HInv, pc = "at"
    PROVE  SInv /\ phase = "search" /\ terms # {} /\ ~Merging
<1>1. phase = "search" /\ terms # {}
  BY DEF HInv, Placed
<1> QED  BY <1>1, SearchPart DEF Merging

LEMMA TargetInHeap ==
    ASSUME HInv, pc = "at", NEW d \in Target, d >= cand
    PROVE  \E t \in DOMAIN heap : heap[t] <= d /\ d \in Posting(corpus, t)
<1>1. phase = "search" /\ terms # {}
  BY SearchInProgress
<1>2. PICK t \in rng.begin .. rng.end : t \in corpus[d]
  BY <1>1 DEF Target, Matches
<1>3. d \in Posting(corpus, t)
  BY <1>2, TargetInJoin DEF Posting
<1> QED  BY <1>1, <1>2, <1>3 DEF HInv, HeapNeverAhead

LEMMA EnterInnerKeeps ==
    ASSUME HInv, EnterInner \/ UNCHANGED heapVars
    PROVE  HInv'
<1>1. /\ UNCHANGED <<pc, lists, cur, cand, mi, val, out>>
      /\ UNCHANGED <<phase, scores, k, results, reply, corpus, terms, rng, heap>>
  BY DEF EnterInner, heapVars, searchVars, vars, queryVars, poolVars
<1>2. inner' \in BOOLEAN /\ (inner' => Found)
  <2>1. CASE EnterInner
    BY <2>1 DEF EnterInner
  <2>2. CASE UNCHANGED heapVars
    <3>1. inner' = inner
      BY <2>2 DEF heapVars
    <3> QED  BY <3>1 DEF HInv, HeapTyped
  <2> QED  BY <2>1, <2>2
<1>3. IInv'
  BY <1>1, StepPreserves DEF HInv, vars
<1>4. QueryTypeOK' /\ ScoresSorted' /\ HeapNeverAhead' /\ FoundOrAhead'
  BY <1>1
  DEF HInv, QueryTypeOK, PoolTypeOK, Scores, Corpora, ScoresSorted, HeapNeverAhead,
      FoundOrAhead, Merging, Filled, Posting
<1>5. HeapTyped'
  <2>1. Found' = Found
    BY <1>1 DEF Found, HasNext
  <2>2. inner' => Found'
    BY <1>2, <2>1
  <2>3. /\ DOMAIN heap' \subseteq rng'.begin .. rng'.end
        /\ \A t \in DOMAIN heap' : heap'[t] \in Posting(corpus', t)
        /\ phase' # "search" => heap' = EmptyHeap
    BY <1>1 DEF HInv, HeapTyped
  <2> QED  BY <1>2, <2>2, <2>3 DEF HeapTyped, Posting
<1>6. Filled' = Filled /\ Target' = Target /\ Range(out)' = Range(out)
  BY <1>1 DEF Filled, Target, Matches, Range
<1>7. Placed'
  BY <1>1, <1>6 DEF HInv, Placed, Joined, Common, FilledSoFar, FilledBest, Merging, MergeSoFar
<1> QED  BY <1>3, <1>4, <1>5, <1>7 DEF HInv

(***************************************************************************)
(* The loop may end when every match has been left behind, which an empty  *)
(* heap says as well as an exhausted iterator.                             *)
(***************************************************************************)
LEMMA LeaveOuterKeeps ==
    ASSUME HInv, LeaveOuter
    PROVE  HInv'
<1>1. /\ phase = "search" /\ pc = "at" /\ ~inner
      /\ ~HasNext(cand) \/ heap = EmptyHeap
      /\ Drop /\ phase' = "extract" /\ heap' = EmptyHeap
      /\ UNCHANGED <<scores, k, results, reply, corpus, terms, rng, inner>>
  BY DEF LeaveOuter
<1>2. SInv /\ terms # {}
  BY <1>1, SearchInProgress
<1>3. cand \in Nat
  BY <1>2, Numbers DEF SInv, IInv
<1>4. IInv' /\ pc' = "none"
  BY <1>1, <1>2, DropPreserves DEF SInv, Drop
<1>5. QueryTypeOK' /\ ScoresSorted' /\ Filled' = Filled
  BY <1>1, <1>2 DEF SInv, QueryTypeOK, PoolTypeOK, Scores, Corpora, ScoresSorted, Filled
<1>6. Target' = Target
  BY <1>1 DEF Target, Matches
<1>7. /\ Range(out) = {d \in DocIds : terms \subseteq corpus[d] /\ d < cand}
      /\ Filled = Target \cap Range(out)
  BY <1>1, <1>2, OwnerKnows
<1>8. ASSUME NEW d \in Target
      PROVE  d < cand
  <2>1. d \in DocIds /\ d \in Nat /\ d < NumDocs /\ NumDocs \in Nat
    BY TargetInJoin, Universe
  <2>2. CASE ~HasNext(cand)
    BY <1>3, <2>1, <2>2 DEF HasNext
  <2>3. CASE heap = EmptyHeap
    <3>1. DOMAIN heap = {}
      BY <2>3 DEF EmptyHeap
    <3>2. ~(d >= cand)
      BY <1>1, <3>1, TargetInHeap
    <3> QED  BY <1>3, <2>1, <3>2
  <2> QED  BY <1>1, <2>2, <2>3
<1>9. FilledBest'
  <2>1. Filled' = Target'
    BY <1>5, <1>6, <1>7, <1>8, TargetInJoin
  <2> QED  BY <2>1 DEF FilledBest
<1>10. SInv'
  BY <1>1, <1>4, <1>5, <1>9 DEF SInv, Frame
<1>11. inner' = FALSE
  BY <1>1 DEF HInv, HeapTyped
<1>12. HeapTyped' /\ HeapNeverAhead'
  BY <1>1, <1>11, NoCursors
<1> QED  BY <1>1, <1>10, <1>12, SearchStepsKeep

LEMMA SeekKeeps ==
    ASSUME HInv, Seek
    PROVE  HInv'
<1>1. PICK t \in Top : heap' = HeapAfter(t)
  BY DEF Seek
<1>2. inner /\ UNCHANGED <<searchVars, inner>> /\ t \in DOMAIN heap
  BY DEF Seek, Top
<1>3. pc = "at" /\ phase = "search"
  BY <1>2 DEF HInv, HeapTyped, Found
<1>4. SInv /\ terms # {}
  BY <1>3, SearchInProgress
<1>5. SInv'
  BY <1>2, <1>4, IterateKeeps
<1>6. UNCHANGED <<cand, pc, phase, corpus, terms, rng>>
  BY <1>2 DEF searchVars, vars, queryVars, poolVars
<1>7. /\ DOMAIN heap' \subseteq rng.begin .. rng.end
      /\ \A u \in DOMAIN heap' : heap'[u] \in Posting(corpus, u)
      /\ \A u \in rng.begin .. rng.end : \A d \in Posting(corpus, u) :
             d >= cand => u \in DOMAIN heap' /\ heap'[u] <= d
  BY <1>1, <1>2, <1>6, HeapAfterKeeps
<1>8. HeapTyped' /\ HeapNeverAhead'
  BY <1>2, <1>3, <1>6, <1>7 DEF HInv, HeapTyped, HeapNeverAhead, Found, HasNext, Posting
<1> QED  BY <1>4, <1>5, <1>6, <1>8, SearchStepsKeep

(***************************************************************************)
(* The heap of a candidate serves the candidates after it.                 *)
(***************************************************************************)
LEMMA AdvanceKeepsHeap ==
    ASSUME HInv, Advance, UNCHANGED <<phase, corpus, terms, rng>>, inner' = FALSE,
           DOMAIN heap' \subseteq rng.begin .. rng.end,
           \A u \in DOMAIN heap' : heap'[u] \in Posting(corpus, u),
           \A u \in rng.begin .. rng.end : \A d \in Posting(corpus, u) :
               d >= cand => u \in DOMAIN heap' /\ heap'[u] <= d
    PROVE  /\ HeapTyped' /\ HeapNeverAhead'
           /\ phase' = "search" => terms' # {}
<1>1. pc = "at" /\ phase = "search" /\ terms # {}
  BY SearchInProgress DEF Advance
<1>2. cand' >= cand /\ cand \in Nat /\ cand' \in Nat
  BY CandidateGrows DEF HInv
<1>3. HeapTyped'
  BY <1>1 DEF HeapTyped, Posting
<1>4. HeapNeverAhead'
  <2> SUFFICES ASSUME NEW t \in rng.begin .. rng.end, NEW d \in Posting(corpus, t), d >= cand'
               PROVE  t \in DOMAIN heap' /\ heap'[t] <= d
    BY DEF HeapNeverAhead, Posting
  <2>1. d \in Nat
    BY RangeLists, Universe DEF HInv
  <2> QED  BY <1>2, <2>1
<1> QED  BY <1>1, <1>3, <1>4

(***************************************************************************)
(* No cursor has the candidate: it is left behind as type 1 skips it.      *)
(***************************************************************************)
LEMMA MissSkips ==
    ASSUME HInv, Miss
    PROVE  Skip
<1>1. /\ inner /\ Advance /\ UNCHANGED queryVars
      /\ heap = EmptyHeap \/ \E t \in Top : heap[t] > cand
  BY DEF Miss
<1>2. Found /\ pc = "at"
  BY <1>1 DEF HInv, HeapTyped, Found
<1>3. SInv
  BY <1>2, SearchInProgress
<1>4. cand \in Nat
  BY <1>3, Numbers DEF SInv, IInv
<1>5. cand \notin Target
  <2> SUFFICES ASSUME cand \in Target  PROVE FALSE
    OBVIOUS
  <2>1. PICK u \in DOMAIN heap : heap[u] <= cand
    BY <1>2, <1>4, TargetInHeap
  <2>2. heap # EmptyHeap
    BY <2>1 DEF EmptyHeap
  <2>3. PICK t \in Top : heap[t] > cand
    BY <1>1, <2>2
  <2>4. t \in DOMAIN heap /\ heap[t] <= heap[u]
    BY <2>1 DEF Top
  <2>5. heap[t] \in Nat /\ heap[u] \in Nat
    BY <2>4, CursorFacts
  <2> QED  BY <1>4, <2>1, <2>3, <2>4, <2>5
<1>6. ~Intersects(corpus, cand, rng)
  BY <1>2, <1>3, <1>5, CandidateJoins
<1> QED  BY <1>1, <1>2, <1>6 DEF Skip

LEMMA MissKeeps ==
    ASSUME HInv, Miss
    PROVE  HInv'
<1>1. Skip
  BY MissSkips
<1>2. /\ Advance /\ UNCHANGED heap /\ inner' = FALSE /\ pc = "at"
      /\ UNCHANGED <<phase, corpus, terms, rng>>
  BY DEF Miss, Advance, queryVars, poolVars
<1>3. SInv /\ phase = "search" /\ terms # {}
  BY <1>2, SearchInProgress
<1>4. SInv'
  BY <1>1, <1>3, SkipKeeps
<1>5. /\ HeapTyped' /\ HeapNeverAhead'
      /\ phase' = "search" => terms' # {}
  BY <1>2, <1>3, AdvanceKeepsHeap DEF HInv, HeapTyped, HeapNeverAhead
<1> QED  BY <1>4, <1>5, SearchStepsKeep

(***************************************************************************)
(* A cursor has the candidate: it is a match, as type 1 would find.        *)
(***************************************************************************)
LEMMA MetIsHit ==
    ASSUME HInv, inner, NEW t \in Top, SoughtValue(t) = cand
    PROVE  Hit /\ SInv /\ phase = "search" /\ terms # {} /\ t \in DOMAIN heap
<1>1. Found /\ pc = "at" /\ HasNext(cand) /\ t \in DOMAIN heap
  BY DEF HInv, HeapTyped, Found, Top
<1>2. SInv /\ phase = "search" /\ terms # {}
  BY <1>1, SearchInProgress
<1>3. cand \in DocIds
  BY <1>1, <1>2, CandidateJoins
<1>4. cand \in CursorValues /\ cand # NumDocs
  BY <1>3, Universe
<1>5. heap[t] \in Posting(corpus, t) /\ Posting(corpus, t) \subseteq DocIds
      /\ t \in rng.begin .. rng.end
  BY <1>1, CursorFacts
<1>6. cand \in Posting(corpus, t)
  <2>1. CASE heap[t] < cand
    <3>1. cand = NextGeq(Posting(corpus, t), cand)
      BY <2>1 DEF SoughtValue
    <3>2. NextGeq(Posting(corpus, t), cand) \in Posting(corpus, t) \cup {NumDocs}
      BY <1>4, <1>5, NextGeqFacts
    <3> QED  BY <1>4, <3>1, <3>2
  <2>2. CASE ~(heap[t] < cand)
    BY <1>5, <2>2 DEF SoughtValue
  <2> QED  BY <2>1, <2>2
<1>7. cand \in Target
  <2>1. t \in corpus[cand]
    BY <1>6 DEF Posting
  <2>2. terms \subseteq corpus[cand]
    BY <1>1, <1>2, CandidateJoins
  <2> QED  BY <1>2, <1>3, <1>5, <2>1, <2>2 DEF Target, Matches
<1> QED  BY <1>1, <1>2, <1>7, CandidateJoins DEF Hit

LEMMA MeetAndKeepKeeps ==
    ASSUME HInv, MeetAndKeep
    PROVE  HInv'
<1>1. PICK t \in Top : SoughtValue(t) = cand /\ heap' = HeapAfter(t)
  BY DEF MeetAndKeep, Met
<1>2. /\ inner /\ results + 1 # k /\ Record(cand) /\ inner' = FALSE /\ Advance
      /\ UNCHANGED <<phase, corpus, terms, rng>>
  BY DEF MeetAndKeep
<1>3. Hit /\ SInv /\ t \in DOMAIN heap
  BY <1>1, <1>2, MetIsHit
<1>4. Keep
  BY <1>2, <1>3 DEF Keep
<1>5. SInv'
  BY <1>3, <1>4, KeepKeeps
<1>6. /\ DOMAIN heap' \subseteq rng.begin .. rng.end
      /\ \A u \in DOMAIN heap' : heap'[u] \in Posting(corpus, u)
      /\ \A u \in rng.begin .. rng.end : \A d \in Posting(corpus, u) :
             d >= cand => u \in DOMAIN heap' /\ heap'[u] <= d
  BY <1>1, <1>2, <1>3, HeapAfterKeeps
<1>7. /\ HeapTyped' /\ HeapNeverAhead'
      /\ phase' = "search" => terms' # {}
  BY <1>2, <1>6, AdvanceKeepsHeap
<1> QED  BY <1>5, <1>7, SearchStepsKeep

LEMMA MeetAndReturnKeeps ==
    ASSUME HInv, MeetAndReturn
    PROVE  HInv'
<1>1. PICK t \in Top : SoughtValue(t) = cand
  BY DEF MeetAndReturn
<1>2. /\ inner /\ results + 1 = k /\ Record(cand) /\ inner' = FALSE /\ Drop
      /\ phase' = "extract" /\ heap' = EmptyHeap /\ UNCHANGED <<corpus, terms, rng>>
  BY DEF MeetAndReturn
<1>3. Hit /\ SInv
  BY <1>1, <1>2, MetIsHit
<1>4. KeepLast
  BY <1>2, <1>3 DEF KeepLast
<1>5. SInv'
  BY <1>3, <1>4, KeepLastKeeps
<1>6. HeapTyped' /\ HeapNeverAhead'
  BY <1>2, NoCursors
<1> QED  BY <1>2, <1>5, <1>6, SearchStepsKeep

LEMMA HeapExtractKeeps ==
    ASSUME HInv, HeapExtractStrings
    PROVE  HInv'
<1>1. /\ Answered /\ UNCHANGED <<heap, inner>>
      /\ phase = "extract" /\ phase' = "idle" /\ UNCHANGED corpus
  BY DEF HeapExtractStrings, Answered, ExtractStrings, Forget, EndQuery
<1>2. SInv
  BY <1>1, SearchPart DEF Merging
<1>3. SInv'
  BY <1>1, <1>2, AnsweredKeeps
<1>4. heap = EmptyHeap /\ inner = FALSE
  BY <1>1 DEF HInv, HeapTyped, Found
<1>5. HeapTyped' /\ HeapNeverAhead'
  BY <1>1, <1>4, NoCursors
<1> QED  BY <1>1, <1>3, <1>5, SearchStepsKeep

-----------------------------------------------------------------------------
(***************************************************************************)
(* Every step of the merge keeps the invariant.                            *)
(***************************************************************************)
LEMMA MergeQueryKeeps ==
    ASSUME HInv, MergeQuery
    PROVE  HInv'
<1>1. /\ Ask({}) /\ UNCHANGED vars /\ UNCHANGED inner
      /\ heap' = [t \in rng'.begin .. rng'.end |-> First(Posting(corpus, t))]
  BY DEF MergeQuery, StartMerge
<1>2. /\ phase = "idle" /\ phase' = "search" /\ k' \in 1 .. MaxK /\ results' = 0
      /\ reply' = <<>> /\ terms' = {} /\ rng' \in TermRanges
      /\ scores' = scores /\ corpus' = corpus
  BY <1>1 DEF Ask, StartQuery
<1>3. pc = "none" /\ inner = FALSE
  BY <1>2 DEF HInv, Placed, IInv, TypeOK, HeapTyped, Found
<1>4. IInv' /\ pc' = "none" /\ inner' = FALSE
  <2>1. IInv'
    BY <1>1, StepPreserves DEF HInv
  <2> QED  BY <1>1, <1>3, <2>1 DEF vars
<1>5. QueryTypeOK'
  <2>1. k' \in Nat /\ 0 \in 0 .. k' /\ reply' \in Seq(DocIds)
    BY <1>2, EmptySeq
  <2> QED  BY <1>2, <2>1 DEF HInv, QueryTypeOK, PoolTypeOK, Scores, Corpora
<1>6. Filled' = {} /\ ScoresSorted'
  BY <1>2 DEF Filled, ScoresSorted
<1>7. \A t \in rng'.begin .. rng'.end :
          /\ First(Posting(corpus, t)) \in Posting(corpus, t)
          /\ \A d \in Posting(corpus, t) : First(Posting(corpus, t)) <= d
  <2> SUFFICES ASSUME NEW t \in rng'.begin .. rng'.end
               PROVE  Posting(corpus, t) \in PostingLists
    BY FirstFacts
  <2>1. corpus \in Corpora
    BY DEF HInv, QueryTypeOK
  <2>2. t \in TermIds
    BY <1>2, NumTermsAssumption DEF TermRanges, TermIds
  <2> QED  BY <2>1, <2>2, PostingIsList
<1>8. HeapTyped'
  BY <1>1, <1>2, <1>4, <1>7 DEF HeapTyped, Posting
<1>9. FoundOrAhead'
  BY <1>1, <1>2, <1>7 DEF FoundOrAhead, Posting
<1>10. MergeSoFar'
  BY <1>2, <1>6 DEF MergeSoFar
<1>11. Placed' /\ HeapNeverAhead'
  BY <1>2, <1>4, <1>10 DEF Placed, HeapNeverAhead
<1> QED  BY <1>4, <1>5, <1>6, <1>8, <1>9, <1>11 DEF HInv

(***************************************************************************)
(* The value on top matches, no score is greater, and what is still to be  *)
(* found is at or after it.                                                *)
(***************************************************************************)
LEMMA MergeTop ==
    ASSUME HInv, Merging, NEW t \in Top
    PROVE  /\ t \in DOMAIN heap
           /\ heap[t] \in DocIds /\ heap[t] \in Nat
           /\ heap[t] \in Target
           /\ \A s \in Filled : s \in Nat /\ s <= heap[t]
           /\ \A d \in Target : d \in Nat /\ (d \in Filled \/ heap[t] <= d)
           /\ \A u \in DOMAIN heap : heap[u] \in Nat /\ heap[t] <= heap[u]
<1>1. t \in DOMAIN heap /\ \A u \in DOMAIN heap : heap[t] <= heap[u]
  BY DEF Top
<1>2. /\ heap[t] \in DocIds /\ heap[t] \in Nat /\ t \in rng.begin .. rng.end
      /\ heap[t] \in Posting(corpus, t)
  BY <1>1, CursorFacts
<1>3. phase = "search" /\ terms = {}
  BY DEF Merging
<1>4. heap[t] \in Target
  BY <1>2, <1>3 DEF Target, Matches, Posting
<1>5. MergeSoFar /\ QueryTypeOK
  BY DEF HInv, Placed
<1>6. \A s \in Filled : s \in Nat /\ s <= heap[t]
  BY <1>1, <1>5, PoolNumbers, Universe DEF MergeSoFar
<1>7. \A u \in DOMAIN heap : heap[u] \in Nat
  BY CursorFacts
<1>8. ASSUME NEW d \in Target, d \notin Filled
      PROVE  heap[t] <= d
  <2>1. d \in DocIds
    BY TargetInJoin
  <2>2. PICK u \in rng.begin .. rng.end : u \in corpus[d]
    BY <1>3 DEF Target, Matches
  <2>3. d \in Posting(corpus, u)
    BY <2>1, <2>2 DEF Posting
  <2>4. u \in DOMAIN heap /\ heap[u] <= d
    BY <1>8, <2>2, <2>3 DEF HInv, FoundOrAhead
  <2> QED  BY <1>1, <1>2, <1>7, <2>1, <2>4, Universe
<1>9. \A d \in Target : d \in Nat
  BY TargetInJoin, Universe
<1> QED  BY <1>1, <1>2, <1>4, <1>6, <1>7, <1>8, <1>9

(***************************************************************************)
(* The cursor on top moves on: it passes nothing but its value.            *)
(***************************************************************************)
LEMMA StepFacts ==
    ASSUME HInv, Merging, NEW t \in Top, heap' = Step(t)
    PROVE  /\ DOMAIN heap' \subseteq DOMAIN heap
           /\ \A u \in DOMAIN heap' : heap'[u] \in Posting(corpus, u) /\ heap[t] <= heap'[u]
           /\ \A u \in DOMAIN heap : \A d \in Posting(corpus, u) :
                  heap[u] <= d => d = heap[t] \/ (u \in DOMAIN heap' /\ heap'[u] <= d)
<1> DEFINE list == Posting(corpus, t)
           value == NextAfter(list, heap[t])
<1>1. /\ t \in DOMAIN heap /\ heap[t] \in DocIds /\ heap[t] \in Nat
      /\ \A u \in DOMAIN heap : heap[u] \in Nat /\ heap[t] <= heap[u]
  BY MergeTop
<1>2. list \subseteq DocIds /\ \A u \in DOMAIN heap : heap[u] \in Posting(corpus, u)
  BY <1>1, CursorFacts
<1>3. /\ value \in CursorValues /\ value \in list \cup {NumDocs} /\ value > heap[t]
      /\ \A d \in list : d > heap[t] => value <= d
  BY <1>1, <1>2, NextAfterFacts
<1>4. value \in Nat /\ (HasNext(value) <=> value \in list)
  BY <1>2, <1>3, Universe DEF HasNext
<1>5. \A d \in list : d \in Nat /\ d < NumDocs /\ NumDocs \in Nat
  BY <1>2, Universe
<1> HIDE DEF value
<1>6. CASE HasNext(value)
  <2>1. heap' = [heap EXCEPT ![t] = value]
    BY <1>6 DEF Step, value
  <2> QED  BY <1>1, <1>2, <1>3, <1>4, <1>5, <1>6, <2>1
<1>7. CASE ~HasNext(value)
  <2>1. heap' = [u \in DOMAIN heap \ {t} |-> heap[u]]
    BY <1>7 DEF Step, value
  <2>2. value = NumDocs
    BY <1>3, <1>4, <1>7
  <2>3. \A d \in list : ~(d > heap[t])
    BY <1>3, <1>5, <2>2
  <2> QED  BY <1>1, <1>2, <1>5, <2>1, <2>3
<1> QED  BY <1>6, <1>7

LEMMA TakeKeeps ==
    ASSUME HInv, Take, UNCHANGED <<vars, inner>>
    PROVE  HInv'
<1>1. Merging
  BY DEF Take
<1>2. PICK t \in Top : /\ ~Completes(heap[t])
                       /\ NoteNew(heap[t]) \/ NotePresent(heap[t])
                       /\ heap' = Step(t)
  BY DEF Take
<1> DEFINE d == heap[t]
<1>3. /\ UNCHANGED <<pc, lists, cur, cand, mi, val, out>> /\ inner' = inner
      /\ UNCHANGED <<phase, corpus, terms, rng>>
  BY DEF Take, vars
<1>4. /\ t \in DOMAIN heap /\ d \in DocIds /\ d \in Nat /\ d \in Target
      /\ \A s \in Filled : s \in Nat /\ s <= d
  BY <1>1, MergeTop
<1>5. MergeSoFar /\ QueryTypeOK /\ ScoresSorted /\ HeapTyped /\ FoundOrAhead
  BY <1>1 DEF HInv, Placed
<1>6. results \in Nat /\ k \in Nat
  BY <1>5, PoolNumbers
<1>7. /\ DOMAIN heap' \subseteq DOMAIN heap
      /\ \A u \in DOMAIN heap' : heap'[u] \in Posting(corpus, u) /\ d <= heap'[u]
      /\ \A u \in DOMAIN heap : \A e \in Posting(corpus, u) :
             heap[u] <= e => e = d \/ (u \in DOMAIN heap' /\ heap'[u] <= e)
  BY <1>1, <1>2, StepFacts
<1> HIDE DEF d
<1>8. /\ Filled' = Filled \cup {d}
      /\ QueryTypeOK' /\ ScoresSorted' /\ results' < k'
  <2>1. CASE NotePresent(d)
    <3>1. /\ d \in Filled /\ UNCHANGED <<scores, results, k, reply>>
      BY <2>1 DEF NotePresent, AlreadyPresent
    <3>2. Filled' = Filled
      BY <3>1 DEF Filled
    <3>3. QueryTypeOK' /\ ScoresSorted'
      BY <1>3, <1>5, <3>1 DEF QueryTypeOK, PoolTypeOK, Scores, Corpora, ScoresSorted
    <3> QED  BY <1>5, <3>1, <3>2, <3>3 DEF MergeSoFar
  <2>2. CASE NoteNew(d)
    <3>1. d \notin Filled /\ Record(d) /\ results + 1 # k
      BY <1>2, <2>2 DEF NoteNew, AlreadyPresent, Completes, d
    <3>2. \A s \in Filled : s < d
      BY <1>4, <3>1
    <3>3. results < k
      BY <1>5 DEF MergeSoFar
    <3>4. /\ scores' \in Scores
          /\ results' = results + 1 /\ results' \in 0 .. k' /\ k' = k /\ reply' = reply
          /\ Filled' = Filled \cup {d} /\ ScoresSorted'
      BY <1>4, <1>5, <3>1, <3>2, <3>3, RecordAdds
    <3>5. QueryTypeOK'
      BY <1>3, <1>5, <3>4 DEF QueryTypeOK, PoolTypeOK, Scores, Corpora
    <3> QED  BY <1>6, <3>1, <3>3, <3>4, <3>5
  <2> QED  BY <1>2, <2>1, <2>2 DEF d
<1>9. IInv' /\ pc' = pc
  <2>1. IInv'
    BY StepPreserves DEF HInv
  <2> QED  BY <1>3, <2>1
<1>10. HeapTyped'
  <2>1. Found' = Found
    BY <1>3 DEF Found, HasNext
  <2>2. inner' \in BOOLEAN /\ (inner' => Found')
    BY <1>3, <1>5, <2>1 DEF HeapTyped
  <2>3. phase' = "search"
    BY <1>1, <1>3 DEF Merging
  <2>4. DOMAIN heap' \subseteq rng'.begin .. rng'.end
    BY <1>3, <1>5, <1>7 DEF HeapTyped
  <2>5. \A u \in DOMAIN heap' : heap'[u] \in Posting(corpus, u)'
    BY <1>3, <1>7 DEF Posting
  <2> QED  BY <2>2, <2>3, <2>4, <2>5 DEF HeapTyped
<1>11. FoundOrAhead'
  <2> SUFFICES ASSUME NEW u \in rng.begin .. rng.end, NEW e \in Posting(corpus, u)
               PROVE  e \in Filled' \/ (u \in DOMAIN heap' /\ heap'[u] <= e)
    BY <1>3 DEF FoundOrAhead, Posting
  <2>1. e \in Filled \/ (u \in DOMAIN heap /\ heap[u] <= e)
    BY <1>1, <1>5 DEF FoundOrAhead
  <2> QED  BY <1>7, <1>8, <2>1
<1>12. MergeSoFar'
  <2>1. Target' = Target
    BY <1>3 DEF Target, Matches
  <2>2. ASSUME NEW s \in Filled', NEW u \in DOMAIN heap'
        PROVE  s <= heap'[u]
    <3>1. heap'[u] \in Nat
      <4>1. u \in DOMAIN heap
        BY <1>7
      <4> QED  BY <1>7, <4>1, CursorFacts, Universe
    <3>2. s \in Nat /\ s <= d /\ d <= heap'[u]
      BY <1>4, <1>7, <1>8
    <3> QED  BY <1>4, <3>1, <3>2
  <2> QED  BY <1>4, <1>5, <1>8, <2>1, <2>2 DEF MergeSoFar
<1>13. Placed' /\ HeapNeverAhead'
  <2>1. phase = "search" /\ terms = {} /\ pc = "none"
    BY <1>1 DEF Merging, HInv, Placed, IInv, TypeOK
  <2> QED  BY <1>3, <1>9, <1>12, <2>1 DEF Placed, HeapNeverAhead
<1> QED  BY <1>8, <1>9, <1>10, <1>11, <1>13 DEF HInv

(***************************************************************************)
(* The merge ends at the k-th result, or with nothing left to find.        *)
(***************************************************************************)
LEMMA MergeEndKeeps ==
    ASSUME HInv, Merging, UNCHANGED <<vars, inner, corpus, terms, rng>>,
           phase' = "extract", heap' = EmptyHeap, QueryTypeOK', ScoresSorted', FilledBest'
    PROVE  HInv'
<1>1. IInv' /\ pc' = "none" /\ inner' = FALSE
  <2>1. pc = "none" /\ inner = FALSE
    BY DEF Merging, HInv, Placed, IInv, TypeOK, HeapTyped, Found
  <2>2. IInv'
    BY StepPreserves DEF HInv
  <2> QED  BY <2>1, <2>2 DEF vars
<1>2. HeapTyped' /\ HeapNeverAhead'
  BY <1>1, NoCursors
<1> QED  BY <1>1, <1>2 DEF HInv, Placed, Merging, FoundOrAhead

LEMMA TakeLastKeeps ==
    ASSUME HInv, TakeLast, UNCHANGED <<vars, inner>>
    PROVE  HInv'
<1>1. Merging /\ heap' = EmptyHeap /\ phase' = "extract" /\ UNCHANGED <<corpus, terms, rng>>
  BY DEF TakeLast
<1>2. PICK t \in Top : Completes(heap[t]) /\ Record(heap[t])
  BY DEF TakeLast
<1> DEFINE d == heap[t]
<1>3. /\ d \in DocIds /\ d \in Nat /\ d \in Target
      /\ \A s \in Filled : s \in Nat /\ s <= d
      /\ \A e \in Target : e \in Nat /\ (e \in Filled \/ d <= e)
  BY <1>1, MergeTop
<1>4. QueryTypeOK /\ ScoresSorted /\ results < k /\ Filled \subseteq Target
  BY <1>1 DEF HInv, Placed, MergeSoFar
<1> HIDE DEF d
<1>5. d \notin Filled /\ results + 1 = k /\ Record(d)
  BY <1>2 DEF Completes, AlreadyPresent, d
<1>6. \A s \in Filled : s < d
  BY <1>3, <1>5
<1>7. /\ scores' \in Scores
      /\ results' = results + 1 /\ results' \in 0 .. k' /\ k' = k /\ reply' = reply
      /\ Filled' = Filled \cup {d} /\ ScoresSorted'
  BY <1>3, <1>4, <1>5, <1>6, RecordAdds
<1>8. QueryTypeOK'
  BY <1>1, <1>4, <1>7 DEF QueryTypeOK, PoolTypeOK, Scores, Corpora
<1>9. FilledBest'
  <2>1. Target' = Target
    BY <1>1 DEF Target, Matches, Merging
  <2>2. ASSUME NEW e \in Target', e \notin Filled'
        PROVE  results' = k' /\ \A s \in Filled' : s < e
    <3>1. e \in Nat /\ d <= e /\ e # d
      BY <1>3, <1>7, <2>1, <2>2
    <3> QED  BY <1>3, <1>5, <1>6, <1>7, <3>1
  <2> QED  BY <1>3, <1>4, <1>7, <2>1, <2>2 DEF FilledBest
<1> QED  BY <1>1, <1>7, <1>8, <1>9, MergeEndKeeps

LEMMA MergedKeeps ==
    ASSUME HInv, Merged, UNCHANGED <<vars, inner>>
    PROVE  HInv'
<1>1. /\ Merging /\ heap = EmptyHeap /\ phase' = "extract"
      /\ UNCHANGED <<scores, k, results, reply, corpus, terms, rng, heap>>
  BY DEF Merged
<1>2. QueryTypeOK' /\ ScoresSorted' /\ Filled' = Filled /\ Target' = Target
  BY <1>1 DEF HInv, QueryTypeOK, PoolTypeOK, Scores, Corpora, ScoresSorted, Filled, Target,
              Matches, Merging
<1>3. Filled \subseteq Target
  BY <1>1 DEF HInv, Placed, MergeSoFar
<1>4. ASSUME NEW d \in Target
      PROVE  d \in Filled
  <2>1. d \in DocIds
    BY TargetInJoin
  <2>2. PICK u \in rng.begin .. rng.end : u \in corpus[d]
    BY <1>1 DEF Target, Matches, Merging
  <2>3. d \in Posting(corpus, u) /\ DOMAIN heap = {}
    BY <1>1, <2>1, <2>2 DEF Posting, EmptyHeap
  <2> QED  BY <1>1, <2>2, <2>3 DEF HInv, FoundOrAhead
<1>5. FilledBest'
  BY <1>2, <1>3, <1>4 DEF FilledBest
<1> QED  BY <1>1, <1>2, <1>5, MergeEndKeeps

-----------------------------------------------------------------------------
LEMMA HeapInitHolds == HeapInit => HInv
<1> SUFFICES ASSUME HeapInit
             PROVE  HInv
  OBVIOUS
<1>1. SInv
  BY SearchInitHolds DEF HeapInit
<1>2. phase = "idle" /\ heap = EmptyHeap /\ inner = FALSE
  BY DEF HeapInit, SearchInit, QueryInit, PoolInit
<1>3. DOMAIN heap = {}
  BY <1>2 DEF EmptyHeap
<1>4. HeapTyped /\ HeapNeverAhead
  BY <1>2, <1>3 DEF HeapTyped, HeapNeverAhead
<1> QED  BY <1>1, <1>2, <1>4 DEF HInv, SInv, Placed, Frame, Merging, FoundOrAhead

LEMMA HeapStepPreserves == HInv /\ [HeapNext]_heapVars => HInv'
<1> SUFFICES ASSUME HInv, [HeapNext]_heapVars
             PROVE  HInv'
  OBVIOUS
<1>1. CASE HeapQuery           BY <1>1, HeapQueryKeeps
<1>2. CASE MergeQuery          BY <1>2, MergeQueryKeeps
<1>3. CASE MergeStep           BY <1>3, TakeKeeps, TakeLastKeeps, MergedKeeps DEF MergeStep
<1>4. CASE HeapIterate         BY <1>4, HeapIterateKeeps
<1>5. CASE EnterInner          BY <1>5, EnterInnerKeeps
<1>6. CASE LeaveOuter          BY <1>6, LeaveOuterKeeps
<1>7. CASE Seek                BY <1>7, SeekKeeps
<1>8. CASE Miss                BY <1>8, MissKeeps
<1>9. CASE MeetAndKeep         BY <1>9, MeetAndKeepKeeps
<1>10. CASE MeetAndReturn      BY <1>10, MeetAndReturnKeeps
<1>11. CASE HeapExtractStrings BY <1>11, HeapExtractKeeps
<1>12. CASE UNCHANGED heapVars BY <1>12, EnterInnerKeeps
<1> QED
  BY <1>1, <1>2, <1>3, <1>4, <1>5, <1>6, <1>7, <1>8, <1>9, <1>10, <1>11, <1>12
  DEF HeapNext, HeapRun

LEMMA HeapInductive == HeapSpec => []HInv
BY HeapInitHolds, HeapStepPreserves, PTL DEF HeapSpec

-----------------------------------------------------------------------------
(***************************************************************************)
(* No cursor of the heap passes a completion the intersection may still    *)
(* propose, so that an empty heap ends the search rightly.                 *)
(***************************************************************************)
THEOREM HeapFollows == HeapSpec => []HeapNeverAhead
<1>1. HInv => HeapNeverAhead
  BY DEF HInv
<1> QED  BY <1>1, HeapInductive, PTL

(***************************************************************************)
(* The merge of the posting lists of a range loses no completion when a    *)
(* cursor is exhausted and leaves the heap.                                *)
(***************************************************************************)
THEOREM MergeCovers == HeapSpec => []FoundOrAhead
<1>1. HInv => FoundOrAhead
  BY DEF HInv
<1> QED  BY <1>1, HeapInductive, PTL

(***************************************************************************)
(* The scores ascend strictly under both searches, which the binary search *)
(* of the merge needs to recognise a completion that comes up again.       *)
(***************************************************************************)
THEOREM HeapSorted == HeapSpec => []ScoresSorted
<1>1. HInv => ScoresSorted
  BY DEF HInv
<1> QED  BY <1>1, HeapInductive, PTL

(***************************************************************************)
(* A query of one token asks, and the loops are invisible.                 *)
(***************************************************************************)
LEMMA MergeQueryAsks ==
    ASSUME MergeQuery
    PROVE  Promise!Ask
<1>1. phase = "idle" /\ phase' = "search" /\ k' \in 1 .. MaxK /\ reply' = <<>>
  BY DEF MergeQuery, StartMerge, Ask, StartQuery
<1>2. Target' \in SUBSET DocIds
  BY DEF Target, Matches
<1>3. (phase # "idle")' = TRUE
  BY <1>1
<1> QED  BY <1>1, <1>2, <1>3 DEF Promise!Ask, Promise!DocIds, DocIds

LEMMA HeapLoopStutters ==
    ASSUME \/ MergeStep \/ HeapIterate \/ EnterInner \/ LeaveOuter \/ Seek \/ Miss
           \/ MeetAndKeep \/ MeetAndReturn \/ UNCHANGED heapVars, HInv
    PROVE  UNCHANGED Promise!vars
<1>1. k' = k /\ reply' = reply /\ UNCHANGED <<corpus, terms, rng>>
  BY DEF MergeStep, Take, TakeLast, Merged, NoteNew, NotePresent, HeapIterate, Iterate,
         EnterInner, LeaveOuter, Seek, Miss, MeetAndKeep, MeetAndReturn, Record, heapVars,
         searchVars, queryVars, poolVars
<1>2. phase' = phase \/ (phase = "search" /\ phase' = "extract")
  BY DEF MergeStep, Take, TakeLast, Merged, Merging, HeapIterate, Iterate, EnterInner,
         LeaveOuter, Seek, Miss, MeetAndKeep, MeetAndReturn, HInv, HeapTyped, Found, heapVars,
         searchVars, queryVars, poolVars
<1>3. (phase # "idle")' = (phase # "idle")
  BY <1>2
<1>4. Target' = Target
  BY <1>1, <1>3 DEF Target, Matches
<1> QED  BY <1>1, <1>3, <1>4 DEF Promise!vars

(***************************************************************************)
(* Index type 3 implements what conjunctive search promises: the k best    *)
(* completions that match, each one once, the best first.                  *)
(***************************************************************************)
THEOREM HeapAnswers == HeapSpec => RefinesTopK
<1>1. HeapInit => Promise!Init
  BY DEF HeapInit, SearchInit, QueryInit, PoolInit, Target, Promise!Init
<1>2. HInv /\ [HeapNext]_heapVars => [Promise!Next]_(Promise!vars)
  <2> SUFFICES ASSUME HInv, [HeapNext]_heapVars
               PROVE  [Promise!Next]_(Promise!vars)
    OBVIOUS
  <2>1. CASE HeapQuery
    <3>1. Query /\ phase = "idle"
      BY <2>1 DEF HeapQuery, Query, Ask, StartQuery
    <3>2. SInv
      BY <3>1, SearchPart DEF Merging
    <3> QED  BY <3>1, <3>2, QueryAsks DEF Promise!Next
  <2>2. CASE MergeQuery
    BY <2>2, MergeQueryAsks DEF Promise!Next
  <2>3. CASE HeapExtractStrings
    <3>1. Answered /\ phase = "extract"
      BY <2>3 DEF HeapExtractStrings, Answered, ExtractStrings, Forget, EndQuery
    <3>2. SInv
      BY <3>1, SearchPart DEF Merging
    <3> QED  BY <3>1, <3>2, AnsweredReplies DEF Promise!Next
  <2>4. CASE \/ MergeStep \/ HeapIterate \/ EnterInner \/ LeaveOuter \/ Seek \/ Miss
             \/ MeetAndKeep \/ MeetAndReturn \/ UNCHANGED heapVars
    BY <2>4, HeapLoopStutters
  <2> QED  BY <2>1, <2>2, <2>3, <2>4 DEF HeapNext, HeapRun
<1> QED
  BY <1>1, <1>2, HeapInductive, PTL DEF HeapSpec, RefinesTopK, Promise!Spec

=============================================================================

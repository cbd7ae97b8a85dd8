------------------------- MODULE BlockedTopkProofs -------------------------
(***************************************************************************)
(* Index type 4: what the intersection of blocks yields and what the       *)
(* search over the heap of blocks makes of it, for every collection, every *)
(* blocking, every k and every sequence of queries.                        *)
(***************************************************************************)
EXTENDS BlockedTopk, PostingsProofs, FiniteSetTheorems

-----------------------------------------------------------------------------
(***************************************************************************)
(* The invariant of the iterator.  The completions it has left behind are  *)
(* those of the intersection it has passed, but for the one it skips.  The *)
(* blocks before mi have the candidate with all their terms.  No cursor    *)
(* has passed a completion from the candidate on; the loop for a single    *)
(* block has passed its candidate unless it has just found it good.        *)
(***************************************************************************)
Passed ==
    IF Len(blocks) = 1 /\ mi = 0 THEN {d \in DocIds : d <= cand}
    ELSE {d \in DocIds : d < cand}

IterTyped ==
    /\ Len(blocks) \in Nat \ {0}
    /\ DOMAIN blocks = 1 .. Len(blocks)
    /\ \A i \in DOMAIN blocks : blocks[i].docs \in PostingLists /\ Meet \subseteq blocks[i].docs
    /\ DOMAIN cur = DOMAIN blocks
    /\ \A i \in DOMAIN cur : cur[i] \in CursorValues
    /\ cand \in 0 .. NumDocs + 1
    /\ mi \in 0 .. Len(blocks)
    /\ out \in Seq(DocIds)

IterInv ==
    /\ IterTyped
    /\ Ascending(out)
    /\ Range(out) = (Meet \cap Passed) \ Skipped
    /\ mi > 0 => cand \in DocIds
    /\ \A i \in 1 .. mi : blocks[i].terms \subseteq corpus[cand] /\ cur[i] = cand
    /\ Len(blocks) = 1 =>
           /\ cur[1] = cand /\ First(blocks[1].docs) <= cand
           /\ mi = 1 => First(blocks[1].docs) < cand
    /\ Len(blocks) > 1 =>
           \A i \in DOMAIN blocks : \A d \in blocks[i].docs : cand <= d => cur[i] <= d
    /\ pc = "at" => mi = Len(blocks) \/ cand >= NumDocs

MInv ==
    /\ corpus \in Corpora
    /\ ends \subseteq TermIds /\ NumTerms \in ends
    /\ pc \in {"none", "next", "at"}
    /\ pc # "none" => IterInv

-----------------------------------------------------------------------------
(***************************************************************************)
(* A completion with the terms of every block is in the intersection, and  *)
(* the other way round.                                                    *)
(***************************************************************************)
LEMMA MeetIs ==
    ASSUME NEW d \in DocIds
    PROVE  d \in Meet <=> \A i \in DOMAIN blocks : blocks[i].terms \subseteq corpus[d]
BY DEF Meet, QueryTerms

LEMMA IterNumbers ==
    ASSUME IterTyped
    PROVE  /\ NumDocs \in Nat /\ NumDocs > 0
           /\ cand \in Nat /\ mi \in Nat /\ Len(blocks) \in Nat
           /\ \A d \in DocIds : d \in Nat /\ d < NumDocs
           /\ cand < NumDocs => cand \in DocIds
           /\ \A i \in DOMAIN blocks :
                  /\ cur[i] \in Nat /\ cur[i] <= NumDocs
                  /\ blocks[i].docs \in SUBSET DocIds /\ blocks[i].docs # {}
<1>1. NumDocs \in Nat /\ NumDocs > 0 /\ cand \in Nat
  BY NumDocsAssumption DEF IterTyped
<1>2. cand < NumDocs => cand \in DocIds
  BY <1>1 DEF DocIds
<1> QED  BY <1>1, <1>2, Universe DEF IterTyped, PostingLists

(***************************************************************************)
(* The steps of arithmetic the rounds need, apart from their sequences.    *)
(***************************************************************************)
LEMMA NextIndex ==
    ASSUME NEW n \in Nat, NEW i \in 0 .. n, i # n
    PROVE  i + 1 \in 1 .. n
OBVIOUS

LEMMA Several ==
    ASSUME NEW n \in Nat, n > 1
    PROVE  n # 1
OBVIOUS

(***************************************************************************)
(* A round of the loop for a single block.                                 *)
(***************************************************************************)
LEMMA AloneKeeps ==
    ASSUME MInv, AloneRound
    PROVE  MInv'
<1>1. IterInv /\ IterTyped /\ pc = "next" /\ cand < NumDocs /\ mi # 1 /\ Len(blocks) = 1
  BY DEF MInv, AloneRound, Looping, IterInv
<1> DEFINE docs == blocks[1].docs
           shown == NextAfter(docs, cur[1])
<1>2. UNCHANGED <<corpus, ends, pc, blocks, out>>
  BY DEF AloneRound
<1>3. cur' = <<shown>> /\ cand' = shown /\ mi' = IF HasTerms(1, shown) THEN 1 ELSE 0
  BY DEF AloneRound
<1>4. 1 \in DOMAIN blocks /\ DOMAIN blocks = {1} /\ docs \in SUBSET DocIds /\ cand \in DocIds
  BY <1>1, IterNumbers DEF IterTyped
<1>5. cur[1] = cand /\ First(docs) <= cand /\ mi = 0
  BY <1>1 DEF IterInv, IterTyped
<1>6. /\ shown \in CursorValues /\ shown \in docs \cup {NumDocs} /\ shown > cand
      /\ \A d \in docs : d > cand => shown <= d
  BY <1>4, <1>5, NextAfterFacts
<1> HIDE DEF shown
<1>7. shown \in Nat /\ shown <= NumDocs /\ cand \in Nat /\ First(docs) \in Nat
  <2>1. First(docs) \in DocIds
    BY <1>1, <1>4, FirstFacts DEF IterTyped
  <2> QED  BY <1>4, <1>6, <2>1, Universe
<1>8. Meet' = Meet /\ Skipped' = Skipped
  BY <1>2 DEF Meet, QueryTerms, Skipped
<1>9. Meet \cap Passed' = Meet \cap Passed
  <2>1. Meet \subseteq docs /\ Meet \subseteq DocIds
    BY <1>1, <1>4 DEF IterTyped, Meet
  <2>2. Passed = {d \in DocIds : d <= cand}
    BY <1>1, <1>5 DEF Passed
  <2>3. \A d \in Meet : d \in Nat /\ (d <= cand <=> d < shown)
    <3>1. \A d \in Meet : d \in Nat
      BY <2>1, Universe
    <3> QED  BY <1>6, <1>7, <2>1, <3>1
  <2>4. CASE mi' = 1
    <3>1. Passed' = {d \in DocIds : d < shown}
      BY <1>2, <1>3, <2>4 DEF Passed
    <3> QED  BY <2>1, <2>2, <2>3, <3>1
  <2>5. CASE mi' = 0
    <3>1. Passed' = {d \in DocIds : d <= shown}
      BY <1>1, <1>2, <1>3, <2>5 DEF Passed
    <3>2. shown \notin Meet
      <4>1. ~HasTerms(1, shown)
        BY <1>3, <2>5
      <4>2. CASE HasNext(shown)
        <5>1. ~(blocks[1].terms \subseteq corpus[shown])
          BY <4>1, <4>2 DEF HasTerms
        <5> QED  BY <1>4, <2>1, <5>1, MeetIs
      <4>3. CASE ~HasNext(shown)
        BY <1>7, <4>3, <2>1, Universe DEF HasNext
      <4> QED  BY <4>2, <4>3
    <3>3. \A d \in Meet : d <= shown <=> d < shown
      BY <1>7, <2>3, <3>2
    <3> QED  BY <2>1, <2>2, <2>3, <3>1, <3>3
  <2> QED  BY <1>3, <2>4, <2>5
<1>10. HasTerms(1, shown) => shown \in DocIds /\ blocks[1].terms \subseteq corpus[shown]
  BY <1>6, <1>7, <1>4 DEF HasTerms, HasNext
<1>11. IterTyped'
  <2>1. shown \in 0 .. NumDocs + 1 /\ mi' \in 0 .. 1
    BY <1>3, <1>7, IterNumbers, <1>1
  <2>2. DOMAIN cur' = {1} /\ cur'[1] = shown
    BY <1>3
  <2>3. DOMAIN cur' = DOMAIN blocks' /\ \A i \in DOMAIN cur' : cur'[i] \in CursorValues
    BY <1>2, <1>4, <1>6, <2>2
  <2> QED  BY <1>1, <1>2, <1>3, <1>8, <2>1, <2>3 DEF IterTyped
<1>12. IterInv'
  <2>1. Range(out)' = (Meet' \cap Passed') \ Skipped'
    BY <1>1, <1>2, <1>8, <1>9 DEF IterInv
  <2>2. mi' > 0 => HasTerms(1, shown) /\ mi' = 1
    BY <1>3
  <2>3. First(docs) < shown
    BY <1>5, <1>6, <1>7
  <2>4. Ascending(out)'
    BY <1>1, <1>2 DEF IterInv
  <2>5. mi' > 0 => cand' \in DocIds
    BY <1>3, <1>10, <2>2
  <2>6. \A i \in 1 .. mi' : i = 1 /\ mi' > 0
    BY <1>3
  <2>7. \A i \in 1 .. mi' : blocks'[i].terms \subseteq corpus'[cand'] /\ cur'[i] = cand'
    BY <1>2, <1>3, <1>10, <2>2, <2>6
  <2>8. cur'[1] = cand' /\ First(blocks'[1].docs) <= cand' /\ First(blocks'[1].docs) < cand'
    BY <1>2, <1>3, <1>7, <2>3
  <2> QED  BY <1>1, <1>2, <1>11, <2>1, <2>4, <2>5, <2>7, <2>8 DEF IterInv
<1> QED  BY <1>2, <1>12 DEF MInv

(***************************************************************************)
(* The scan of a block: no completion of the intersection lies between the *)
(* candidate and the value it stops at.                                    *)
(***************************************************************************)
LEMMA ScanFacts ==
    ASSUME IterInv, Looping, Len(blocks) > 1
    PROVE  /\ mi + 1 \in DOMAIN blocks
           /\ Scanned \in CursorValues /\ Scanned \in Nat /\ Scanned <= NumDocs
           /\ Scanned >= cand
           /\ \A d \in blocks[mi + 1].docs : cand <= d => Scanned <= d
<1>1. IterTyped /\ cand < NumDocs /\ mi # Len(blocks)
  BY DEF IterInv, Looping
<1>2. mi + 1 \in DOMAIN blocks
  <2>1. Len(blocks) \in Nat /\ mi \in 0 .. Len(blocks) /\ DOMAIN blocks = 1 .. Len(blocks)
    BY <1>1 DEF IterTyped
  <2>2. mi + 1 \in 1 .. Len(blocks)
    BY <1>1, <2>1, NextIndex, Zenon
  <2> QED  BY <2>1, <2>2
<1> DEFINE docs == blocks[mi + 1].docs
           ahead == {d \in docs : d >= cur[mi + 1]}
<1>3. docs \in SUBSET DocIds /\ cand \in CursorValues /\ cand \in Nat
  BY <1>1, <1>2, IterNumbers DEF CursorValues
<1>4. ahead \in SUBSET DocIds
  BY <1>3
<1>5. Scanned = NextGeq(ahead, cand)
  BY DEF Scanned
<1>6. \A d \in docs : cand <= d => d \in ahead
  BY <1>1, <1>2, <1>3, IterNumbers DEF IterInv
<1> HIDE DEF ahead
<1>7. /\ Scanned \in CursorValues /\ Scanned >= cand
      /\ \A d \in ahead : d >= cand => Scanned <= d
  BY <1>3, <1>4, <1>5, NextGeqFacts
<1>8. Scanned \in Nat /\ Scanned <= NumDocs
  BY <1>7, Universe
<1>9. \A d \in docs : d \in Nat
  BY <1>3, Universe
<1> QED  BY <1>2, <1>3, <1>6, <1>7, <1>8, <1>9

LEMMA AgreeKeeps ==
    ASSUME MInv, Agree
    PROVE  MInv'
<1>1. IterInv /\ IterTyped /\ Looping /\ pc = "next" /\ Len(blocks) > 1
  BY DEF MInv, Agree, Looping, IterInv
<1>2. /\ UNCHANGED <<corpus, ends, pc, blocks, cand, out>>
      /\ Scanned = cand /\ HasTerms(mi + 1, cand)
      /\ cur' = [cur EXCEPT ![mi + 1] = cand] /\ mi' = mi + 1
  BY DEF Agree
<1>3. mi + 1 \in DOMAIN blocks /\ cand \in CursorValues
  BY <1>1, <1>2, ScanFacts
<1>4. cand \in DocIds /\ blocks[mi + 1].terms \subseteq corpus[cand]
  BY <1>1, <1>2, IterNumbers DEF HasTerms, HasNext
<1>5. cur'[mi + 1] = cand /\ DOMAIN cur' = DOMAIN cur
      /\ \A i \in DOMAIN blocks : i # mi + 1 => cur'[i] = cur[i]
  BY <1>1, <1>2, <1>3 DEF IterTyped
<1>6. Meet' = Meet /\ Skipped' = Skipped /\ Passed' = Passed
  <2>1. Len(blocks) # 1
    BY <1>1, IterNumbers, Several, Zenon
  <2>2. Passed' = Passed
    BY <1>2, <2>1 DEF Passed
  <2> QED  BY <1>2, <2>2 DEF Meet, QueryTerms, Skipped
<1>7. IterTyped'
  <2>1. mi' \in 0 .. Len(blocks)
    BY <1>1, <1>2, <1>3 DEF IterTyped
  <2> QED  BY <1>1, <1>2, <1>3, <1>5, <1>6, <2>1 DEF IterTyped
<1>8. IterInv'
  <2>1. \A i \in 1 .. mi' : blocks'[i].terms \subseteq corpus'[cand'] /\ cur'[i] = cand'
    <3>1. \A i \in 1 .. mi' : i \in DOMAIN blocks /\ (i \in 1 .. mi \/ i = mi + 1)
      BY <1>1, <1>2, <1>3 DEF IterTyped
    <3> QED  BY <1>1, <1>2, <1>4, <1>5, <3>1 DEF IterInv
  <2>2. \A i \in DOMAIN blocks : \A d \in blocks[i].docs : cand <= d => cur'[i] <= d
    BY <1>1, <1>5 DEF IterInv
  <2> QED  BY <1>1, <1>2, <1>4, <1>6, <1>7, <2>1, <2>2 DEF IterInv
<1> QED  BY <1>2, <1>8 DEF MInv

LEMMA DisagreeKeeps ==
    ASSUME MInv, Disagree
    PROVE  MInv'
<1>1. IterInv /\ IterTyped /\ Looping /\ pc = "next" /\ Len(blocks) > 1 /\ cand < NumDocs
  BY DEF MInv, Disagree, Looping, IterInv
<1> DEFINE s == Scanned
<1>2. /\ UNCHANGED <<corpus, ends, pc, blocks, out>>
      /\ cur' = [cur EXCEPT ![mi + 1] = s] /\ mi' = 0
      /\ cand' = IF HasTerms(mi + 1, s) THEN s ELSE s + 1
  BY DEF Disagree, Proposed
<1>3. /\ mi + 1 \in DOMAIN blocks
      /\ s \in CursorValues /\ s \in Nat /\ s <= NumDocs /\ s >= cand
      /\ \A d \in blocks[mi + 1].docs : cand <= d => s <= d
  BY <1>1, ScanFacts
<1> HIDE DEF s
<1>4. cand' \in Nat /\ s <= cand' /\ cand' <= NumDocs + 1 /\ cand <= cand'
  BY <1>1, <1>2, <1>3, IterNumbers
<1>5. cur'[mi + 1] = s /\ DOMAIN cur' = DOMAIN cur
      /\ \A i \in DOMAIN blocks : i # mi + 1 => cur'[i] = cur[i]
  BY <1>1, <1>2, <1>3 DEF IterTyped
<1>6. Meet' = Meet /\ Skipped' = Skipped
  BY <1>2 DEF Meet, QueryTerms, Skipped
<1>7. Meet \cap Passed' = Meet \cap Passed
  <2>1. Meet \subseteq blocks[mi + 1].docs /\ Meet \subseteq DocIds
    BY <1>1, <1>3 DEF IterTyped, Meet
  <2>2. Passed = {d \in DocIds : d < cand} /\ Passed' = {d \in DocIds : d < cand'}
    <3>1. Len(blocks) # 1
      BY <1>1, IterNumbers, Several, Zenon
    <3> QED  BY <1>2, <3>1 DEF Passed
  <2>3. \A d \in Meet : d \in Nat /\ d < NumDocs
    BY <2>1, Universe
  <2>4. \A d \in Meet : d < s <=> d < cand
    BY <1>1, <1>3, <2>1, <2>3, IterNumbers
  <2>5. ASSUME ~HasTerms(mi + 1, s)
        PROVE  s \notin Meet
    <3>1. CASE HasNext(s)
      <4>1. ~(blocks[mi + 1].terms \subseteq corpus[s])
        BY <2>5, <3>1 DEF HasTerms
      <4> QED  BY <1>3, <2>1, <4>1, MeetIs
    <3>2. CASE ~HasNext(s)
      BY <1>3, <2>3, <3>2, IterNumbers, <1>1 DEF HasNext
    <3> QED  BY <3>1, <3>2
  <2>6. \A d \in Meet : d < cand' <=> d < s
    BY <1>2, <1>3, <2>3, <2>5
  <2> QED  BY <2>1, <2>2, <2>4, <2>6
<1>8. IterTyped'
  <2>1. cand' \in 0 .. NumDocs + 1 /\ mi' \in 0 .. Len(blocks)
    BY <1>1, <1>2, <1>4, IterNumbers DEF IterTyped
  <2> QED  BY <1>1, <1>2, <1>3, <1>5, <1>6, <2>1 DEF IterTyped
<1>9. ASSUME NEW i \in DOMAIN blocks, NEW d \in blocks[i].docs, cand' <= d
      PROVE  cur'[i] <= d
  <2>1. d \in Nat
    BY <1>1, IterNumbers
  <2>2. cand <= d /\ s <= d
    BY <1>1, <1>3, <1>4, <1>9, <2>1, IterNumbers
  <2>3. cur[i] <= d
    BY <1>1, <2>2 DEF IterInv
  <2> QED  BY <1>5, <2>2, <2>3
<1>10. IterInv'
  BY <1>1, <1>2, <1>6, <1>7, <1>8, <1>9 DEF IterInv
<1> QED  BY <1>2, <1>10 DEF MInv

LEMMA ReturnKeeps ==
    ASSUME MInv, Return
    PROVE  MInv'
<1>1. IterInv /\ IterTyped /\ ~Looping /\ pc = "next"
  BY DEF MInv, Return, IterInv
<1>2. UNCHANGED <<corpus, ends, blocks, cur, cand, mi, out>> /\ pc' = "at"
  BY DEF Return
<1>3. mi = Len(blocks) \/ cand >= NumDocs
  BY <1>1, IterNumbers DEF Looping
<1>4. Meet' = Meet /\ Skipped' = Skipped /\ Passed' = Passed
  BY <1>2 DEF Meet, QueryTerms, Skipped, Passed
<1>5. IterTyped'
  BY <1>1, <1>2, <1>4 DEF IterTyped
<1>6. IterInv'
  BY <1>1, <1>2, <1>3, <1>4, <1>5 DEF IterInv
<1> QED  BY <1>2, <1>6 DEF MInv

(***************************************************************************)
(* Where the owner reads: the candidate is a completion of the             *)
(* intersection that is read for the first time, and all before it were    *)
(* read; at the end nothing is left to read.                               *)
(***************************************************************************)
LEMMA AtFacts ==
    ASSUME IterInv, pc = "at"
    PROVE  /\ HasNext(cand) =>
                  /\ cand \in DocIds /\ cand \in Meet \ Skipped
                  /\ mi = Len(blocks) /\ 1 \in DOMAIN blocks /\ cur[1] = cand
                  /\ Range(out) = {d \in Meet \ Skipped : d < cand}
           /\ ~HasNext(cand) => cand \notin DocIds /\ Range(out) = Meet \ Skipped
<1>1. IterTyped
  BY DEF IterInv
<1>2. Meet \subseteq DocIds /\ \A d \in DocIds : d \in Nat /\ d < NumDocs
  BY <1>1, IterNumbers DEF Meet
<1>3. ASSUME HasNext(cand)
      PROVE  /\ cand \in DocIds /\ cand \in Meet \ Skipped
             /\ mi = Len(blocks) /\ 1 \in DOMAIN blocks /\ cur[1] = cand
             /\ Range(out) = {d \in Meet \ Skipped : d < cand}
  <2>1. cand \in DocIds /\ cand < NumDocs /\ cand \in Nat
    BY <1>1, <1>3, IterNumbers DEF HasNext
  <2>2. mi = Len(blocks)
    BY <1>1, <2>1, IterNumbers DEF IterInv
  <2>3. \A i \in DOMAIN blocks : i \in 1 .. mi
    BY <1>1, <2>2 DEF IterTyped
  <2>4. cand \in Meet
    BY <2>1, <2>3, MeetIs DEF IterInv
  <2>5. mi # 0 /\ 1 \in DOMAIN blocks /\ Len(blocks) \in Nat
    BY <1>1, <2>2 DEF IterTyped
  <2>6. cur[1] = cand
    BY <2>3, <2>5 DEF IterInv
  <2>7. cand \notin Skipped
    <3>1. CASE Len(blocks) = 1
      <4>1. First(blocks[1].docs) < cand
        BY <2>2, <3>1 DEF IterInv
      <4>2. Skipped = {First(blocks[1].docs)}
        BY <3>1 DEF Skipped
      <4> QED  BY <2>1, <4>1, <4>2
    <3>2. CASE Len(blocks) # 1
      BY <3>2 DEF Skipped
    <3> QED  BY <3>1, <3>2
  <2>8. Passed = {d \in DocIds : d < cand}
    BY <2>5 DEF Passed
  <2>9. Range(out) = {d \in Meet \ Skipped : d < cand}
    BY <1>2, <2>8 DEF IterInv
  <2> QED  BY <2>1, <2>2, <2>4, <2>5, <2>6, <2>7, <2>9
<1>4. ASSUME ~HasNext(cand)
      PROVE  cand \notin DocIds /\ Range(out) = Meet \ Skipped
  <2>1. cand \in Nat /\ cand >= NumDocs /\ NumDocs \in Nat
    BY <1>1, <1>4, IterNumbers DEF HasNext
  <2>2. \A d \in Meet : d < cand /\ d <= cand
    BY <1>2, <2>1
  <2>3. Meet \subseteq Passed
    BY <1>2, <2>2 DEF Passed
  <2> QED  BY <1>2, <2>1, <2>3 DEF IterInv
<1> QED  BY <1>3, <1>4

LEMMA AdvanceKeeps ==
    ASSUME MInv, Advance
    PROVE  MInv' /\ Range(out') = Range(out) \cup {cand}
<1>1. IterInv /\ IterTyped /\ pc = "at" /\ HasNext(cand)
  BY DEF MInv, Advance, IterInv
<1>2. /\ cand \in DocIds /\ cand \in Meet \ Skipped /\ mi = Len(blocks)
      /\ 1 \in DOMAIN blocks /\ cur[1] = cand
      /\ Range(out) = {d \in Meet \ Skipped : d < cand}
  BY <1>1, AtFacts
<1>3. /\ UNCHANGED <<corpus, ends, blocks>>
      /\ pc' = "next" /\ mi' = 0 /\ out' = Append(out, cand)
  BY DEF Advance
<1>4. Meet' = Meet /\ Skipped' = Skipped
  BY <1>3 DEF Meet, QueryTerms, Skipped
<1>5. out \in Seq(DocIds) /\ out' \in Seq(DocIds)
  BY <1>1, <1>2, <1>3, AppendProperties DEF IterTyped
<1>6. Range(out') = Range(out) \cup {cand}
  BY <1>2, <1>3, <1>5, AppendRange
<1>7. Ascending(out')
  <2>1. \A d \in Range(out) : d < cand
    BY <1>2
  <2>2. Ascending(out)
    BY <1>1 DEF IterInv
  <2> QED  BY <1>2, <1>3, <1>5, <2>1, <2>2, AppendAscending
<1>8. Meet \subseteq DocIds /\ \A d \in DocIds : d \in Nat /\ d < NumDocs
  BY <1>1, IterNumbers DEF Meet
<1>9. mi' \in 0 .. Len(blocks) /\ Len(blocks) \in Nat
  BY <1>1, <1>3 DEF IterTyped
<1>10. CASE Len(blocks) > 1
  <2> DEFINE shown == NextAfter(blocks[1].docs, cur[1])
  <2>1. cur' = [cur EXCEPT ![1] = shown] /\ cand' = shown
    BY <1>10 DEF Advance
  <2>2. /\ shown \in CursorValues /\ shown > cand
        /\ \A d \in blocks[1].docs : d > cand => shown <= d
    BY <1>1, <1>2, NextAfterFacts, IterNumbers
  <2> HIDE DEF shown
  <2>3. shown \in Nat /\ shown \in 0 .. NumDocs + 1 /\ cand \in Nat
    BY <1>1, <2>2, Universe, IterNumbers
  <2>4. cur'[1] = shown /\ DOMAIN cur' = DOMAIN cur
        /\ \A i \in DOMAIN blocks : i # 1 => cur'[i] = cur[i]
    BY <1>1, <1>2, <2>1 DEF IterTyped
  <2>5. IterTyped'
    BY <1>1, <1>3, <1>4, <1>5, <1>9, <2>1, <2>2, <2>3, <2>4 DEF IterTyped
  <2>6. Range(out') = (Meet \cap Passed') \ Skipped
    <3>1. Len(blocks) # 1
      BY <1>9, <1>10, Several, Zenon
    <3>2. Passed' = {d \in DocIds : d < shown}
      BY <1>3, <2>1, <3>1 DEF Passed
    <3>3. Meet \subseteq blocks[1].docs
      BY <1>1, <1>2 DEF IterTyped
    <3>4. \A d \in Meet : d < shown <=> d < cand \/ d = cand
      BY <1>8, <2>2, <2>3, <3>3
    <3> QED  BY <1>2, <1>6, <1>8, <3>2, <3>4
  <2>7. ASSUME NEW i \in DOMAIN blocks, NEW d \in blocks[i].docs, cand' <= d
        PROVE  cur'[i] <= d
    <3>1. d \in Nat
      BY <1>1, IterNumbers
    <3>2. cand <= d
      BY <2>1, <2>2, <2>3, <2>7, <3>1
    <3>3. cur[i] <= d
      BY <1>1, <1>10, <3>2 DEF IterInv
    <3> QED  BY <2>1, <2>4, <2>7, <3>3
  <2>8. Len(blocks) # 1
    BY <1>9, <1>10, Several, Zenon
  <2>9. IterInv'
    BY <1>3, <1>4, <1>7, <2>5, <2>6, <2>7, <2>8 DEF IterInv
  <2> QED  BY <1>3, <1>6, <2>9 DEF MInv
<1>11. CASE ~(Len(blocks) > 1)
  <2>1. UNCHANGED <<cur, cand>> /\ Len(blocks) = 1
    <3>1. UNCHANGED <<cur, cand>>
      BY <1>11 DEF Advance
    <3>2. Len(blocks) = 1
      <4>1. Len(blocks) \in Nat \ {0}
        BY <1>1 DEF IterTyped
      <4>2. \A n \in Nat \ {0} : ~(n > 1) => n = 1
        OBVIOUS
      <4> QED  BY <1>11, <4>1, <4>2, Zenon
    <3> QED  BY <3>1, <3>2
  <2>2. IterTyped'
    BY <1>1, <1>3, <1>4, <1>5, <1>9, <2>1 DEF IterTyped
  <2>3. Range(out') = (Meet \cap Passed') \ Skipped
    <3>1. Passed' = {d \in DocIds : d <= cand}
      BY <1>3, <2>1 DEF Passed
    <3>2. \A d \in Meet : d <= cand <=> d < cand \/ d = cand
      BY <1>2, <1>8
    <3> QED  BY <1>2, <1>6, <1>8, <3>1, <3>2
  <2>4. First(blocks[1].docs) <= cand
    BY <1>1, <2>1 DEF IterInv
  <2>5. IterInv'
    BY <1>2, <1>3, <1>4, <1>7, <2>1, <2>2, <2>3, <2>4 DEF IterInv
  <2> QED  BY <1>3, <1>6, <2>5 DEF MInv
<1> QED  BY <1>10, <1>11

(***************************************************************************)
(* A term is in the block that is found for it, whose list is not empty.   *)
(***************************************************************************)
LEMMA BlockFacts ==
    ASSUME corpus \in Corpora, ends \subseteq TermIds, NumTerms \in ends,
           NEW t \in TermIds
    PROVE  /\ BlockOf(t) \in ends /\ t \in TermsOf(ends, BlockOf(t))
           /\ \A d \in DocIds : t \in corpus[d] => d \in Docs(BlockOf(t))
           /\ Docs(BlockOf(t)) \in PostingLists
<1> DEFINE later == {e \in ends : e >= t}
<1>1. TermIds \subseteq Nat /\ t <= NumTerms /\ NumTerms \in Nat
  BY NumTermsAssumption DEF TermIds
<1>2. later \in SUBSET Nat /\ NumTerms \in later
  BY <1>1
<1>3. Least(later) \in later /\ \A e \in later : Least(later) <= e
  <2> HIDE DEF later
  <2> QED  BY <1>2, LeastExists
<1>4. BlockOf(t) \in ends /\ BlockOf(t) >= t /\ \A e \in ends : e >= t => BlockOf(t) <= e
  BY <1>3 DEF BlockOf
<1>5. t \in TermsOf(ends, BlockOf(t))
  <2> DEFINE b == BlockOf(t)
  <2>0. t \in Nat /\ b \in Nat /\ (\A e \in ends : e \in Nat /\ (e >= t => b <= e))
    BY <1>1, <1>4
  <2> HIDE DEF b, later
  <2>1. \A e \in ends : e < b => e < t
    BY <2>0
  <2> USE DEF b
  <2> QED  BY <1>1, <1>4, <2>1 DEF TermsOf
<1>6. \A d \in DocIds : t \in corpus[d] => d \in Docs(BlockOf(t))
  BY <1>5 DEF Docs
<1>7. \E d \in DocIds : t \in corpus[d]
  BY DEF Corpora
<1>8. Docs(BlockOf(t)) \in PostingLists
  BY <1>6, <1>7 DEF Docs, PostingLists
<1> QED  BY <1>4, <1>5, <1>6, <1>8

LEMMA BlockIdsFinite ==
    ASSUME corpus \in Corpora, ends \subseteq TermIds, NumTerms \in ends,
           NEW ts \in SUBSET TermIds
    PROVE  IsFiniteSet({BlockOf(t) : t \in ts})
<1> DEFINE ids == {BlockOf(t) : t \in ts}
<1>1. ids \subseteq 1 .. NumTerms
  BY BlockFacts DEF TermIds
<1>2. IsFiniteSet(1 .. NumTerms)
  BY FS_Interval, NumTermsAssumption
<1> HIDE DEF ids
<1>3. IsFiniteSet(ids)
  BY <1>1, <1>2, FS_Subset
<1> QED  BY <1>3 DEF ids

(***************************************************************************)
(* The blocks of an iterator: at least one, each with a list that has the  *)
(* completions with the query's terms of that block.                       *)
(***************************************************************************)
LEMMA BlocksFacts ==
    ASSUME corpus \in Corpora, ends \subseteq TermIds, NumTerms \in ends,
           NEW ts \in TermSets, NEW bs \in BlockOrders(ts)
    PROVE  /\ Len(bs) \in Nat \ {0} /\ DOMAIN bs = 1 .. Len(bs)
           /\ Len(bs) = Cardinality({BlockOf(t) : t \in ts})
           /\ \A i \in DOMAIN bs :
                  /\ bs[i].docs \in PostingLists
                  /\ \E t \in ts : /\ bs[i].docs = Docs(BlockOf(t))
                                   /\ bs[i].terms = ts \cap TermsOf(ends, BlockOf(t))
                  /\ \A d \in DocIds : bs[i].terms \subseteq corpus[d] => d \in bs[i].docs
<1> DEFINE ids == {BlockOf(t) : t \in ts}
           Block(e) == [docs |-> Docs(e), terms |-> ts \cap TermsOf(ends, e)]
           n == Cardinality(ids)
<1>1. ts \subseteq TermIds /\ ts # {}
  BY DEF TermSets
<1>2. bs \in [1 .. n -> {Block(e) : e \in ids}]
  BY DEF BlockOrders
<1>3. n \in Nat \ {0}
  <2>1. IsFiniteSet(ids) /\ ids # {}
    BY <1>1, BlockIdsFinite
  <2> HIDE DEF ids
  <2> QED  BY <2>1, FS_CardinalityType, FS_EmptySet
<1>4. bs \in Seq({Block(e) : e \in ids}) /\ Len(bs) = n /\ DOMAIN bs = 1 .. n
  <2> HIDE DEF ids, Block, n
  <2> QED  BY <1>2, <1>3
<1>5. ASSUME NEW i \in DOMAIN bs
      PROVE  /\ bs[i].docs \in PostingLists
             /\ \E t \in ts : /\ bs[i].docs = Docs(BlockOf(t))
                              /\ bs[i].terms = ts \cap TermsOf(ends, BlockOf(t))
             /\ \A d \in DocIds : bs[i].terms \subseteq corpus[d] => d \in bs[i].docs
  <2>1. PICK t \in ts : bs[i] = Block(BlockOf(t))
    <3>1. bs[i] \in {Block(e) : e \in ids}
      <4> HIDE DEF Block, ids, n
      <4> QED  BY <1>2, <1>4
    <3> QED  BY <3>1
  <2>2. bs[i].docs = Docs(BlockOf(t)) /\ bs[i].terms = ts \cap TermsOf(ends, BlockOf(t))
    BY <2>1
  <2>3. t \in bs[i].terms
    BY <1>1, <2>2, BlockFacts
  <2> QED  BY <1>1, <2>2, <2>3, BlockFacts
<1> QED  BY <1>3, <1>4, <1>5

LEMMA MeetOnKeeps ==
    ASSUME MInv, NEW ts \in TermSets, MeetOn(ts)
    PROVE  MInv' /\ blocks' \in BlockOrders(ts) /\ pc' = "next" /\ out' = <<>>
<1>1. /\ UNCHANGED <<corpus, ends>> /\ blocks' \in BlockOrders(ts)
      /\ cur' = [i \in DOMAIN blocks' |-> First(blocks'[i].docs)]
      /\ cand' = First(blocks'[1].docs)
      /\ mi' = 0 /\ out' = <<>> /\ pc' = "next"
  BY DEF MeetOn
<1>2. /\ Len(blocks') \in Nat \ {0} /\ DOMAIN blocks' = 1 .. Len(blocks')
      /\ \A i \in DOMAIN blocks' :
             /\ blocks'[i].docs \in PostingLists
             /\ \A d \in DocIds : blocks'[i].terms \subseteq corpus[d] => d \in blocks'[i].docs
  BY <1>1, BlocksFacts DEF MInv
<1>3. 1 \in DOMAIN blocks' /\ \A i \in DOMAIN blocks' : Meet' \subseteq blocks'[i].docs
  <2>1. 1 \in DOMAIN blocks'
    BY <1>2
  <2>2. \A d \in Meet' : d \in DocIds /\ \A i \in DOMAIN blocks' : blocks'[i].terms \subseteq corpus[d]
    BY <1>1 DEF Meet, QueryTerms
  <2> QED  BY <1>2, <2>1, <2>2
<1>4. \A i \in DOMAIN blocks' : /\ First(blocks'[i].docs) \in DocIds
                                /\ \A d \in blocks'[i].docs : First(blocks'[i].docs) <= d
  BY <1>2, FirstFacts
<1>5. cand' \in DocIds /\ cand' \in 0 .. NumDocs + 1
  <2>1. cand' \in DocIds
    BY <1>1, <1>3, <1>4
  <2> QED  BY <2>1, NumDocsAssumption DEF DocIds
<1>6. out' \in Seq(DocIds) /\ Ascending(out)' /\ Range(out)' = {}
  BY <1>1 DEF Ascending, Range
<1>7. IterTyped'
  <2>1. mi' \in 0 .. Len(blocks')
    BY <1>1, <1>2
  <2>2. \A i \in DOMAIN cur' : cur'[i] \in CursorValues
    BY <1>1, <1>4, Universe
  <2> QED  BY <1>1, <1>2, <1>3, <1>5, <1>6, <2>1, <2>2 DEF IterTyped
<1>8. (Meet' \cap Passed') \ Skipped' = {}
  <2>1. \A d \in Meet' : d \in DocIds /\ d \in Nat /\ cand' <= d /\ cand' \in Nat
    BY <1>1, <1>3, <1>4, <1>5, Universe DEF Meet
  <2>2. CASE Len(blocks') = 1
    <3>1. Passed' = {d \in DocIds : d <= cand'} /\ Skipped' = {cand'}
      BY <1>1, <2>2 DEF Passed, Skipped
    <3> QED  BY <2>1, <3>1
  <2>3. CASE Len(blocks') # 1
    <3>1. Passed' = {d \in DocIds : d < cand'}
      BY <1>1, <2>3 DEF Passed
    <3> QED  BY <2>1, <3>1
  <2> QED  BY <2>2, <2>3
<1>9. IterInv'
  <2>1. \A i \in DOMAIN blocks' : \A d \in blocks'[i].docs : cur'[i] <= d
    BY <1>1, <1>4
  <2>2. \A i \in 1 .. mi' : FALSE
    BY <1>1
  <2>3. cur'[1] = cand' /\ First(blocks'[1].docs) <= cand'
    <3>1. cand' \in Nat
      BY <1>5, Universe
    <3> QED  BY <1>1, <1>3, <3>1
  <2> QED  BY <1>1, <1>6, <1>7, <1>8, <2>1, <2>2, <2>3 DEF IterInv
<1> QED  BY <1>1, <1>9 DEF MInv

LEMMA StutterKeeps ==
    ASSUME MInv, UNCHANGED blockVars
    PROVE  MInv'
BY SMTT(40) DEF MInv, blockVars, meetVars, IterInv, IterTyped, Passed, Meet, QueryTerms,
       Skipped, Ascending, Range

(***************************************************************************)
(* Every step of the iterator keeps its invariant.                         *)
(***************************************************************************)
LEMMA MeetInitHolds == MeetInit => MInv
<1>1. \A c : \A es \in Blockings(c) : es \subseteq TermIds /\ NumTerms \in es
  BY DEF Blockings, IsBlocking
<1> QED  BY <1>1 DEF MeetInit, MInv

LEMMA MeetStepPreserves ==
    ASSUME MInv, [Construct \/ Round \/ Advance \/ Drop]_blockVars
    PROVE  MInv'
<1>1. CASE Construct
  BY <1>1, MeetOnKeeps DEF Construct
<1>2. CASE Round
  BY <1>2, AloneKeeps, AgreeKeeps, DisagreeKeeps, ReturnKeeps DEF Round
<1>3. CASE Advance
  BY <1>3, AdvanceKeeps
<1>4. CASE Drop
  BY <1>4 DEF Drop, MInv
<1>5. CASE UNCHANGED blockVars
  BY <1>5, StutterKeeps
<1> QED  BY <1>1, <1>2, <1>3, <1>4, <1>5

LEMMA MeetInductive == MeetSpec => []MInv
BY MeetInitHolds, MeetStepPreserves, PTL DEF MeetSpec

(***************************************************************************)
(* What the invariant says where the owner reads.                          *)
(***************************************************************************)
LEMMA AtReports ==
    ASSUME MInv
    PROVE  ReportsExactly
<1> SUFFICES ASSUME pc = "at"
             PROVE  Reported = {d \in Meet : d <= cand} \ Skipped /\ Ascending(out)
  BY DEF ReportsExactly
<1>1. IterInv /\ IterTyped
  BY DEF MInv, IterInv
<1>2. Meet \subseteq DocIds /\ cand \in Nat /\ \A d \in Meet : d \in Nat /\ d < NumDocs
  BY <1>1, IterNumbers DEF Meet
<1>3. CASE HasNext(cand)
  <2>1. cand \in DocIds /\ cand \in Meet \ Skipped /\ Range(out) = {d \in Meet \ Skipped : d < cand}
    BY <1>1, <1>3, AtFacts
  <2>2. \A d \in Meet : d <= cand <=> d < cand \/ d = cand
    BY <1>2
  <2>3. Reported = {d \in Meet : d <= cand} \ Skipped
    BY <2>1, <2>2 DEF Reported
  <2> QED  BY <1>1, <2>3 DEF IterInv
<1>4. CASE ~HasNext(cand)
  <2>1. cand \notin DocIds /\ Range(out) = Meet \ Skipped
    BY <1>1, <1>4, AtFacts
  <2>2. NumDocs <= cand /\ NumDocs \in Nat
    BY <1>1, <1>4, IterNumbers DEF HasNext
  <2>3. \A d \in Meet : d <= cand
    BY <1>2, <2>2
  <2> QED  BY <1>1, <2>1, <2>3 DEF Reported, IterInv
<1> QED  BY <1>3, <1>4

(***************************************************************************)
(* The intersection over blocks yields, in ascending order and as far as   *)
(* it has come, the completions with all the terms of the query, but for   *)
(* the first of the block when there is a single one.                      *)
(***************************************************************************)
THEOREM BlocksReport == MeetSpec => []ReportsExactly
<1>1. MInv => ReportsExactly
  BY AtReports
<1> QED  BY <1>1, MeetInductive, PTL

-----------------------------------------------------------------------------
(***************************************************************************)
(* The blocks of an iterator have, together, all the terms of the query:   *)
(* there are as many as boundaries, and no two have the same terms.        *)
(***************************************************************************)
LEMMA BlocksHaveTerms ==
    ASSUME corpus \in Corpora, ends \subseteq TermIds, NumTerms \in ends,
           NEW ts \in TermSets, NEW bs \in BlockOrders(ts)
    PROVE  UNION {bs[i].terms : i \in DOMAIN bs} = ts
<1> DEFINE ids == {BlockOf(t) : t \in ts}
           n == Cardinality(ids)
           Part(e) == ts \cap TermsOf(ends, e)
<1>1. /\ Len(bs) = n /\ n \in Nat \ {0} /\ DOMAIN bs = 1 .. n
      /\ \A i \in DOMAIN bs : \E t \in ts : bs[i].terms = Part(BlockOf(t))
  BY BlocksFacts
<1>2. \A i, j \in DOMAIN bs : i # j => bs[i].terms # bs[j].terms
  BY DEF BlockOrders
<1>3. ts \subseteq TermIds
  BY DEF TermSets
<1>4. IsFiniteSet(ids)
  BY <1>3, BlockIdsFinite
<1> DEFINE f == [i \in 1 .. n |-> CHOOSE e \in ids : bs[i].terms = Part(e)]
<1>5. \A i \in 1 .. n : f[i] \in ids /\ bs[i].terms = Part(f[i])
  <2>1. \A i \in 1 .. n : \E e \in ids : bs[i].terms = Part(e)
    BY <1>1
  <2> HIDE DEF ids, n, Part
  <2> QED  BY <2>1
<1>6. f \in Injection(1 .. n, ids)
  <2>1. f \in [1 .. n -> ids]
    <3> HIDE DEF ids, n, Part
    <3> QED  BY <1>5
  <2>2. \A i, j \in 1 .. n : f[i] = f[j] => i = j
    <3> HIDE DEF f, ids, n, Part
    <3> QED  BY <1>1, <1>2, <1>5
  <2> HIDE DEF f, ids, n, Part
  <2> QED  BY <2>1, <2>2 DEF Injection, IsInjective
<1>7. Cardinality(1 .. n) = n
  <2> HIDE DEF n
  <2> QED  BY <1>1, FS_Interval
<1>8. f \in Surjection(1 .. n, ids)
  <2> HIDE DEF f, ids
  <2> QED  BY <1>4, <1>6, <1>7, FS_Injection
<1>9. \A e \in ids : \E i \in 1 .. n : f[i] = e
  <2> HIDE DEF f, ids, n
  <2> QED  BY <1>8 DEF Surjection
<1>10. ASSUME NEW t \in ts
       PROVE  \E i \in DOMAIN bs : t \in bs[i].terms
  <2>1. PICK i \in 1 .. n : f[i] = BlockOf(t)
    BY <1>9
  <2>2. bs[i].terms = Part(BlockOf(t))
    <3> HIDE DEF f, n, Part
    <3> QED  BY <1>5, <2>1
  <2>3. t \in Part(BlockOf(t))
    BY <1>3, BlockFacts
  <2> QED  BY <1>1, <2>2, <2>3
<1>11. \A i \in DOMAIN bs : bs[i].terms \subseteq ts
  BY <1>1
<1> QED  BY <1>10, <1>11

(***************************************************************************)
(* A query whose blocks are one skips the first completion of that block.  *)
(***************************************************************************)
LEMMA SkippedFirst ==
    ASSUME corpus \in Corpora, ends \subseteq TermIds, NumTerms \in ends,
           NEW ts \in TermSets, NEW bs \in BlockOrders(ts), Len(bs) = 1
    PROVE  \E e \in ends : {BlockOf(t) : t \in ts} = {e} /\ First(bs[1].docs) = First(Docs(e))
<1> DEFINE ids == {BlockOf(t) : t \in ts}
<1>1. Cardinality(ids) = 1 /\ 1 \in DOMAIN bs
  <2> HIDE DEF ids
  <2>1. Len(bs) = Cardinality(ids) /\ DOMAIN bs = 1 .. Len(bs)
    BY BlocksFacts DEF ids
  <2> QED  BY <2>1
<1>2. PICK t \in ts : bs[1].docs = Docs(BlockOf(t))
  BY <1>1, BlocksFacts
<1>3. IsFiniteSet(ids)
  BY BlockIdsFinite DEF TermSets
<1>4. \E x : ids = {x}
  <2> HIDE DEF ids
  <2> QED  BY <1>1, <1>3, FS_Singleton
<1>5. ids = {BlockOf(t)}
  BY <1>4
<1> QED  BY <1>2, <1>5, BlockFacts DEF TermSets

-----------------------------------------------------------------------------
(***************************************************************************)
(* The invariant of the search.  A completion is accounted for if no       *)
(* collected block has it, or one that has it finds no term of the range.  *)
(* Merging, each block is accounted for up to the value it shows; with an  *)
(* intersection, the completions read so far are, and no cursor of the     *)
(* heap has passed one that is still to come.                              *)
(***************************************************************************)
Covered(d) ==
    \/ \A e \in SuffixBlocks(rng) : d \notin Docs(e)
    \/ \E e \in SuffixBlocks(rng) : d \in Docs(e) /\ ~Checks(e, d)

Ahead(e, d) == e \in DOMAIN heap /\ heap[e] <= d

HeapTyped ==
    /\ DOMAIN heap \subseteq SuffixBlocks(rng)
    /\ \A e \in DOMAIN heap : heap[e] \in Docs(e)

MergeInv ==
    /\ \A e \in SuffixBlocks(rng) : \A d \in Docs(e) :
           d \in Filled \/ ~Checks(e, d) \/ Ahead(e, d)
    /\ \A d \in Filled, e \in DOMAIN heap : d <= heap[e]

TermsInv ==
    /\ terms \in TermSets
    /\ QueryTerms = terms
    /\ Skipped \subseteq FirstOfBlock
    /\ Filled \subseteq Range(out)
    /\ \A d \in Range(out) \cap Target : d \in Filled \/ Covered(d)
    /\ \A e \in SuffixBlocks(rng) : \A d \in Docs(e) :
           d \in (Meet \ Skipped) \ Range(out) => Ahead(e, d)

PoolInv ==
    /\ phase \in {"idle", "search", "extract"}
    /\ scores \in Scores
    /\ k \in 1 .. MaxK
    /\ results \in 0 .. k
    /\ phase = "search" => results < k

BInv ==
    /\ MInv
    /\ PoolInv
    /\ rng \in TermRanges
    /\ phase = "search" => HeapTyped
    /\ phase = "search" /\ terms = {} => MergeInv
    /\ pc # "none" => phase = "search" /\ TermsInv
    /\ inner => pc = "at" /\ HasNext(cand)
    /\ ScoresMatch
    /\ FoundWhenCovered

-----------------------------------------------------------------------------
LEMMA PoolNumbers ==
    ASSUME PoolInv
    PROVE  results \in Nat /\ k \in Nat /\ MaxK \in Nat /\ k <= MaxK
BY MaxKAssumption DEF PoolInv

(***************************************************************************)
(* Recording a completion that matches and does not come before those      *)
(* recorded already.                                                       *)
(***************************************************************************)
LEMMA RecordMatch ==
    ASSUME PoolInv, phase = "search", ScoresMatch, NEW doc \in Target, Record(doc),
           \A d \in Filled : d <= doc /\ (terms # {} => d # doc),
           UNCHANGED <<corpus, terms, rng>>
    PROVE  /\ scores' \in Scores /\ k' = k /\ results' = results + 1 /\ results' \in 0 .. k'
           /\ Filled' = Filled \cup {doc}
           /\ ScoresMatch'
<1>1. results \in Nat /\ k \in Nat /\ MaxK \in Nat /\ k <= MaxK /\ results < k
  BY PoolNumbers DEF PoolInv
<1>2. scores' = [scores EXCEPT ![results] = doc] /\ results' = results + 1 /\ k' = k
  BY DEF Record
<1>3. scores \in [0 .. MaxK - 1 -> DocIds] /\ results \in 0 .. MaxK - 1 /\ doc \in DocIds
  BY <1>1 DEF PoolInv, Scores, Target, Matches
<1>4. scores' \in Scores
  BY <1>2, <1>3 DEF Scores
<1>5. scores'[results] = doc /\ \A i \in 0 .. results - 1 : scores'[i] = scores[i]
  BY <1>1, <1>2, <1>3
<1>6. \A i : i \in 0 .. results' - 1 <=> i \in 0 .. results - 1 \/ i = results
  BY <1>1, <1>2
<1>7. Filled' = Filled \cup {doc}
  BY <1>5, <1>6 DEF Filled
<1>8. Target' = Target
  BY DEF Target, Matches
<1>9. ASSUME NEW i \in 0 .. results' - 1, NEW j \in 0 .. results' - 1, i < j
      PROVE  scores'[i] <= scores'[j] /\ (terms # {} => scores'[i] # scores'[j])
  <2>1. i \in 0 .. results - 1
    BY <1>1, <1>2, <1>9
  <2>2. CASE j \in 0 .. results - 1
    BY <1>5, <1>9, <2>1, <2>2 DEF ScoresMatch
  <2>3. CASE j = results
    <3>1. scores[i] \in Filled
      BY <2>1 DEF Filled
    <3> QED  BY <1>5, <2>1, <2>3, <3>1
  <2> QED  BY <1>6, <2>2, <2>3
<1>10. ScoresMatch'
  BY <1>7, <1>8, <1>9 DEF ScoresMatch
<1> QED  BY <1>1, <1>2, <1>4, <1>7, <1>10

(***************************************************************************)
(* The collected blocks of a range have lists.                             *)
(***************************************************************************)
LEMMA SuffixLists ==
    ASSUME MInv, NEW r \in TermRanges, NEW e \in SuffixBlocks(r)
    PROVE  Docs(e) \in PostingLists /\ Docs(e) \in SUBSET DocIds
<1>1. r.begin \in TermIds /\ r.begin .. r.end - 1 \subseteq TermIds
  BY NumTermsAssumption DEF TermRanges, TermIds
<1>2. PICK t \in TermIds : e = BlockOf(t)
  BY <1>1 DEF SuffixBlocks
<1>3. Docs(e) \in PostingLists
  BY <1>2, BlockFacts DEF MInv
<1> QED  BY <1>3 DEF PostingLists

(***************************************************************************)
(* What depends on the query only, in a step that leaves it alone.         *)
(***************************************************************************)
LEMMA SameQuery ==
    ASSUME UNCHANGED <<corpus, ends, terms, rng>>
    PROVE  /\ Target' = Target /\ FirstOfBlock' = FirstOfBlock
           /\ SuffixBlocks(rng)' = SuffixBlocks(rng)
           /\ \A e : Docs(e)' = Docs(e)
           /\ \A e, d : Checks(e, d)' <=> Checks(e, d)
           /\ \A d : Covered(d)' <=> Covered(d)
<1>1. \A e : Docs(e)' = Docs(e)
  BY DEF Docs
<1>2. SuffixBlocks(rng)' = SuffixBlocks(rng)
  BY DEF SuffixBlocks, BlockOf
<1>3. \A e, d : Checks(e, d)' <=> Checks(e, d)
  BY DEF Checks
<1>4. \A d : Covered(d)' <=> Covered(d)
  BY <1>1, <1>2, <1>3 DEF Covered
<1>5. FirstOfBlock' = FirstOfBlock
  BY DEF FirstOfBlock, BlockOf, Docs
<1>6. Target' = Target
  BY DEF Target, Matches
<1> QED  BY <1>1, <1>2, <1>3, <1>4, <1>5, <1>6

(***************************************************************************)
(* The heap after a cursor has moved forward, or has left.                 *)
(***************************************************************************)
LEMMA HeapMoves ==
    ASSUME MInv, rng \in TermRanges, HeapTyped, NEW e \in DOMAIN heap,
           NEW lower \in Nat, NEW v \in CursorValues, v \in Docs(e) \cup {NumDocs},
           heap[e] <= v,
           \A d \in Docs(e) : lower <= d => v <= d,
           heap' = HeapWith(e, v), UNCHANGED <<corpus, ends, terms, rng>>
    PROVE  /\ HeapTyped'
           /\ \A f \in DOMAIN heap' : f \in DOMAIN heap /\ heap[f] <= heap'[f]
           /\ \A f \in SuffixBlocks(rng) : \A d \in Docs(f) :
                  Ahead(f, d) /\ (f = e => lower <= d) => Ahead(f, d)'
<1>1. e \in SuffixBlocks(rng) /\ heap[e] \in Docs(e) /\ Docs(e) \subseteq DocIds
  BY SuffixLists DEF HeapTyped
<1>2. \A f \in DOMAIN heap : heap[f] \in Nat
  BY SuffixLists, Universe DEF HeapTyped
<1>3. CASE HasNext(v)
  <2>1. heap' = [heap EXCEPT ![e] = v]
    BY <1>3 DEF HeapWith
  <2>2. v \in Docs(e)
    BY <1>3, NumDocsAssumption DEF HasNext
  <2>3. DOMAIN heap' = DOMAIN heap /\ heap'[e] = v /\ \A f \in DOMAIN heap : f # e => heap'[f] = heap[f]
    BY <2>1
  <2>4. HeapTyped'
    BY <2>2, <2>3, SameQuery DEF HeapTyped
  <2>5. \A f \in DOMAIN heap' : f \in DOMAIN heap /\ heap[f] <= heap'[f]
    BY <1>2, <2>3
  <2>6. ASSUME NEW f \in SuffixBlocks(rng), NEW d \in Docs(f), Ahead(f, d), f = e => lower <= d
        PROVE  Ahead(f, d)'
    BY <2>3, <2>6 DEF Ahead
  <2> QED  BY <2>4, <2>5, <2>6
<1>4. CASE ~HasNext(v)
  <2>1. heap' = [f \in DOMAIN heap \ {e} |-> heap[f]]
    BY <1>4 DEF HeapWith
  <2>2. DOMAIN heap' = DOMAIN heap \ {e} /\ \A f \in DOMAIN heap' : heap'[f] = heap[f]
    BY <2>1
  <2>3. HeapTyped'
    BY <2>2, SameQuery DEF HeapTyped
  <2>4. \A f \in DOMAIN heap' : f \in DOMAIN heap /\ heap[f] <= heap'[f]
    BY <1>2, <2>2
  <2>5. ASSUME NEW f \in SuffixBlocks(rng), NEW d \in Docs(f), Ahead(f, d), f = e => lower <= d
        PROVE  Ahead(f, d)'
    <3>1. f # e
      <4>1. \A x \in Docs(e) : x < NumDocs /\ x \in Nat
        BY <1>1, Universe
      <4>2. v >= NumDocs /\ v \in Nat /\ NumDocs \in Nat
        BY <1>4, Universe DEF HasNext
      <4> QED  BY <2>5, <4>1, <4>2
    <3> QED  BY <2>2, <2>5, <3>1 DEF Ahead
  <2> QED  BY <2>3, <2>4, <2>5
<1> QED  BY <1>3, <1>4

(***************************************************************************)
(* No step of the search is anything but a step of the iterator.           *)
(***************************************************************************)
BlockedNext == SuffixQuery \/ TermsQuery \/ BlockedRun

LEMMA BlockedIsMeet ==
    ASSUME [BlockedNext]_blockedVars
    PROVE  [Construct \/ Round \/ Advance \/ Drop]_blockVars
<1> USE DEF Construct, blockVars
<1>1. CASE TermsQuery
  BY <1>1 DEF TermsQuery
<1>2. CASE Iterate \/ LeaveOuter \/ Miss \/ Met \/ MetLast
  BY <1>2 DEF Iterate, LeaveOuter, Miss, Met, MetLast
<1>3. CASE \/ SuffixQuery \/ Merge \/ MergeLast \/ Merged \/ EnterInner \/ Seek
           \/ ExtractStrings \/ UNCHANGED blockedVars
  BY <1>3 DEF SuffixQuery, Merge, MergeLast, Merged, EnterInner, Seek, ExtractStrings,
     blockedVars
<1> QED  BY <1>1, <1>2, <1>3 DEF BlockedNext, BlockedRun

LEMMA BlockedMeets ==
    ASSUME MInv, [BlockedNext]_blockedVars
    PROVE  MInv'
BY BlockedIsMeet, MeetStepPreserves

LEMMA BlockedRuns ==
    ASSUME MInv, BlockedRun
    PROVE  MInv'
BY BlockedMeets DEF BlockedNext

(***************************************************************************)
(* A query begins: nothing is recorded, every cursor shows its first value. *)
(***************************************************************************)
LEMMA StartFacts ==
    ASSUME BInv, MInv', StartBlocked, UNCHANGED <<corpus, ends>>
    PROVE  /\ PoolInv' /\ rng' \in TermRanges /\ phase' = "search" /\ phase = "idle"
           /\ Filled' = {} /\ ScoresMatch' /\ FoundWhenCovered'
           /\ HeapTyped'
           /\ \A e \in SuffixBlocks(rng)' : \A d \in Docs(e)' : Ahead(e, d)'
           /\ inner' = inner /\ pc = "none" /\ ~inner
<1>1. /\ phase = "idle" /\ phase' = "search" /\ k' \in 1 .. MaxK /\ results' = 0
      /\ scores' = scores /\ rng' \in TermRanges /\ inner' = inner
      /\ heap' = [e \in SuffixBlocks(rng') |-> First(Docs(e))]
  BY DEF StartBlocked, StartQuery
<1>2. PoolInv'
  <2>1. k' \in Nat /\ 0 < k' /\ 0 \in 0 .. k'
    BY <1>1, MaxKAssumption
  <2> QED  BY <1>1, <2>1 DEF BInv, PoolInv
<1>3. Filled' = {} /\ \A i \in 0 .. results' - 1 : FALSE
  BY <1>1 DEF Filled
<1>4. ScoresMatch'
  BY <1>3 DEF ScoresMatch
<1>5. FoundWhenCovered'
  BY <1>1 DEF FoundWhenCovered
<1>6. SuffixBlocks(rng)' = SuffixBlocks(rng') /\ \A e : Docs(e)' = Docs(e)
  BY DEF SuffixBlocks, BlockOf, Docs
<1>7. \A e \in SuffixBlocks(rng') : Docs(e) \in PostingLists
  BY <1>1, SuffixLists DEF BInv
<1>8. \A e \in DOMAIN heap' : heap'[e] \in Docs(e) /\ \A d \in Docs(e) : heap'[e] <= d
  BY <1>1, <1>7, FirstFacts
<1>9. HeapTyped'
  BY <1>1, <1>6, <1>8 DEF HeapTyped
<1>10. \A e \in SuffixBlocks(rng)' : \A d \in Docs(e)' : Ahead(e, d)'
  BY <1>1, <1>6, <1>8 DEF Ahead
<1> QED  BY <1>1, <1>2, <1>3, <1>4, <1>5, <1>9, <1>10 DEF BInv

LEMMA SuffixQueryKeeps ==
    ASSUME BInv, SuffixQuery
    PROVE  BInv'
<1>1. StartBlocked /\ terms' = {} /\ UNCHANGED blockVars
  BY DEF SuffixQuery
<1>2. MInv'
  BY BlockedMeets DEF BlockedNext, BInv
<1>3. UNCHANGED <<corpus, ends, pc>>
  BY <1>1 DEF blockVars, meetVars
<1>4. MergeInv'
  BY <1>1, <1>2, <1>3, StartFacts DEF MergeInv
<1> QED  BY <1>1, <1>2, <1>3, <1>4, StartFacts DEF BInv

LEMMA TermsQueryKeeps ==
    ASSUME BInv, TermsQuery
    PROVE  BInv'
<1>1. StartBlocked /\ terms' \in TermSets /\ MeetOn(terms') /\ UNCHANGED <<corpus, ends>>
  BY DEF TermsQuery, MeetOn
<1>2. MInv' /\ blocks' \in BlockOrders(terms') /\ pc' = "next" /\ out' = <<>>
  BY <1>1, MeetOnKeeps DEF BInv
<1>3. QueryTerms' = terms'
  BY <1>1, <1>2, BlocksHaveTerms DEF BInv, MInv, QueryTerms
<1>4. Skipped' \subseteq FirstOfBlock'
  <2> SUFFICES ASSUME Len(blocks') = 1
               PROVE  First(blocks'[1].docs) \in FirstOfBlock'
    BY <1>2 DEF Skipped
  <2>1. PICK e \in ends : {BlockOf(t) : t \in terms'} = {e} /\ First(blocks'[1].docs) = First(Docs(e))
    BY <1>1, <1>2, SkippedFirst DEF BInv, MInv
  <2>2. {BlockOf(t) : t \in terms}' = {e}
    BY <1>1, <2>1 DEF BlockOf
  <2>3. Docs(e)' = Docs(e)
    BY <1>1 DEF Docs
  <2>4. First(Docs(e)') \in FirstOfBlock'
    BY <2>2 DEF FirstOfBlock
  <2> QED  BY <2>1, <2>3, <2>4
<1>5. TermsInv'
  <2>1. Range(out)' = {}
    BY <1>2 DEF Range
  <2> QED  BY <1>1, <1>2, <1>3, <1>4, <2>1, StartFacts DEF TermsInv
<1> QED  BY <1>1, <1>2, <1>5, StartFacts DEF BInv, TermSets

(***************************************************************************)
(* What a step leaves of the invariant when it moves neither the scores    *)
(* nor the heap, or moves them on.                                         *)
(***************************************************************************)
LEMMA SamePool ==
    ASSUME PoolInv, ScoresMatch,
           UNCHANGED <<corpus, ends, terms, rng, phase, scores, k, results>>
    PROVE  PoolInv' /\ ScoresMatch' /\ Filled' = Filled
<1>1. Filled' = Filled
  BY DEF Filled
<1>2. Target' = Target
  BY SameQuery
<1> QED  BY <1>1, <1>2 DEF PoolInv, ScoresMatch

LEMMA SameTerms ==
    ASSUME TermsInv, UNCHANGED <<corpus, ends, terms, rng, blocks, out>>,
           Filled' = Filled,
           \A e \in SuffixBlocks(rng) : \A d \in Docs(e) :
               d \in (Meet \ Skipped) \ Range(out) /\ Ahead(e, d) => Ahead(e, d)'
    PROVE  TermsInv'
<1>1. QueryTerms' = QueryTerms /\ Meet' = Meet /\ Skipped' = Skipped /\ Range(out)' = Range(out)
  BY DEF QueryTerms, Meet, Skipped, Range
<1> QED  BY <1>1, SameQuery DEF TermsInv

LEMMA SameHeap ==
    ASSUME UNCHANGED <<corpus, ends, rng, heap>>
    PROVE  /\ HeapTyped => HeapTyped'
           /\ \A e, d : Ahead(e, d) => Ahead(e, d)'
BY DEF HeapTyped, Ahead, SuffixBlocks, BlockOf, Docs

LEMMA IterateKeeps ==
    ASSUME BInv, Iterate
    PROVE  BInv'
<1>1. /\ UNCHANGED <<corpus, ends, blocks, out, phase, scores, k, results, terms, rng, heap, inner>>
      /\ pc = "next"
  BY DEF Iterate, Round, AloneRound, Agree, Disagree, Return, Looping, poolVars
<1>2. MInv'
  BY BlockedRuns DEF BInv, BlockedRun
<1>3. phase = "search" /\ HeapTyped /\ TermsInv /\ ~inner
  BY <1>1 DEF BInv
<1>4. PoolInv' /\ ScoresMatch' /\ Filled' = Filled
  BY <1>1, SamePool DEF BInv
<1>5. TermsInv' /\ HeapTyped'
  BY <1>1, <1>3, <1>4, SameTerms, SameHeap
<1>6. terms' # {}
  BY <1>5 DEF TermsInv, TermSets
<1> QED  BY <1>1, <1>2, <1>3, <1>4, <1>5, <1>6 DEF BInv, FoundWhenCovered

LEMMA EnterInnerKeeps ==
    ASSUME BInv, EnterInner
    PROVE  BInv'
<1>1. /\ UNCHANGED <<corpus, ends, pc, blocks, cand, out, phase, scores, k, results, terms, rng, heap>>
      /\ pc = "at" /\ phase = "search" /\ HasNext(cand)
  BY DEF EnterInner, AtCandidate, blockVars, meetVars, poolVars
<1>2. MInv'
  BY BlockedRuns DEF BInv, BlockedRun
<1>3. HeapTyped /\ TermsInv
  BY <1>1 DEF BInv
<1>4. PoolInv' /\ ScoresMatch' /\ Filled' = Filled
  BY <1>1, SamePool DEF BInv
<1>5. TermsInv' /\ HeapTyped'
  BY <1>1, <1>3, <1>4, SameTerms, SameHeap
<1>6. terms' # {}
  BY <1>5 DEF TermsInv, TermSets
<1> QED  BY <1>1, <1>2, <1>4, <1>5, <1>6 DEF BInv, FoundWhenCovered

(***************************************************************************)
(* A round of the merge: the value the block shows is recorded if it is    *)
(* checked, and the cursor moves behind it.                                *)
(***************************************************************************)
LEMMA MergeShows ==
    ASSUME BInv, MergingSuffix, NEW e \in Top
    PROVE  /\ HeapTyped /\ MergeInv /\ pc = "none" /\ ~inner
           /\ e \in DOMAIN heap /\ e \in SuffixBlocks(rng)
           /\ heap[e] \in Docs(e) /\ heap[e] \in DocIds /\ Docs(e) \in SUBSET DocIds
           /\ \A f \in DOMAIN heap : heap[e] <= heap[f] /\ heap[f] \in Nat
           /\ \A d \in Filled : d <= heap[e]
           /\ Checks(e, heap[e]) => heap[e] \in Target
<1>1. HeapTyped /\ MergeInv /\ phase = "search" /\ terms = {} /\ pc = "none" /\ ~inner
  BY DEF BInv, MergingSuffix, TermsInv, TermSets
<1>2. e \in DOMAIN heap /\ e \in SuffixBlocks(rng) /\ heap[e] \in Docs(e)
  BY <1>1 DEF Top, HeapTyped
<1>3. \A f \in SuffixBlocks(rng) : Docs(f) \in SUBSET DocIds
  BY SuffixLists DEF BInv
<1>4. \A f \in DOMAIN heap : heap[e] <= heap[f] /\ heap[f] \in Nat
  BY <1>1, <1>3, Universe DEF Top, HeapTyped
<1>5. Checks(e, heap[e]) => heap[e] \in Target
  <2>1. \A t \in TermIds : Contains(rng, t) => t \in rng.begin .. rng.end
    BY NumTermsAssumption DEF BInv, TermRanges, TermIds, Contains
  <2>2. corpus[heap[e]] \subseteq TermIds
    BY <1>2, <1>3 DEF BInv, MInv, Corpora
  <2> QED  BY <1>1, <1>2, <1>3, <2>1, <2>2 DEF Checks, Target, Matches
<1> QED  BY <1>1, <1>2, <1>3, <1>4, <1>5 DEF MergeInv

LEMMA MergeKeeps ==
    ASSUME BInv, Merge
    PROVE  BInv'
<1>1. PICK e \in Top : Noted(e, heap[e]) /\ heap' = HeapWith(e, NextAfter(Docs(e), heap[e]))
  BY DEF Merge
<1> DEFINE v == heap[e]
           w == NextAfter(Docs(e), v)
<1>2. UNCHANGED <<corpus, ends, pc, phase, terms, rng, inner>> /\ phase = "search" /\ terms = {}
  BY DEF Merge, MergingSuffix, blockVars, meetVars
<1>3. /\ HeapTyped /\ MergeInv /\ pc = "none" /\ ~inner
      /\ e \in DOMAIN heap /\ e \in SuffixBlocks(rng)
      /\ v \in Docs(e) /\ v \in DocIds /\ Docs(e) \in SUBSET DocIds
      /\ \A f \in DOMAIN heap : v <= heap[f] /\ heap[f] \in Nat
      /\ \A d \in Filled : d <= v
      /\ Checks(e, v) => v \in Target
  BY MergeShows DEF Merge
<1>4. MInv'
  BY BlockedRuns DEF BInv, BlockedRun
<1>5. /\ w \in CursorValues /\ w \in Docs(e) \cup {NumDocs} /\ w > v
      /\ \A d \in Docs(e) : d > v => w <= d
  BY <1>3, NextAfterFacts
<1> HIDE DEF v, w
<1>6. v \in Nat /\ w \in Nat /\ \A d \in Docs(e) : d \in Nat
  BY <1>3, <1>5, Universe
<1>7. v <= w /\ v + 1 \in Nat /\ \A d \in Docs(e) : v + 1 <= d => w <= d
  BY <1>5, <1>6
<1>8. /\ HeapTyped'
      /\ \A f \in DOMAIN heap' : f \in DOMAIN heap /\ heap[f] <= heap'[f]
      /\ \A f \in SuffixBlocks(rng) : \A d \in Docs(f) :
             Ahead(f, d) /\ (f = e => v + 1 <= d) => Ahead(f, d)'
  <2>1. heap' = HeapWith(e, w) /\ heap[e] <= w
    BY <1>1, <1>7 DEF v, w
  <2>2. MInv /\ rng \in TermRanges
    BY DEF BInv
  <2> QED  BY <1>2, <1>3, <1>5, <1>7, <2>1, <2>2, HeapMoves
<1>9. /\ PoolInv' /\ ScoresMatch' /\ Filled \subseteq Filled'
      /\ Filled' \subseteq Filled \cup {v} /\ (Checks(e, v) => v \in Filled')
  <2>1. CASE Checks(e, v)
    <3>1. results + 1 # k /\ Record(v)
      BY <1>1, <2>1 DEF Noted, v
    <3>2. /\ scores' \in Scores /\ k' = k /\ results' = results + 1 /\ results' \in 0 .. k'
          /\ Filled' = Filled \cup {v} /\ ScoresMatch'
      BY <1>2, <1>3, <2>1, <3>1, RecordMatch DEF BInv
    <3>3. results' < k'
      BY <1>2, <3>1, <3>2, PoolNumbers DEF BInv, PoolInv
    <3> QED  BY <1>2, <3>2, <3>3 DEF BInv, PoolInv
  <2>2. CASE ~Checks(e, v)
    <3>1. UNCHANGED <<scores, k, results>>
      BY <1>1, <2>2 DEF Noted, v
    <3> QED  BY <1>2, <2>2, <3>1, SamePool DEF BInv
  <2> QED  BY <2>1, <2>2
<1>10. MergeInv'
  <2>1. ASSUME NEW f \in SuffixBlocks(rng), NEW d \in Docs(f)
        PROVE  d \in Filled' \/ ~Checks(f, d) \/ Ahead(f, d)'
    <3>1. CASE d \in Filled \/ ~Checks(f, d)
      BY <1>9, <3>1
    <3>2. CASE Ahead(f, d) /\ Checks(f, d)
      <4>1. CASE f = e /\ d = v
        BY <1>9, <3>2, <4>1
      <4>2. CASE f = e /\ d # v
        <5>1. v <= d
          BY <3>2, <4>2 DEF Ahead, v
        <5>2. v + 1 <= d
          BY <1>6, <4>2, <5>1
        <5> QED  BY <1>8, <3>2, <4>2, <5>2
      <4>3. CASE f # e
        BY <1>8, <3>2, <4>3
      <4> QED  BY <4>1, <4>2, <4>3
    <3> QED  BY <1>3, <3>1, <3>2 DEF MergeInv
  <2>2. ASSUME NEW d \in Filled', NEW f \in DOMAIN heap'
        PROVE  d <= heap'[f]
    <3>1. d <= v /\ v <= heap[f] /\ heap[f] <= heap'[f] /\ heap[f] \in Nat
      BY <1>3, <1>6, <1>8, <1>9
    <3>2. d \in Nat
      <4>1. Filled' \subseteq DocIds
        BY <1>9 DEF ScoresMatch, Target, Matches
      <4> QED  BY <4>1, Universe
    <3>3. heap'[f] \in Nat
      <4>1. heap'[f] \in Docs(f) /\ f \in SuffixBlocks(rng)
        BY <1>2, <1>8, SameQuery DEF HeapTyped
      <4>2. Docs(f) \in SUBSET DocIds
        BY <4>1, SuffixLists DEF BInv
      <4> QED  BY <4>1, <4>2, Universe
    <3> QED  BY <1>6, <3>1, <3>2, <3>3
  <2> QED  BY <1>2, <2>1, <2>2, SameQuery DEF MergeInv
<1> QED  BY <1>2, <1>3, <1>4, <1>8, <1>9, <1>10 DEF BInv, FoundWhenCovered

LEMMA MergeLastKeeps ==
    ASSUME BInv, MergeLast
    PROVE  BInv'
<1>1. PICK e \in Top : NotedLast(e, heap[e])
  BY DEF MergeLast
<1>2. UNCHANGED <<corpus, ends, pc, terms, rng, inner>> /\ phase = "search" /\ phase' = "extract"
      /\ terms = {}
  BY DEF MergeLast, MergingSuffix, blockVars, meetVars
<1>3. /\ pc = "none" /\ ~inner /\ heap[e] \in Target /\ \A d \in Filled : d <= heap[e]
  BY <1>1, MergeShows DEF MergeLast, NotedLast
<1>4. MInv'
  BY BlockedRuns DEF BInv, BlockedRun
<1>5. /\ scores' \in Scores /\ k' = k /\ results' = results + 1 /\ results' \in 0 .. k' /\ ScoresMatch'
  BY <1>1, <1>2, <1>3, RecordMatch DEF BInv, NotedLast
<1>6. ~(results' < k')
  BY <1>1, <1>5, PoolNumbers DEF BInv, NotedLast
<1> QED  BY <1>2, <1>3, <1>4, <1>5, <1>6 DEF BInv, PoolInv, FoundWhenCovered

LEMMA MergedKeeps ==
    ASSUME BInv, Merged
    PROVE  BInv'
<1>1. /\ UNCHANGED <<corpus, ends, pc, terms, rng, scores, k, results, inner>>
      /\ phase = "search" /\ phase' = "extract" /\ terms = {} /\ heap = <<>>
  BY DEF Merged, MergingSuffix, EmptyHeap, blockVars, meetVars
<1>2. MInv' /\ MergeInv /\ pc = "none" /\ ~inner
  BY <1>1, BlockedRuns DEF BInv, BlockedRun, TermsInv, TermSets
<1>3. DOMAIN heap = {}
  BY <1>1
<1>4. Filled' = Filled
  BY <1>1 DEF Filled
<1>5. ScoresMatch' /\ PoolInv'
  BY <1>1, <1>4, SameQuery DEF BInv, ScoresMatch, PoolInv
<1>6. \A d \in Target \ Filled : Covered(d)
  BY <1>2, <1>3 DEF MergeInv, Ahead, Covered
<1>7. FoundWhenCovered'
  BY <1>1, <1>4, <1>6, SameQuery DEF FoundWhenCovered, Covered
<1> QED  BY <1>1, <1>2, <1>5, <1>7 DEF BInv

-----------------------------------------------------------------------------
(***************************************************************************)
(* The state of the inner loop.                                            *)
(***************************************************************************)
LEMMA InnerFacts ==
    ASSUME BInv, inner
    PROVE  /\ pc = "at" /\ phase = "search" /\ HasNext(cand) /\ cand \in DocIds /\ cand \in Nat
           /\ HeapTyped /\ TermsInv /\ terms # {}
           /\ cand \in Meet \ Skipped
           /\ Range(out) = {d \in Meet \ Skipped : d < cand}
           /\ Meet \subseteq DocIds
<1>1. pc = "at" /\ phase = "search" /\ HasNext(cand) /\ HeapTyped /\ TermsInv /\ IterInv
  BY DEF BInv, MInv
<1>2. cand \in DocIds /\ cand \in Meet \ Skipped /\ Range(out) = {d \in Meet \ Skipped : d < cand}
  BY <1>1, AtFacts
<1>3. cand \in Nat
  BY <1>2, Universe
<1> QED  BY <1>1, <1>2, <1>3 DEF TermsInv, TermSets, Meet

LEMMA SeekKeeps ==
    ASSUME BInv, Seek
    PROVE  BInv'
<1>1. PICK e \in Top : heap[e] < cand /\ heap' = HeapWith(e, NextGeq(Docs(e), cand))
  BY DEF Seek
<1> DEFINE w == NextGeq(Docs(e), cand)
<1>2. /\ UNCHANGED <<corpus, ends, pc, blocks, cand, out, phase, scores, k, results, terms, rng, inner>>
      /\ inner
  BY DEF Seek, blockVars, meetVars, poolVars
<1>3. /\ pc = "at" /\ phase = "search" /\ HasNext(cand) /\ cand \in DocIds /\ cand \in Nat
      /\ HeapTyped /\ TermsInv /\ terms # {} /\ Meet \subseteq DocIds
      /\ Range(out) = {d \in Meet \ Skipped : d < cand}
  BY <1>2, InnerFacts
<1>4. MInv'
  BY BlockedRuns DEF BInv, BlockedRun
<1>5. e \in DOMAIN heap /\ e \in SuffixBlocks(rng) /\ heap[e] \in Docs(e)
  BY <1>3 DEF Top, HeapTyped
<1>6. Docs(e) \in SUBSET DocIds /\ heap[e] \in Nat
  BY <1>5, SuffixLists, Universe DEF BInv
<1>7. /\ w \in CursorValues /\ w \in Docs(e) \cup {NumDocs} /\ w >= cand
      /\ \A d \in Docs(e) : d >= cand => w <= d
  BY <1>3, <1>6, NextGeqFacts, Universe
<1>8. /\ HeapTyped'
      /\ \A f \in SuffixBlocks(rng) : \A d \in Docs(f) :
             Ahead(f, d) /\ (f = e => cand <= d) => Ahead(f, d)'
  <2>1. heap' = HeapWith(e, w)
    BY <1>1
  <2> HIDE DEF w
  <2>2. heap[e] <= w
    BY <1>1, <1>3, <1>6, <1>7, Universe
  <2>3. \A d \in Docs(e) : cand <= d => w <= d
    BY <1>3, <1>6, <1>7, Universe
  <2>4. MInv /\ rng \in TermRanges
    BY DEF BInv
  <2> QED  BY <1>2, <1>3, <1>5, <1>7, <2>1, <2>2, <2>3, <2>4, HeapMoves
<1>9. PoolInv' /\ ScoresMatch' /\ Filled' = Filled
  BY <1>2, SamePool DEF BInv
<1>10. \A d \in (Meet \ Skipped) \ Range(out) : cand <= d
  <2>1. \A d \in Meet : d \in Nat
    BY <1>3, Universe
  <2> QED  BY <1>3, <2>1
<1>11. TermsInv'
  BY <1>2, <1>3, <1>8, <1>9, <1>10, SameTerms
<1> QED  BY <1>2, <1>3, <1>4, <1>8, <1>9, <1>11 DEF BInv, FoundWhenCovered

(***************************************************************************)
(* The candidate is left behind: it has been recorded, does not match, or  *)
(* is accounted for.                                                       *)
(***************************************************************************)
LEMMA LeftBehind ==
    ASSUME BInv, inner, Advance, UNCHANGED <<terms, rng, heap, phase>>,
           Filled \subseteq Filled', Filled' \subseteq Filled \cup {cand},
           cand \in Filled' \/ Covered(cand)
    PROVE  TermsInv' /\ HeapTyped' /\ pc' = "next"
<1>1. Range(out') = Range(out) \cup {cand} /\ UNCHANGED <<corpus, ends, blocks>> /\ pc' = "next"
  BY AdvanceKeeps DEF BInv, Advance
<1>2. HeapTyped /\ TermsInv /\ Range(out)' = Range(out')
  BY InnerFacts DEF Range
<1>3. QueryTerms' = QueryTerms /\ Meet' = Meet /\ Skipped' = Skipped
  BY <1>1 DEF QueryTerms, Meet, Skipped
<1>4. HeapTyped' /\ \A e, d : Ahead(e, d) => Ahead(e, d)'
  BY <1>1, <1>2, SameHeap
<1>5. /\ Target' = Target /\ FirstOfBlock' = FirstOfBlock
      /\ SuffixBlocks(rng)' = SuffixBlocks(rng)
      /\ \A e : Docs(e)' = Docs(e)
      /\ \A d : Covered(d)' <=> Covered(d)
  BY <1>1, SameQuery
<1>6. \A d \in Range(out)' \cap Target : d \in Filled' \/ Covered(d)
  BY <1>1, <1>2 DEF TermsInv
<1>7. Filled' \subseteq Range(out)'
  BY <1>1, <1>2 DEF TermsInv
<1>8. \A e \in SuffixBlocks(rng) : \A d \in Docs(e) :
          d \in (Meet \ Skipped) \ Range(out)' => Ahead(e, d)'
  BY <1>1, <1>2, <1>4 DEF TermsInv
<1>9. terms' \in TermSets /\ QueryTerms' = terms' /\ Skipped' \subseteq FirstOfBlock'
  BY <1>2, <1>3, <1>5 DEF TermsInv
<1> QED  BY <1>1, <1>3, <1>4, <1>5, <1>6, <1>7, <1>8, <1>9 DEF TermsInv

LEMMA MissKeeps ==
    ASSUME BInv, Miss
    PROVE  BInv'
<1>1. /\ UNCHANGED <<corpus, ends, phase, scores, k, results, terms, rng, heap>>
      /\ inner /\ ~inner' /\ Advance
      /\ heap = <<>> \/ \E e \in Top : heap[e] > cand
  BY DEF Miss, Advance, poolVars, EmptyHeap
<1>2. MInv'
  BY BlockedRuns DEF BInv, BlockedRun
<1>3. /\ phase = "search" /\ cand \in Nat /\ HeapTyped /\ TermsInv
      /\ cand \in (Meet \ Skipped) \ Range(out)
  BY <1>1, InnerFacts
<1>4. PoolInv' /\ ScoresMatch' /\ Filled' = Filled
  BY <1>1, SamePool DEF BInv
<1>5. \A e \in SuffixBlocks(rng) : cand \notin Docs(e)
  <2> SUFFICES ASSUME NEW e \in SuffixBlocks(rng), cand \in Docs(e)
               PROVE  FALSE
    OBVIOUS
  <2>1. e \in DOMAIN heap /\ heap[e] <= cand
    BY <1>3 DEF TermsInv, Ahead
  <2>2. CASE heap = <<>>
    BY <2>1, <2>2
  <2>3. CASE heap # <<>>
    <3>1. PICK f \in Top : heap[f] > cand
      BY <1>1, <2>3
    <3>2. heap[f] <= heap[e] /\ f \in DOMAIN heap
      BY <2>1 DEF Top
    <3>3. heap[e] \in Nat /\ heap[f] \in Nat
      BY <1>3, <2>1, <3>2, SuffixLists, Universe DEF HeapTyped, BInv
    <3> QED  BY <1>3, <2>1, <3>1, <3>2, <3>3
  <2> QED  BY <2>2, <2>3
<1>6. TermsInv' /\ HeapTyped' /\ pc' = "next"
  BY <1>1, <1>4, <1>5, LeftBehind DEF Covered
<1>7. terms' # {}
  BY <1>6 DEF TermsInv, TermSets
<1> QED  BY <1>1, <1>2, <1>3, <1>4, <1>6, <1>7 DEF BInv, FoundWhenCovered

(***************************************************************************)
(* A candidate a block is checked for: it comes after all that is recorded, *)
(* and it matches if it passes the check.                                  *)
(***************************************************************************)
LEMMA MetShows ==
    ASSUME BInv, inner, NEW e \in Top, heap[e] = cand
    PROVE  /\ e \in SuffixBlocks(rng) /\ cand \in Docs(e)
           /\ \A d \in Filled : d <= cand /\ d # cand
           /\ Checks(e, cand) => cand \in Target
<1>1. /\ HeapTyped /\ TermsInv /\ cand \in DocIds /\ cand \in Nat /\ cand \in Meet
      /\ Range(out) = {d \in Meet \ Skipped : d < cand} /\ Meet \subseteq DocIds
  BY InnerFacts
<1>2. e \in SuffixBlocks(rng) /\ cand \in Docs(e)
  BY <1>1 DEF Top, HeapTyped
<1>3. \A d \in Filled : d <= cand /\ d # cand
  <2>1. \A d \in Filled : d \in Nat /\ d < cand
    BY <1>1, Universe DEF TermsInv
  <2> QED  BY <1>1, <2>1
<1>4. Checks(e, cand) => cand \in Target
  <2>1. \A t \in TermIds : Contains(rng, t) => t \in rng.begin .. rng.end
    BY NumTermsAssumption DEF BInv, TermRanges, TermIds, Contains
  <2>2. corpus[cand] \subseteq TermIds
    BY <1>1 DEF BInv, MInv, Corpora
  <2>3. terms \subseteq corpus[cand]
    BY <1>1 DEF TermsInv, Meet
  <2> QED  BY <1>1, <2>1, <2>2, <2>3 DEF Checks, Target, Matches
<1> QED  BY <1>2, <1>3, <1>4

LEMMA MetKeeps ==
    ASSUME BInv, Met
    PROVE  BInv'
<1>1. PICK e \in Top : heap[e] = cand /\ Noted(e, cand)
  BY DEF Met
<1>2. /\ UNCHANGED <<corpus, ends, phase, terms, rng, heap>>
      /\ inner /\ ~inner' /\ Advance
  BY DEF Met, Advance
<1>3. MInv'
  BY BlockedRuns DEF BInv, BlockedRun
<1>4. phase = "search" /\ TermsInv
  BY <1>2, InnerFacts
<1>5. /\ e \in SuffixBlocks(rng) /\ cand \in Docs(e)
      /\ \A d \in Filled : d <= cand /\ d # cand
      /\ Checks(e, cand) => cand \in Target
  BY <1>1, <1>2, MetShows
<1>6. CASE Checks(e, cand)
  <2>1. results + 1 # k /\ Record(cand)
    BY <1>1, <1>6 DEF Noted
  <2>2. /\ scores' \in Scores /\ k' = k /\ results' = results + 1 /\ results' \in 0 .. k'
        /\ Filled' = Filled \cup {cand} /\ ScoresMatch'
    BY <1>2, <1>4, <1>5, <1>6, <2>1, RecordMatch DEF BInv
  <2>3. results' < k'
    BY <1>4, <2>1, <2>2, PoolNumbers DEF BInv, PoolInv
  <2>4. TermsInv' /\ HeapTyped' /\ pc' = "next"
    BY <1>2, <2>2, LeftBehind
  <2>5. terms' # {}
    BY <2>4 DEF TermsInv, TermSets
  <2> QED  BY <1>2, <1>3, <1>4, <2>2, <2>3, <2>4, <2>5 DEF BInv, PoolInv, FoundWhenCovered
<1>7. CASE ~Checks(e, cand)
  <2>1. UNCHANGED <<scores, k, results>>
    BY <1>1, <1>7 DEF Noted
  <2>2. PoolInv' /\ ScoresMatch' /\ Filled' = Filled
    BY <1>2, <2>1, SamePool DEF BInv
  <2>3. TermsInv' /\ HeapTyped' /\ pc' = "next"
    BY <1>2, <1>5, <1>7, <2>2, LeftBehind DEF Covered
  <2>4. terms' # {}
    BY <2>3 DEF TermsInv, TermSets
  <2> QED  BY <1>2, <1>3, <1>4, <2>2, <2>3, <2>4 DEF BInv, FoundWhenCovered
<1> QED  BY <1>6, <1>7

LEMMA MetLastKeeps ==
    ASSUME BInv, MetLast
    PROVE  BInv'
<1>1. PICK e \in Top : heap[e] = cand /\ NotedLast(e, cand)
  BY DEF MetLast
<1>2. /\ UNCHANGED <<corpus, ends, terms, rng>> /\ phase' = "extract"
      /\ inner /\ ~inner' /\ pc' = "none"
  BY DEF MetLast, Drop
<1>3. MInv'
  BY BlockedRuns DEF BInv, BlockedRun
<1>4. phase = "search"
  BY <1>2, InnerFacts
<1>5. cand \in Target /\ \A d \in Filled : d <= cand /\ d # cand
  BY <1>1, <1>2, MetShows DEF NotedLast
<1>6. /\ scores' \in Scores /\ k' = k /\ results' = results + 1 /\ results' \in 0 .. k' /\ ScoresMatch'
  BY <1>1, <1>2, <1>4, <1>5, RecordMatch DEF BInv, NotedLast
<1>7. ~(results' < k')
  BY <1>1, <1>6, PoolNumbers DEF BInv, NotedLast
<1> QED  BY <1>2, <1>3, <1>6, <1>7 DEF BInv, PoolInv, FoundWhenCovered

(***************************************************************************)
(* The outer loop is left: the iterator is exhausted, or no cursor is left *)
(* for what it would still yield.                                          *)
(***************************************************************************)
LEMMA LeaveOuterKeeps ==
    ASSUME BInv, LeaveOuter
    PROVE  BInv'
<1>1. /\ UNCHANGED <<corpus, ends, terms, rng, scores, k, results, inner>>
      /\ pc = "at" /\ phase = "search" /\ phase' = "extract" /\ ~inner /\ pc' = "none"
      /\ ~HasNext(cand) \/ heap = <<>>
  BY DEF LeaveOuter, AtCandidate, Drop, EmptyHeap
<1>2. MInv'
  BY BlockedRuns DEF BInv, BlockedRun
<1>3. TermsInv /\ IterInv
  BY <1>1 DEF BInv, MInv
<1>4. Filled' = Filled
  BY <1>1 DEF Filled
<1>5. ScoresMatch' /\ PoolInv'
  BY <1>1, <1>4, SameQuery DEF BInv, ScoresMatch, PoolInv
<1>6. ASSUME NEW d \in Target \ (Filled \cup FirstOfBlock)
      PROVE  Covered(d)
  <2>1. d \in Meet \ Skipped
    BY <1>3 DEF Target, Matches, Meet, TermsInv
  <2>2. CASE d \in Range(out)
    BY <1>3, <2>2 DEF TermsInv
  <2>3. CASE d \notin Range(out)
    <3>1. heap = <<>>
      BY <1>1, <1>3, <2>1, <2>3, AtFacts
    <3>2. \A e \in SuffixBlocks(rng) : d \notin Docs(e)
      BY <1>3, <2>1, <2>3, <3>1 DEF TermsInv, Ahead
    <3> QED  BY <3>2 DEF Covered
  <2> QED  BY <2>2, <2>3
<1>7. FoundWhenCovered'
  BY <1>1, <1>4, <1>6, SameQuery DEF FoundWhenCovered, Covered
<1> QED  BY <1>1, <1>2, <1>5, <1>7 DEF BInv

(***************************************************************************)
(* The strings are decoded.                                                *)
(***************************************************************************)
LEMMA ExtractKeeps ==
    ASSUME BInv, ExtractStrings
    PROVE  BInv'
<1>1. /\ UNCHANGED <<corpus, ends, pc, scores, inner>> /\ phase = "extract" /\ phase' = "idle"
      /\ k' = 1 /\ results' = 0 /\ rng' = AnyRange
  BY DEF ExtractStrings, EndQuery, blockVars, meetVars
<1>2. MInv'
  BY BlockedRuns DEF BInv, BlockedRun
<1>3. pc = "none"
  BY <1>1 DEF BInv
<1>4. Filled' = {} /\ \A i \in 0 .. results' - 1 : FALSE
  BY <1>1 DEF Filled
<1>5. PoolInv'
  <2>1. 1 \in 1 .. MaxK /\ 0 \in 0 .. 1
    BY MaxKAssumption
  <2> QED  BY <1>1, <2>1 DEF BInv, PoolInv
<1>6. rng' \in TermRanges
  BY <1>1, NumTermsAssumption DEF AnyRange, TermRanges, TermIds
<1> QED  BY <1>1, <1>2, <1>3, <1>4, <1>5, <1>6 DEF BInv, ScoresMatch, FoundWhenCovered

LEMMA BlockedStutterKeeps ==
    ASSUME BInv, UNCHANGED blockedVars
    PROVE  BInv'
<1>1. /\ UNCHANGED <<corpus, ends, pc, blocks, cand, out, phase, scores, k, results>>
      /\ UNCHANGED <<terms, rng, heap, inner>>
  BY DEF blockedVars, blockVars, meetVars, poolVars
<1>2. MInv'
  BY BlockedMeets DEF BInv
<1>3. PoolInv' /\ ScoresMatch' /\ Filled' = Filled
  BY <1>1, SamePool DEF BInv
<1>4. (TermsInv => TermsInv') /\ (HeapTyped => HeapTyped') /\ \A e, d : Ahead(e, d) => Ahead(e, d)'
  BY <1>1, <1>3, SameTerms, SameHeap
<1>5. MergeInv => MergeInv'
  BY <1>1, <1>3, <1>4, SameQuery DEF MergeInv
<1>6. FoundWhenCovered'
  BY <1>1, <1>3, SameQuery DEF BInv, FoundWhenCovered
<1> QED  BY <1>1, <1>2, <1>3, <1>4, <1>5, <1>6 DEF BInv

-----------------------------------------------------------------------------
LEMMA BlockedInitHolds == BlockedInit => BInv
<1> SUFFICES ASSUME BlockedInit PROVE BInv
  OBVIOUS
<1>1. MInv /\ pc = "none" /\ phase = "idle" /\ ~inner
  BY MeetInitHolds DEF BlockedInit, MeetInit, PoolInit
<1>2. PoolInv
  <2>1. 1 \in 1 .. MaxK /\ 0 \in 0 .. 1
    BY MaxKAssumption
  <2>2. 0 \in DocIds
    BY NumDocsAssumption DEF DocIds
  <2> QED  BY <2>1, <2>2 DEF BlockedInit, PoolInit, PoolInv, Scores
<1>3. ScoresMatch
  <2>1. Filled = {} /\ \A i \in 0 .. results - 1 : FALSE
    BY DEF BlockedInit, PoolInit, Filled
  <2> QED  BY <2>1 DEF ScoresMatch
<1>4. rng \in TermRanges
  BY NumTermsAssumption DEF BlockedInit, AnyRange, TermRanges, TermIds
<1> QED  BY <1>1, <1>2, <1>3, <1>4 DEF BInv, FoundWhenCovered

LEMMA BlockedStepPreserves == BInv /\ [BlockedNext]_blockedVars => BInv'
<1> SUFFICES ASSUME BInv, [BlockedNext]_blockedVars PROVE BInv'
  OBVIOUS
<1>1. CASE SuffixQuery \/ TermsQuery
  BY <1>1, SuffixQueryKeeps, TermsQueryKeeps
<1>2. CASE Merge \/ MergeLast \/ Merged
  BY <1>2, MergeKeeps, MergeLastKeeps, MergedKeeps
<1>3. CASE Iterate \/ EnterInner \/ LeaveOuter
  BY <1>3, IterateKeeps, EnterInnerKeeps, LeaveOuterKeeps
<1>4. CASE Seek \/ Miss \/ Met \/ MetLast
  BY <1>4, SeekKeeps, MissKeeps, MetKeeps, MetLastKeeps
<1>5. CASE ExtractStrings \/ UNCHANGED blockedVars
  BY <1>5, ExtractKeeps, BlockedStutterKeeps
<1> QED  BY <1>1, <1>2, <1>3, <1>4, <1>5 DEF BlockedNext, BlockedRun

LEMMA BlockedInductive == BlockedSpec => []BInv
BY BlockedInitHolds, BlockedStepPreserves, PTL DEF BlockedSpec, BlockedNext

(***************************************************************************)
(* The iterator a search uses is the iterator: what it yields is exact in  *)
(* every query.                                                            *)
(***************************************************************************)
THEOREM BlockedReports == BlockedSpec => []ReportsExactly
<1>1. BInv => ReportsExactly
  BY AtReports DEF BInv
<1> QED  BY <1>1, BlockedInductive, PTL

(***************************************************************************)
(* What index type 4 records matches the query, in ascending order, and    *)
(* twice only without known terms.                                         *)
(***************************************************************************)
THEOREM BlockedSound == BlockedSpec => []ScoresMatch
<1>1. BInv => ScoresMatch
  BY DEF BInv
<1> QED  BY <1>1, BlockedInductive, PTL

(***************************************************************************)
(* A query that ends with fewer than k results has left out only what no   *)
(* collected block has, a block that has it refused, or the iterator       *)
(* skipped.                                                                *)
(***************************************************************************)
THEOREM BlockedComplete == BlockedSpec => []FoundWhenCovered
<1>1. BInv => FoundWhenCovered
  BY DEF BInv
<1> QED  BY <1>1, BlockedInductive, PTL

=============================================================================

--------------------------- MODULE PostingsProofs ---------------------------
(***************************************************************************)
(* Facts about the operations of a cursor, for every universe and list.    *)
(***************************************************************************)
EXTENDS Postings, Sequences, WellFoundedInduction, SequenceTheorems, TLAPS

(***************************************************************************)
(* A non-empty set of natural numbers has a least member.                  *)
(***************************************************************************)
LEMMA LeastExists ==
    ASSUME NEW S \in SUBSET Nat, S # {}
    PROVE  /\ Least(S) \in S
           /\ \A y \in S : Least(S) <= y
<1> DEFINE R == {ss \in Nat \X Nat : ss[1] < ss[2]}
<1>1. IsWellFoundedOn(R, Nat)
  BY NatLessThanWellFounded, Zenon DEF OpToRel
<1>2. \E x \in S : \A y \in S : <<y, x>> \notin R
  <2> HIDE DEF R
  <2> QED  BY <1>1, WFMin, Zenon
<1>3. PICK x \in S : \A y \in S : <<y, x>> \notin R
  BY <1>2, Zenon
<1>4. ASSUME NEW y \in S  PROVE x <= y
  <2>1. <<y, x>> \notin R
    BY <1>3, Zenon
  <2> QED  BY <2>1
<1>5. \E z \in S : \A y \in S : z <= y
  BY <1>4
<1> QED  BY <1>5, Zenon DEF Least

(***************************************************************************)
(* Identifiers are numbers below the universe, which the sentinel is.      *)
(***************************************************************************)
LEMMA Universe ==
    /\ NumDocs \in Nat
    /\ \A d \in DocIds : d \in Nat /\ d < NumDocs /\ d \in CursorValues
    /\ \A v \in CursorValues : v \in Nat /\ v <= NumDocs
    /\ \A v \in CursorValues : v < NumDocs => v \in DocIds
BY NumDocsAssumption DEF DocIds, CursorValues

(***************************************************************************)
(* NextGeq returns the sentinel or a member of the list, never less than   *)
(* asked for, and no member lies between the bound and the answer.         *)
(***************************************************************************)
LEMMA NextGeqFacts ==
    ASSUME NEW list \in SUBSET DocIds, NEW lower \in CursorValues
    PROVE  /\ NextGeq(list, lower) \in CursorValues
           /\ NextGeq(list, lower) \in list \cup {NumDocs}
           /\ NextGeq(list, lower) >= lower
           /\ \A d \in list : d >= lower => NextGeq(list, lower) <= d
<1> DEFINE S == {d \in list : d >= lower}
<1>1. \A d \in list : d \in Nat /\ d < NumDocs
  BY Universe
<1>2. lower \in Nat /\ lower <= NumDocs
  BY NumDocsAssumption DEF CursorValues
<1>3. CASE S = {}
  <2>1. NextGeq(list, lower) = NumDocs
    BY <1>3 DEF NextGeq
  <2>2. NumDocs \in CursorValues
    BY NumDocsAssumption DEF CursorValues
  <2> QED  BY <1>2, <1>3, <2>1, <2>2
<1>4. CASE S # {}
  <2>1. NextGeq(list, lower) = Least(S)
    BY <1>4 DEF NextGeq
  <2>2. S \in SUBSET Nat
    BY <1>1
  <2>3. Least(S) \in S /\ \A y \in S : Least(S) <= y
    <3> HIDE DEF S
    <3> QED  BY <2>2, <1>4, LeastExists
  <2>4. Least(S) \in list /\ Least(S) >= lower
    BY <2>3
  <2>5. Least(S) \in CursorValues
    BY <2>4, <1>1, NumDocsAssumption DEF CursorValues
  <2> HIDE DEF S
  <2>6. \A d \in list : d >= lower => Least(S) <= d
    BY <2>3 DEF S
  <2> QED  BY <2>1, <2>4, <2>5, <2>6
<1> QED  BY <1>3, <1>4

(***************************************************************************)
(* next() on a cursor that is not exhausted moves strictly forward, to the *)
(* nearest member or to the sentinel.                                      *)
(***************************************************************************)
LEMMA NextAfterFacts ==
    ASSUME NEW list \in SUBSET DocIds, NEW shown \in DocIds
    PROVE  /\ NextAfter(list, shown) \in CursorValues
           /\ NextAfter(list, shown) \in list \cup {NumDocs}
           /\ NextAfter(list, shown) > shown
           /\ \A d \in list : d > shown => NextAfter(list, shown) <= d
<1>1. shown + 1 \in CursorValues /\ shown \in Nat
  BY NumDocsAssumption DEF DocIds, CursorValues
<1>2. \A d \in list : d \in Nat
  BY Universe
<1>3. /\ NextAfter(list, shown) \in CursorValues
      /\ NextAfter(list, shown) \in list \cup {NumDocs}
      /\ NextAfter(list, shown) >= shown + 1
      /\ \A d \in list : d >= shown + 1 => NextAfter(list, shown) <= d
  BY <1>1, NextGeqFacts DEF NextAfter
<1>4. NextAfter(list, shown) \in Nat
  BY <1>3, Universe
<1> QED  BY <1>1, <1>2, <1>3, <1>4

(***************************************************************************)
(* access(0) shows the least member.                                       *)
(***************************************************************************)
LEMMA FirstFacts ==
    ASSUME NEW list \in PostingLists
    PROVE  /\ First(list) \in list
           /\ First(list) \in DocIds
           /\ \A d \in list : First(list) <= d
<1>1. list # {} /\ list \subseteq DocIds
  BY DEF PostingLists
<1>2. list \in SUBSET Nat
  BY <1>1, Universe
<1> QED  BY <1>1, <1>2, LeastExists DEF First

(***************************************************************************)
(* Appending to a sequence of identifiers.                                 *)
(***************************************************************************)
LEMMA AppendRange ==
    ASSUME NEW S, NEW seq \in Seq(S), NEW e \in S
    PROVE  Range(Append(seq, e)) = Range(seq) \cup {e}
<1>1. /\ Append(seq, e) \in Seq(S)
      /\ Len(Append(seq, e)) = Len(seq) + 1
      /\ \A i \in 1 .. Len(seq) : Append(seq, e)[i] = seq[i]
      /\ Append(seq, e)[Len(seq) + 1] = e
  BY AppendProperties
<1>2. /\ Len(seq) \in Nat
      /\ DOMAIN seq = 1 .. Len(seq)
      /\ DOMAIN Append(seq, e) = 1 .. Len(seq) + 1
  BY <1>1, LenProperties
<1> QED  BY <1>1, <1>2 DEF Range

LEMMA AppendAscending ==
    ASSUME NEW seq \in Seq(DocIds), NEW e \in DocIds,
           Ascending(seq), \A d \in Range(seq) : d < e
    PROVE  Ascending(Append(seq, e))
<1>1. /\ Append(seq, e) \in Seq(DocIds)
      /\ Len(Append(seq, e)) = Len(seq) + 1
      /\ \A i \in 1 .. Len(seq) : Append(seq, e)[i] = seq[i]
      /\ Append(seq, e)[Len(seq) + 1] = e
  BY AppendProperties
<1>2. /\ Len(seq) \in Nat
      /\ DOMAIN seq = 1 .. Len(seq)
      /\ DOMAIN Append(seq, e) = 1 .. Len(seq) + 1
  BY <1>1, LenProperties
<1>3. \A i \in 1 .. Len(seq) : seq[i] < e
  BY <1>2 DEF Range
<1> QED  BY <1>1, <1>2, <1>3 DEF Ascending

=============================================================================

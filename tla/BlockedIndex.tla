---------------------------- MODULE BlockedIndex ----------------------------
(***************************************************************************)
(* blocked_inverted_index and its intersection_iterator_type.              *)
(*                                                                         *)
(* Consecutive terms share a block, which has one list: the completions    *)
(* that hold any term of the block, each with the terms of the block it    *)
(* holds.  An intersection takes one cursor for every block a term of the  *)
(* query is in; a completion is in it if each block has all the query's    *)
(* terms of that block for it.  A query whose terms share one block has a  *)
(* loop of its own.  One round of a loop of next() is one step.            *)
(*                                                                         *)
(* A block is known by its last term, its boundary in m_blocks.            *)
(***************************************************************************)
EXTENDS Corpus, Sequences

CONSTANT MaxTerms  \* bound: distinct terms of a query that are intersected

ASSUME MaxTermsAssumption == MaxTerms \in Nat \ {0}

VARIABLES
    corpus,  \* the indexed collection; it never changes
    ends,    \* m_blocks; it never changes
    pc,      \* "none": no iterator; "next": inside next(); "at": with the owner
    blocks,  \* m_blocks of the iterator: [docs, terms] of each block
    cur,     \* the value each of their docs_iterator shows
    cand,    \* m_candidate, which may pass the universe by one
    mi,      \* m_i, counted from 0 as in the code
    out      \* history: the completions the owner has read and left behind

meetVars == <<pc, blocks, cur, cand, mi, out>>
blockVars == <<corpus, ends, meetVars>>

\* The terms of the block that ends with e.
TermsOf(es, e) == {t \in TermIds : t <= e /\ \A x \in es : x < e => x < t}

NumPostings(c, terms) == Cardinality({p \in terms \X DocIds : p[1] \in c[p[2]]})

\* The blocks of the builder: a block is closed as soon as it has m postings,
\* where m is a fraction of the number of completions.
IsBlocking(c, es, m) ==
    /\ NumTerms \in es
    /\ \A e \in es :
        /\ e # NumTerms => NumPostings(c, TermsOf(es, e)) >= m
        /\ \A t \in TermsOf(es, e) :
               t < e => NumPostings(c, {x \in TermsOf(es, e) : x <= t}) < m

Blockings(c) ==
    {es \in SUBSET TermIds : \E m \in 0 .. NumDocs : IsBlocking(c, es, m)}

\* block_id, by its upper_bound on m_blocks.
BlockOf(term) == Least({e \in ends : e >= term})

\* The list of a block, the union of the lists of its terms.
Docs(e) == {d \in DocIds : corpus[d] \cap TermsOf(ends, e) # {}}

MeetTypeOK ==
    /\ corpus \in Corpora
    /\ ends \in Blockings(corpus)
    /\ pc \in {"none", "next", "at"}
    /\ blocks \in Seq([docs : PostingLists, terms : SUBSET TermIds])
    /\ cur \in [DOMAIN blocks -> CursorValues]
    /\ cand \in 0 .. NumDocs + 1
    /\ mi \in 0 .. Len(blocks)
    /\ out \in Seq(DocIds)

MeetInit ==
    /\ corpus \in Corpora
    /\ ends \in Blockings(corpus)
    /\ pc = "none"
    /\ blocks = <<>>
    /\ cur = <<>>
    /\ cand = 0
    /\ mi = 0
    /\ out = <<>>

\* The blocks of a set of terms, sorted by size(); equal sizes in any order.
BlockOrders(terms) ==
    LET ids == {BlockOf(t) : t \in terms}
        Block(e) == [docs |-> Docs(e), terms |-> terms \cap TermsOf(ends, e)]
    IN  {bs \in [1 .. Cardinality(ids) -> {Block(e) : e \in ids}] :
            /\ \A i, j \in DOMAIN bs : i # j => bs[i].terms # bs[j].terms
            /\ \A i, j \in DOMAIN bs :
                   i < j => Cardinality(bs[i].docs) <= Cardinality(bs[j].docs)}

\* The constructor, up to its call of next().
MeetOn(terms) ==
    /\ pc = "none"
    /\ blocks' \in BlockOrders(terms)
    /\ cur' = [i \in DOMAIN blocks' |-> First(blocks'[i].docs)]
    /\ cand' = First(blocks'[1].docs)
    /\ mi' = 0
    /\ out' = <<>>
    /\ pc' = "next"
    /\ UNCHANGED <<corpus, ends>>

TermSets == {s \in SUBSET TermIds : s # {} /\ Cardinality(s) <= MaxTerms}

Construct == \E terms \in TermSets : MeetOn(terms)

\* in(): the block's cursor is live and its completion has the block's terms.
HasTerms(i, shown) == HasNext(shown) /\ blocks[i].terms \subseteq corpus[shown]

Looping == pc = "next" /\ cand < NumDocs /\ mi # Len(blocks)

\* A round of the loop for a single block: it moves the cursor first.
AloneRound ==
    /\ Looping
    /\ Len(blocks) = 1
    /\ LET shown == NextAfter(blocks[1].docs, cur[1])
       IN  /\ cur' = <<shown>>
           /\ cand' = shown
           /\ mi' = IF HasTerms(1, shown) THEN 1 ELSE 0
    /\ UNCHANGED <<corpus, ends, pc, blocks, out>>

\* next_geq_by_scan, which goes on from where the cursor is.
Scanned == NextGeq({d \in blocks[mi + 1].docs : d >= cur[mi + 1]}, cand)

\* The block has the candidate, with all of its terms.
Agree ==
    /\ Looping
    /\ Len(blocks) > 1
    /\ Scanned = cand
    /\ HasTerms(mi + 1, Scanned)
    /\ cur' = [cur EXCEPT ![mi + 1] = Scanned]
    /\ mi' = mi + 1
    /\ UNCHANGED <<corpus, ends, pc, blocks, cand, out>>

\* Regressions the checks must catch (never used by a specification): a value
\* without the terms is passed over by two; it is proposed again.
PassedByTwo == IF HasTerms(mi + 1, Scanned) THEN Scanned ELSE Scanned + 2
ProposedAgain == Scanned

\* The next candidate: the value, or the one after if that lacks a term.
Proposed == IF HasTerms(mi + 1, Scanned) THEN Scanned ELSE Scanned + 1

Disagree ==
    /\ Looping
    /\ Len(blocks) > 1
    /\ Scanned # cand \/ ~HasTerms(mi + 1, Scanned)
    /\ cur' = [cur EXCEPT ![mi + 1] = Scanned]
    /\ cand' = Proposed
    /\ mi' = 0
    /\ UNCHANGED <<corpus, ends, pc, blocks, out>>

Return ==
    /\ pc = "next"
    /\ ~Looping
    /\ pc' = "at"
    /\ UNCHANGED <<corpus, ends, blocks, cur, cand, mi, out>>

\* operator*, then operator++ up to its call of next().
Advance ==
    /\ pc = "at"
    /\ HasNext(cand)
    /\ out' = Append(out, cand)
    /\ IF Len(blocks) > 1
       THEN LET shown == NextAfter(blocks[1].docs, cur[1])
            IN  cur' = [cur EXCEPT ![1] = shown] /\ cand' = shown
       ELSE UNCHANGED <<cur, cand>>
    /\ mi' = 0
    /\ pc' = "next"
    /\ UNCHANGED <<corpus, ends, blocks>>

\* The iterator is destroyed.
Drop ==
    /\ pc = "at"
    /\ pc' = "none"
    /\ blocks' = <<>>
    /\ cur' = <<>>
    /\ cand' = 0
    /\ mi' = 0
    /\ out' = <<>>
    /\ UNCHANGED <<corpus, ends>>

Round == AloneRound \/ Agree \/ Disagree \/ Return

MeetSpec == MeetInit /\ [][Construct \/ Round \/ Advance \/ Drop]_blockVars

-----------------------------------------------------------------------------

QueryTerms == UNION {blocks[i].terms : i \in DOMAIN blocks}

\* The completions with every term of the query.
Meet == {d \in DocIds : QueryTerms \subseteq corpus[d]}

\* What the owner has read or can read now.
Reported == Range(out) \cup ({cand} \cap DocIds)

\* The first completion of the block is never reported when all terms are in
\* one block: the loop moves its cursor before it looks.
Skipped == IF Len(blocks) = 1 THEN {First(blocks[1].docs)} ELSE {}

\* Apart from that the intersection of blocks is the one of the terms' lists:
\* a cursor that stands for many terms neither lets a completion through that
\* has another term of the block, nor skips one.
ReportsExactly ==
    pc = "at" => /\ Reported = {d \in Meet : d <= cand} \ Skipped
                 /\ Ascending(out)

\* test_blocked_inverted_index.cpp asks for the completions that the iterator
\* of the plain inverted index yields, for queries of two terms and more.
MatchesPlainIntersection ==
    pc = "at" /\ Cardinality(QueryTerms) > 1 =>
        Reported = {d \in Meet : d <= cand}

=============================================================================

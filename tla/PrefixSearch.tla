---------------------------- MODULE PrefixSearch ----------------------------
(***************************************************************************)
(* From the words of a query to the strings of its answer, as prefix_topk  *)
(* and conjunctive_topk lead there: parse, fc_dictionary::locate_prefix,   *)
(* for a prefix query the locate_prefix of the trie (index type 1) or of   *)
(* the integer_fc_dictionary (types 2 to 4), and the strings that          *)
(* extract_strings makes of the k best completions.                        *)
(*                                                                         *)
(* The k best of a range are what module UnsortedList finds, and those a   *)
(* conjunctive query matches what ForwardTopk, LexiconIndex and            *)
(* SuffixHeapTopk do: the steps SelectRange and SelectMatches stand for    *)
(* the promises that are checked and proved there.  (Type 4 finds less:    *)
(* module BlockedTopk.)                                                    *)
(***************************************************************************)
EXTENDS FcDictionary, CompletionTrie

Seqs == INSTANCE SequencesExt

CONSTANTS
    Collections,  \* their sorted terms, their sorted completions with identifiers
    Words,        \* the words asked for
    MaxTokens,    \* bounds the words before the last
    MaxK          \* constants::MAX_K

\* What extract_dict.py and map_dataset.py produce: the terms are those of the
\* completions, in order, and completions name them by their positions.
WellFormed(c) ==
    /\ c.terms \in Seq(Seq(Nat)) /\ c.completions \in Seq(Seq(Nat))
    /\ Len(c.completions) > 0 /\ <<>> \notin Range(c.completions)
    /\ Sorted(c.terms) /\ Sorted(c.completions)
    /\ UNION {Range(c.completions[i]) : i \in DOMAIN c.completions} = DOMAIN c.terms
    /\ Len(c.terms) < InvalidTerm
    /\ DOMAIN c.docids = DOMAIN c.completions
    /\ Range(c.docids) = 0 .. Len(c.completions) - 1

ASSUME CollectionsAssumption == \A c \in Collections : WellFormed(c)
ASSUME WordsAssumption == Words \subseteq Seq(Nat) \ {<<>>}
ASSUME BoundsAssumption == MaxTokens \in Nat /\ MaxK \in Nat \ {0}

\* The structures of an index.
Index(c) ==
    [dict |-> FrontCoded(c.terms), lists |-> FrontCoded(c.completions),
     trie |-> Trie(c.completions)]
Indexes == [c \in Collections |-> Index(c)]

VARIABLES
    collection,  \* what the index was built from
    phase,       \* "idle", "parse", "suffix", "terms", "completions", "found", "answered"
    query,       \* the index, the kind of search, the words before the last, the last
    prefix,      \* the terms of the words before the last
    lexRange,    \* suffix_lex_range, counted from 1, both ends included
    range,       \* r, the end not included
    k,           \* how many completions are wanted, 1 until they are selected
    scores,      \* topk_scores, as many as were found
    answer       \* the strings returned

searchVars ==
    <<collection, phase, query, prefix, lexRange, range, k, scores, answer>>

\* Where the completions are: index type 1 has a trie, and their terms in the
\* forward index; types 2 to 4 have a dictionary of lists of terms.
Kinds == {"trie", "lists"}

\* prefix_topk and conjunctive_topk.
Searches == {"prefix", "conjunctive"}

NoQuery == [kind |-> "trie", search |-> "prefix", tokens |-> <<>>, suffix |-> <<>>]

Init ==
    /\ collection \in Collections /\ phase = "idle"
    /\ query = NoQuery /\ prefix = <<>>
    /\ lexRange = InvalidRange /\ range = InvalidRange
    /\ k = 1 /\ scores = <<>> /\ answer = <<>>

index == Indexes[collection]

Call ==
    /\ phase = "idle"
    /\ phase' = "parse"
    /\ \E kind \in Kinds, search \in Searches,
          tokens \in Seqs!SeqOf(Words, MaxTokens), suffix \in Words \cup {<<>>} :
          query' = [kind |-> kind, search |-> search, tokens |-> tokens, suffix |-> suffix]
    /\ UNCHANGED <<collection, prefix, lexRange, range, k, scores, answer>>

TermIds(words) == [i \in DOMAIN words |-> Locate(index.dict, words[i])]

Known(id) == id # InvalidTerm

\* parse() with must_find_prefix, which prefix_topk asks for, fails.
ParseFails ==
    /\ phase = "parse"
    /\ query.search = "prefix"
    /\ ~\A i \in DOMAIN query.tokens : Known(TermIds(query.tokens)[i])
    /\ phase' = "answered"
    /\ UNCHANGED <<collection, query, prefix, lexRange, range, k, scores, answer>>

\* parse(): unknown words of a conjunctive query are left out.
Parse ==
    /\ phase = "parse"
    /\ query.search = "conjunctive" \/ \A i \in DOMAIN query.tokens : Known(TermIds(query.tokens)[i])
    /\ LET ids == TermIds(query.tokens)
       IN  prefix' = Kept(ids, {i \in DOMAIN ids : Known(ids[i])})
    /\ phase' = "suffix"
    /\ UNCHANGED <<collection, query, lexRange, range, k, scores, answer>>

\* m_dictionary.locate_prefix(suffix), and the ends counted from 1.
LocateSuffix ==
    /\ phase = "suffix"
    /\ LET r == LocateTerms(index.dict, Len(collection.terms), query.suffix)
       IN  lexRange' = IF IsInvalid(r) THEN r ELSE [begin |-> r.begin + 1, end |-> r.end + 1]
    /\ phase' = "terms"
    /\ UNCHANGED <<collection, query, prefix, range, k, scores, answer>>

NoTerms ==
    /\ phase = "terms"
    /\ IsInvalid(lexRange)
    /\ phase' = "answered"
    /\ UNCHANGED <<collection, query, prefix, lexRange, range, k, scores, answer>>

\* m_completions.locate_prefix(prefix, suffix_lex_range)
LocateCompletions ==
    /\ phase = "terms"
    /\ ~IsInvalid(lexRange)
    /\ query.search = "prefix"
    /\ range' = IF query.kind = "trie" THEN LocatePrefix(index.trie, prefix, lexRange)
                ELSE LocateLists(index.lists, prefix, lexRange)
    /\ phase' = "completions"
    /\ UNCHANGED <<collection, query, prefix, lexRange, k, scores, answer>>

NoCompletions ==
    /\ phase = "completions"
    /\ IsInvalid(range)
    /\ phase' = "answered"
    /\ UNCHANGED <<collection, query, prefix, lexRange, range, k, scores, answer>>

\* Where a completion is in their order, counted from 1.
Place(doc) == CHOOSE i \in DOMAIN collection.docids : collection.docids[i] = doc

\* The least k' identifiers of completions at some places, in order.
Select(places) ==
    LET docs == {collection.docids[i] : i \in places}
    IN  scores' = [r \in 1 .. Min({k', Cardinality(docs)}) |->
                      CHOOSE doc \in docs : Cardinality({d \in docs : d <= doc}) = r]

\* m_unsorted_docs_list.topk(r, k, m_pool.scores())
SelectRange ==
    /\ phase = "completions"
    /\ ~IsInvalid(range)
    /\ k' \in 1 .. MaxK
    /\ Select(range.begin + 1 .. range.end)
    /\ phase' = "found"
    /\ UNCHANGED <<collection, query, prefix, lexRange, range, answer>>

LostCompletions == Lost(Len(collection.completions))

\* What decoding a completion that was never read yields is not followed here.
Decodable == query.kind = "trie" \/ LostCompletions = {}

\* Regression the checks must catch (never used by the specification): the
\* term of the range follows the other terms.
EndsIn(completion) ==
    /\ Range(prefix) \subseteq Range(completion)
    /\ completion[Len(completion)] \in lexRange.begin .. lexRange.end

\* It holds the terms, in any order, and a term of the range.
Holds(completion) ==
    /\ Range(prefix) \subseteq Range(completion)
    /\ Range(completion) \cap (lexRange.begin .. lexRange.end) # {}

\* What conjunctive search finds, with known terms and without.
SelectMatches ==
    /\ phase = "terms"
    /\ ~IsInvalid(lexRange)
    /\ query.search = "conjunctive"
    /\ Decodable
    /\ k' \in 1 .. MaxK
    /\ Select({i \in DOMAIN collection.completions : Holds(collection.completions[i])})
    /\ phase' = "found"
    /\ UNCHANGED <<collection, query, prefix, lexRange, range, answer>>

\* Regression the checks must catch (never used by the specification):
\* identifiers are taken for positions in the dictionary.
TermsByScore(doc) ==
    IF query.kind = "trie" THEN collection.completions[Place(doc)]
    ELSE Extract(index.lists, doc)

\* The terms of a completion: type 1 has them in its forward index, the other
\* types decode them, at m_docid_to_lexid[doc].
TermsOf(doc) ==
    IF query.kind = "trie" THEN collection.completions[Place(doc)]
    ELSE Extract(index.lists, Place(doc) - 1)

\* extract_strings()
ExtractStrings ==
    /\ phase = "found"
    /\ answer' = [i \in DOMAIN scores |->
                     [j \in DOMAIN TermsOf(scores[i]) |->
                         Extract(index.dict, TermsOf(scores[i])[j] - 1)]]
    /\ phase' = "answered"
    /\ UNCHANGED <<collection, query, prefix, lexRange, range, k, scores>>

\* The caller is done with the answer.
Return ==
    /\ \/ phase = "answered"
       \/ phase = "terms" /\ query.search = "conjunctive" /\ ~IsInvalid(lexRange) /\ ~Decodable
    /\ phase' = "idle"
    /\ query' = NoQuery /\ prefix' = <<>>
    /\ lexRange' = InvalidRange /\ range' = InvalidRange
    /\ k' = 1 /\ scores' = <<>> /\ answer' = <<>>
    /\ UNCHANGED collection

Next ==
    \/ Call \/ ParseFails \/ Parse
    \/ LocateSuffix \/ NoTerms
    \/ LocateCompletions \/ NoCompletions \/ SelectRange
    \/ SelectMatches
    \/ ExtractStrings \/ Return

Spec == Init /\ [][Next]_searchVars

-----------------------------------------------------------------------------

LostTerms == Lost(Len(collection.terms))

\* The completions of a collection as the words they consist of, ...
Wording(completion) == [j \in DOMAIN completion |-> collection.terms[completion[j]]]

\* ... and as they are decoded: a lost term is an empty word.
Decoding(completion) ==
    [j \in DOMAIN completion |->
        IF completion[j] \in LostTerms THEN <<>> ELSE collection.terms[completion[j]]]

\* The completion begins with the query, whose last word may be unfinished.
BeginsWithQuery(completion) ==
    LET n == Len(query.tokens)
    IN  /\ Len(completion) > n
        /\ Seqs!IsPrefix(query.tokens, Wording(completion))
        /\ Seqs!IsPrefix(query.suffix, Wording(completion)[n + 1])

\* Both dictionaries pass over their first string, unless it is the very
\* string searched: the scan of the first bucket begins after the header.
PassedOver(strings, sought) == IF strings[1] = sought THEN {} ELSE {1}

\* What a search does not find; for an empty word nothing is searched, and the
\* trie has every completion.
TermsMissing ==
    IF query.suffix = <<>> THEN {}
    ELSE LostTerms \cup PassedOver(collection.terms, query.suffix)

CompletionsMissing ==
    IF query.kind = "trie" THEN {}
    ELSE LostCompletions
             \cup PassedOver(collection.completions, Append(prefix, lexRange.begin))

\* The words of a query are found in whatever bucket of the dictionary they
\* are, by a search over the headers and a scan of one bucket, and no others
\* are; but for the terms a full last bucket has lost (KeepsTerms), which are
\* unknown words.
WordsFound ==
    phase = "suffix" =>
        Wording(prefix) =
            Kept(query.tokens,
                 {i \in DOMAIN query.tokens :
                     \E t \in DOMAIN collection.terms \ LostTerms :
                         collection.terms[t] = query.tokens[i]})

\* The range of terms for an unfinished word holds all terms that begin with
\* it and nothing else, but for the first term of the dictionary and those it
\* has lost, however the terms fill its buckets.
TermRangeExact ==
    phase = "terms" =>
        lexRange.begin .. lexRange.end =
            {t \in DOMAIN collection.terms : Seqs!IsPrefix(query.suffix, collection.terms[t])}
                \ TermsMissing

\* The trie and the dictionary find the completions that begin with the terms
\* and go on with one of the range, but for the first and the lost ones of the
\* dictionary.
CompletionRangeExact ==
    phase = "completions" =>
        range.begin .. range.end - 1 =
            {i - 1 : i \in {i \in DOMAIN collection.completions :
                               /\ Len(collection.completions[i]) > Len(prefix)
                               /\ Seqs!IsPrefix(prefix, collection.completions[i])
                               /\ collection.completions[i][Len(prefix) + 1]
                                      \in lexRange.begin .. lexRange.end}
                           \ CompletionsMissing}

\* The strings are those of the k best of some completions, the best first.
AnsweredBy(completions) ==
    /\ Len(answer) = Min({k, Cardinality(completions)})
    /\ \A i \in completions :
          LET place == Cardinality({j \in completions : collection.docids[j] <= collection.docids[i]})
          IN  place <= k => answer[place] = Decoding(collection.completions[i])

\* What prefix_topk returns are the k best completions that begin with the
\* query, the best first, as they were put into the index, but for what a
\* dictionary passes over or has lost: a query with such a word finds nothing,
\* and a completion with a lost term shows nothing in its place.
AnswerExact ==
    phase = "answered" /\ query.search = "prefix" =>
        AnsweredBy(
            {i \in DOMAIN collection.completions :
                LET completion == collection.completions[i]
                    n == Len(query.tokens)
                IN  /\ BeginsWithQuery(completion)
                    /\ \A j \in 1 .. n : completion[j] \notin LostTerms
                    /\ completion[n + 1] \notin TermsMissing}
            \ CompletionsMissing)

\* What conjunctive_topk returns are the k best completions that hold every
\* word of the query that the dictionary has, in any order, and one that its
\* last word begins, the best first: the completions a prefix query finds are
\* among them. The terms the dictionary passes over or has lost count for
\* neither, and a lost one shows nothing in its place.
ConjunctiveExact ==
    phase = "answered" /\ query.search = "conjunctive" =>
        AnsweredBy(
            {i \in DOMAIN collection.completions :
                LET terms == Range(collection.completions[i])
                IN  /\ \A w \in Range(query.tokens) :
                          \A t \in DOMAIN collection.terms \ LostTerms :
                              collection.terms[t] = w => t \in terms
                    /\ \E t \in terms \ TermsMissing :
                          Seqs!IsPrefix(query.suffix, collection.terms[t])})

\* What test_fc_dictionary.cpp checks of a dictionary that has been built: every
\* term is found (:45) and extracted (:50), and for all that begins a term the
\* range holds the terms that begin with it (:75). The code violates all three
\* for the terms that a full last bucket has lost.
KeepsTerms ==
    LET terms == collection.terms
        begun(p) == {t - 1 : t \in {t \in DOMAIN terms : Seqs!IsPrefix(p, terms[t])}}
    IN  \A t \in DOMAIN terms :
            /\ Locate(index.dict, terms[t]) = t
            /\ Extract(index.dict, t - 1) = terms[t]
            /\ \A n \in 1 .. Len(terms[t]) :
                  LET found == LocateTerms(index.dict, Len(terms), SubSeq(terms[t], 1, n))
                  IN  found.begin .. found.end = begun(SubSeq(terms[t], 1, n))

\* What test_locate_prefix.cpp:22 checks for queries that begin a completion:
\* the range holds the completions that begin with the query.
LocatesExpected ==
    phase = "completions" =>
        range.begin .. range.end - 1 =
            {i - 1 : i \in {i \in DOMAIN collection.completions :
                               BeginsWithQuery(collection.completions[i])}}

=============================================================================

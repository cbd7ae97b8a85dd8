# A verification project for `autocomplete`

`autocomplete` answers two kinds of query over a fixed, scored collection of
completions: *prefix* search (completions that begin with the query) and
*conjunctive* search (completions that hold every known term of the query and a
term that its last, unfinished token may become). Both return the `k` best
matches, the best first. The score of a completion is its identifier: smaller is
better. The library offers four index types that combine the same parts in
different ways.

This directory holds TLA+ models of its search algorithms, TLC configurations
that check them on small collections, and TLAPS proofs that conjunctive search on
indexes of types 1, 2 and 3 answers with the `k` best matches, what type 4
answers, that the intersection iterators report exactly the intersection (that of
type 4 but for one completion), that the dictionaries and the trie find the
strings they were built from, so that a query is answered with the strings it
should be, that `unsorted_list`, with its tree of range minima, `min_heap` and the cursors of
both list types do what is promised of them, and that bits and codes put into words
are read back wherever they lie. The models go from the words of a
query to the strings of its answer, and down to the bits the lists are stored in.

## 1. Inventory

| Component (source in `src/include`) | State | Operations | Hard behaviour | What makes it correct |
|---|---|---|---|---|
| Inverted index (`inverted_index.hpp`) | lists, immutable | `iterator`, `intersection_iterator` | - | a list decodes to what was built |
| Intersection iterator (same file) | candidate, cursors, `m_i` | constructor, `next`, `operator++`, `has_next` | leapfrogging, restart of a round, exhaustion | reports exactly the intersection, in order, and ends |
| List cursors (`uncompressed_list.hpp`, `ef/compact_ef.hpp`) | position, value | `next_geq`, `next`, `access` | binary search that shares its position with the cursor; one searches only forward | returns the next value at or after a bound |
| Forward index (`compact_forward_index.hpp`) | term lists, immutable | `intersects`, `iterator` | - | finds a term of a range |
| Index type 1 (`autocomplete.hpp`) | pool | `prefix_topk`, `conjunctive_topk` | buffers reused and never cleared; stop at `k` | the `k` best matches |
| Index type 2 (`autocomplete2.hpp`) | pool, completion slots | same | slots written before the candidate is accepted | strings belong to scores |
| Index type 3 (`autocomplete3.hpp`) | same, a heap per query | same | cursors leave the heap; early end; value read before a pop | no match is lost |
| Index type 4 (`autocomplete4.hpp`, `blocked_inverted_index.hpp`) | same, blocks of terms | same | one cursor stands for many terms | as type 3 |
| `heap_topk` (`autocomplete_common.hpp`) | a heap per query | one call | overlapping lists; binary search in a growing buffer | each match once |
| `minimal_docids.hpp` | queue kept between queries | `topk` | ranges split lazily, lists opened lazily | every list covered once |
| `unsorted_list.hpp` | queue kept between queries | `topk` | two branches; `unique` | the `k` least values of a range |
| `min_heap.hpp` | array | `push`, `pop`, `heapify`, `make_heap` | the root's key changes in place before `pop` | a priority queue |
| `scored_string_pool.hpp` | scores, offsets, bytes | `clear`, `push_back_offset`, `iterator` | answers are views of it | the i-th string and score agree |
| Dictionaries (`fc_dictionary.hpp`, `integer_fc_dictionary.hpp`) | buckets, headers | `locate`, `locate_prefix`, `extract` | boundaries of buckets, the first and the last one | exactly the strings with a prefix; what was stored is extracted |
| `completion_trie.hpp` | levels | `locate_prefix` | prefix sums, shifted indices | exactly the completions with a prefix |
| Query parsing (`autocomplete_common.hpp`) | - | `parse` | unknown words, a last word that is unfinished or empty | the terms of the words |
| `succinct_rmq/` | bit vectors | `rmq` | index arithmetic, ties | a position of the minimum |
| Bit containers (`bit_vector`, `compact_vector`, `integer_codes`) | words; readers with a buffered word | append, set, get, gamma and delta codes, skip | word boundaries, shifts by a whole word, loads behind the end | the bits that were put in are read, wherever they lie |
| `ef/ef_sequence.hpp`, `ef/darray.hpp` | high and low bits, an index of ones | build, access, scan | sparse and dense blocks | the i-th integer |
| Building (`inverted_index`, `compact_forward_index`, `parameters.hpp`, `src/build.cpp`, `test_data/*.py`) | one bit vector of lists, pointers | a round per list | pads, pointers where a list begins | the lists opened are those of the files |
| Web server (`src/web_server.cpp`) | one index | `ev_handler` | - (one thread) | answers before the next request |

Components interact by calls only. There are no threads, no messages and no
persistence besides loading an index that was built before. What makes the code
hard is of another kind: state shared between calls (buffers and queues that
belong to the index and are never cleared), several cursors that must move in
step, structures whose keys change in place, and loops that stop early because
of an ordering that other code maintains. Those are the hazards
`PROJECT.json` lists, each at its line.

## 2. Modules

Each algorithm is a module of its own with one action per round of its loop, so
that every intermediate state of the algorithm is a state of the model.

    Postings            sets as posting lists; what a cursor returns
    +- SortedStream     abstract: an iterator over a set
    +- PostingCursor    abstract: a cursor over one list
    +- UncompressedList next_geq of uncompressed_list       implements PostingCursor
    +- EliasFano        compact_ef, the list type of types.hpp, with Enumerator
    |  +- ListCursors   both list types under the same calls
    +- Intersection     intersection_iterator_type          implements SortedStream
    +- TopK             abstract: a top-k query
    +- Corpus           collections, term ranges, what matches
    +- QueryPool        the pool and the frame of a query
       +- ConjunctiveQuery   the frame of a conjunctive query, of one token or several
       |  +- ForwardTopk     index type 1, with Intersection implements TopK
       |  |  +- LexiconTopk     index type 2                implements ForwardTopk
       |  |  +- SuffixHeapTopk  index type 3, with HeapTopk implements TopK
       |  +- HeapTopk        heap_topk (type 3)
       |  +- MinimalDocids   minimal_docids (types 1, 2)
       |     +- LexiconIndex    all queries on an index of type 2: LexiconTopk and
       |                        MinimalDocids on one pool   implements TopK
       +- BlockedTopk   index type 4, with BlockedIndex (its intersection iterator)
       +- UnsortedList  the k best of a range (prefix search, all types), with
                        CartesianTree
    BitRanks            rs_bit_vector: rank and select of zeros
    +- BalancedParens   bp_vector: positions of least excess
       +- CartesianTree cartesian_tree: positions of minima
    Enumerator          unary_iterator as the encodings see it
    +- BitVector        machine words (util.hpp), bit_vector, its builder and its
       |                readers, integer_codes
       +- BitStreams    a builder, its vector and readers, any operations
       +- CompactVector compact_vector
       +- EfSequence    ef_sequence and darray
          +- IndexStorage  the inverted and the forward index, built list by
                           list and read back, with Corpus and EliasFano
    Strings             terms and completions, compared as strings
    +- FrontCoding      buckets of front-coded strings
    |  +- FcDictionary  fc_dictionary: the terms, and
    |                   integer_fc_dictionary: completions of types 2-4
    +- CompletionTrie   completion_trie: completions of type 1
       PrefixSearch     prefix_topk and conjunctive_topk, from words to strings:
                        composes parse, the dictionaries, the trie and the pool
       +- MCPrefixSearch  the collections and words it is checked on
    PriorityQueue       abstract
    MinHeap             min_heap                            implements PriorityQueue
    Structures          ListCursors, BitStreams and MinHeap side by side, one of
                        them in use: only for the checks

The modules whose names end in `Proofs` hold the theorems about the module they
are named after and those it is built from; `ConjunctiveProofs` is about
`Intersection`, `ForwardTopk`, `LexiconIndex` and `SuffixHeapTopk` (section 4).

How state corresponds to the code, where it is not obvious:

* A posting list is a set of identifiers. A cursor is the value it shows; the
  universe `NumDocs` is the value of an exhausted cursor, as in the code.
* `Intersection` has the fields `m_candidate` (`cand`), `m_iterators` (`lists`,
  `cur`) and `m_i` (`mi`), and the local `val` of `next()`. `pc` tells whether
  control is inside `next()`. `out` is a history variable.
* `QueryPool.scores` is the whole buffer of `MAX_K` scores with what earlier
  queries left in it. `phase` tells where a query is. The locals of a query
  take fixed values when it returns.
* In `ForwardTopk` a query chooses any sequence of known terms (with
  repetitions, which `deduplicate` removes), any range of terms and any `k`, and
  the collection is any collection. For a single term the code uses the plain
  iterator of the list; an intersection of one list behaves the same, because its
  loop is never entered. `std::sort` by size may leave equal sizes in any order,
  and the model takes any.
* `LexiconTopk.slots` are the completions decoded into
  `m_topk_completion_set`, each known by its identifier. The size of a slot is
  stored apart, and the string is right only if both are of one completion.
* In `SuffixHeapTopk`, `HeapTopk`, `MinimalDocids` and `UnsortedList` the heap is
  abstract: its top is any entry with a least key. `MinHeap` shows that
  `min_heap` gives that, driven the way those loops drive it. An entry is named by
  its position, so a reference to the root used after a pop would not show.
* `MinimalDocids.queue` maps a position to its entry: a closed range or an open
  cursor. It stays as it is when the loop breaks, and while queries of several
  tokens run (`LexiconIndex`), until the next query of one token clears it.
* In `BlockedIndex` a block is known by its last term, the value `m_blocks` has
  for it. `IsBlocking` says which partitions the builder can produce. A term
  list of a block is what the corpus says: `term_ids`, offsets and packed
  terms only encode it.
* In `UnsortedList` the minima come from the tree: the variable `rmq` is `m_rmq`,
  built with the list, and holds what `CartesianTree` computes from the
  parentheses of that list. `Parens` has
  the tree of superblock minima, the minima of blocks, and the counts of zeros
  with their hints, and `ExcessRmq` searches them as the code does; only the
  words are opened up (their tables of bytes, packed counts). In
  `MinimalDocids` the tree may return any position of the minimum: there too,
  nothing depends on which one it is.
* In `UncompressedList` every probe of the binary search is a step. `from` is a
  history variable: the position at the call.
* `ListCursors` makes every call on both list types. A cursor of `compact_ef` is
  its position, its value and its enumerator of ones (`at`, and `unread`, from
  which on ones have not been consumed: `m_buf`). A call that asks for less than
  the cursor has passed is made on one of them only, since there they differ;
  no caller makes one (`NeverSeeksBackward`), and `access` then puts the other
  one in the same place.
* In `PrefixSearch` a query is its words before the last and the last, which may
  be empty (the query ends in a blank, or is empty). A word is a sequence of
  characters, a completion a sequence of terms; both are numbers, so one module,
  `Strings`, compares both. The structures are built by the builders' own
  algorithms (`FrontCoded`, `Trie`), not assumed: `Indexes` holds them for every
  collection. The identifiers of completions, their scores, are in another order
  than the completions themselves: type 1 goes from an identifier to terms
  through the forward index, the other types through `m_docid_to_lexid`
  (`Place`) and the dictionary. Between the range, or the matches, and the
  strings stands one step, `SelectRange` or `SelectMatches`, with the promise
  that `UnsortedList` and the conjunctive searches are shown to keep. `k` is a
  parameter of the call; it takes its value in that step, where it is read first.
* Two things the dictionaries do are part of the model and named in its
  properties. `Lost` are the strings of a last bucket that is full: only its
  header is kept, and asking for a term it lost yields an empty one, decoded from
  the padding (`Extract`). A lost completion has no lexicographic identifier, and
  decoding one is not followed (`Decodable`); no prefix query does that.
  `PassedOver` is the first string of a dictionary, which `left_locate` never
  looks at (section 6).
* In `BitVector` a machine word is the set of the positions of its ones. A vector's
  memory goes on behind its last word with ones in `Beyond`, because some readers
  load a whole word from any byte and mask it: what they return must not depend
  on it. `Enumerator` is `unary_iterator` as `EliasFano` uses it; `UnaryInStep`
  says that the one with a buffered word stays in step with it.
* `IndexStorage` builds both indexes list by list, as the loops of the builders
  do, for both list types, and then opens every list: `EfView` is the record that
  `EliasFano` starts from, read out of the words through the pointers, and
  `IdsView` the array of `UncompressedList`. A completion without terms has the
  identifier `id_type(-1)` in `m_docid_to_lexid`, as completions the builder
  never sees.

Definitions named as regressions in a comment are the mutants of the checks. No
specification uses them.

## 3. Runs

| Run | Question | Instance |
|---|---|---|
| `lexicon_index` | does the leapfrog loop report the intersection exactly and seek only forward? does the lazy merge cover every list once, and take an entry of one list every round? do the strings belong to the scores? does an index of type 2 return the `k` best for queries of one token and of several, in any order, whatever earlier ones left in the queue and the buffers? | any collection of 3 completions over 3 terms, up to 2 known terms, any range, `k` up to 2, any sequence of queries (but see `MixedDocs` below) |
| `suffix_heap_topk` | does type 3 lose nothing when it drops cursors, ends early, or merges overlapping lists? is every query answered? | any collection of 3 completions over 3 terms, up to 3 known terms, `k` up to 2 |
| `blocked_topk` | does the intersection of blocks report that of the lists (but for the first completion of a block that holds all terms)? what does type 4 find, and is it all a match? is every query answered? | 2 completions, 4 terms, every blocking |
| `blocked_index_test` | does the intersection always report that of the lists? (no: section 6) | 3 completions, 3 terms |
| `blocked_topk_prefix` | does it report something whenever prefix search does? (no: section 6) | as `blocked_topk` |
| `unsorted_list` | are the `k` least values of any range of any list returned, whatever earlier calls left, each once if asked (but for short ranges with repetitions)? does the Cartesian tree give the leftmost minima? | lists of 4 out of 3 values; trees of lists of 7 |
| `unsorted_list_unique` | are unique values returned whenever asked for? (no: section 6) | lists of 3 out of 2 values |
| `structures` | is the binary search of the cursors right for every list, position and bound, and does it end? does `compact_ef` return the same? is the heap a priority queue under in-place changes of the root? do the words of a builder hold the bits put in by any sequence of its operations, and are they read back at any place, by any reader? | lists over 8 identifiers, of which windows of more than 2 positions are halved; heaps of 6 entries, 4 keys; vectors of up to 9 bits in words of 4, appended to builders of up to 5 bits |
| `prefix_search` | do `parse`, the dictionaries and the trie lead from a query to exactly the completions that begin with it (but for the first string of a dictionary, and those lost)? are the answers of prefix and conjunctive queries the strings of the `k` best, the best first? | 468 collections: 127 with up to 7 words and short completions of them, and 341 sets of completions of up to 3 terms; all queries of up to 3 words out of 5, one of which is in no collection, the last possibly empty |
| `locate_prefix_test` | do they always find what begins with the query? (no: section 6) | those collections that lose nothing in a full last bucket |
| `fc_dictionary_test` | is every term of the dictionary found, is the range of terms for a word that begins some theirs, does a completion come back as its words? (no, none of the three: section 6) | the dictionaries with a full last bucket whose first term is one letter |
| `index_storage` | are the lists of both list types, the completions and the lexicographic identifiers read back from the words they were built into? do the scanning iterators stay in step? | 4 completions of up to 2 of 4 terms, words of 8 bits |

**Bounds.** A violation of the intersection needs two lists and one completion
that tells them apart, and one round that restarts after another list has
agreed needs three lists. `suffix_heap_topk` intersects three, and sees the
iterator through the candidates it leaves (`FoundOrAhead`, `RefinesTopK`);
`lexicon_index` intersects two, and states what is reported, and how
(`ReportsExactly`, `RefinesStream`). Three completions let every cursor leap and be
exhausted at a different time. Three terms are
enough for a prefix of two terms and a range that overlaps it; `MAX_K` of 2
leaves stale scores behind a shorter answer and lets a query stop with candidates
left. Three terms are also the fewest of which a range can be split at its
middle, with a part on either side. Since a state machine keeps running queries,
"earlier queries" are any number of them. `k` is at least 1 (section 5).
`SCAN_THRESHOLD` and `linear_scan_threshold` (64 and 8 in the code) are
constants, set so low that both branches are taken (that of the scan, in
`lexicon_index`, for ranges of one term).

`lexicon_index` runs `BoundedSpec`, which is `IndexSpec` with one bound on the
order of queries: one of several tokens follows one that left entries in the
queue only where at most `MixedDocs` completions, 2 of 3, are in use.
Queries of several tokens do not look at the queue, but every state of theirs
would come once for each of its possible contents. Queries of one token, which
must not find anything in it, follow all others in every collection. The proofs are
about `IndexSpec`, without that bound.

`structures` runs three components that share no state, one of them at a time: the
first step chooses which. Its states are those of the three alone.

The parentheses of a list of four are ten bits, too few to make the search climb
and descend in the tree of superblock minima. So the trees of lists of seven that
continue them are checked as well, when the index has just been built
(`TreesFindLeftmost`): sixteen parentheses, in words of one and blocks of two bits, each a
superblock (64 bits, 4 words and 32 blocks in the code), so that there are
eight superblocks under three levels of inner nodes. What this leaves
degenerate is a superblock of several blocks, and the part of a word that a range
begins or ends in. Blocks of two bits for the ranks, and a hint for every three
zeros, make `select0` use its hints. A list of 8 identifiers has up to 3 low bits;
with a pointer for every fourth zero or one, and one value read for rather than
sought, all ways of `next_geq` and `access` are taken, for a few of the lists each.

Index type 4 needs four terms for a range that covers its first block in part
and goes on after it, which is where its heap is left too early; two completions
are enough to tell a lost match from a found one.

A bucket of three strings (17 in the code) gives dictionaries of one to three
buckets, the last of any size; words of up to three letters out of two have
headers that are prefixes of each other, equal to what is searched, or share it
with strings of the bucket before. A trie of three or four levels has a node with several
ranges of children to its left, which is where the sums of `ef_sequence` matter;
`SearchThreshold` is 1 (8 in the code) so that `next_geq` halves ranges of three
nodes.

Bit vectors of nine bits in words of four have a boundary inside, at, and behind
every operation: an append that ends with a word, crosses it, or has nothing to
append, a code of up to five bits across two words, a get of a whole word. For
the indexes, words of 8 bits, bytes of 2 and identifiers of 4 let lists begin and
cross everywhere, need a pad of any length, and put two identifiers in a word
(64, 8 and 32 in the code). Blocks of four ones of which the longest dense ones
take six bits make `darray` use both its kinds of block, with pointers to every
second one. Any gap of the pads or any wrong offset shows in the second list.

Prefix queries are run with `k` of 1 and 2, on identifiers in reverse order or
with every other completion better than the rest, so that the best completions
are neither the first nor the last of a range, nor together.

**Fairness.** The code is sequential: once a call has been made nothing stops it
before it returns. So weak fairness is assumed of the steps of a running query
(`HeapRun`, `BlockedRun`) or of the binary search (`Search`), and never of the
arrival of a query. Under it, every query of types 3 and 4 is answered
(`Answers`), and `next_geq` returns (`NextGeqReturns`). For types 1 and 2
termination is stated as a measure and without fairness: a round of the loop over
the queue takes one entry of one list (`RoundsTakeOne`), and the loop around the
iterator leaves a candidate in every round (`RefinesStream`).

**Deadlock** is checked in every run: a caller can always ask again.

## 4. Proofs

TLC checks a small universe; the theorems hold for every universe, collection,
number of terms, `k` and sequence of queries. `PostingsProofs` has the lemmas
about cursors (what `NextGeq` returns and that nothing lies between) and about
ascending sequences. `ConjunctiveProofs` begins with the iterator, which the search of
type 1 drives, and has types 2 and 3 on top of it. `UnsortedListProofs` begins with
the tree of range minima. `PrefixSearchProofs` begins with
strings in order and has the dictionaries, the trie and the query on top of them.

| Module | Theorems | Specification |
|---|---|---|
| `ConjunctiveProofs` | `TypeCorrect`, `Exactness` (`ReportsExactly`), `Order` (`ReportsAscending`), `ForwardOnly` (`NeverSeeksBackward`), `FirstCursor`, `Refinement` (`RefinesStream`) | `Spec` of `Intersection` |
| `ListCursorsProofs` | `TypeCorrect`, `Window` (`WindowHoldsAnswer`), `Position`, `Refinement` (`RefinesCursor`) | `Spec` of `UncompressedList` |
| `ListCursorsProofs` | `SameAnswers` (`SameCursor`), `PairIsList`, `PairRefinement` (`RefinesCursor`), `PairWindow` (`WindowHoldsAnswer`) | `PairSpec` |
| `ConjunctiveProofs` | `SearchTypeCorrect`, `SearchSorted`, `Complete` (`ScoresComplete`), `SearchRefinement` (`RefinesTopK`) | `SearchSpec` |
| `ConjunctiveProofs` | `Strings` (`StringsFollowScores`), `LexRefinement` (`RefinesForward`), `LexAnswers` (`RefinesTopK`) | `LexSpec` of `LexiconTopk` |
| `ConjunctiveProofs` | `IndexStrings` (`StringsFollowScores`), `TokenCovers` (`FoundOrCovered`), `TokenDisjoint` (`RangesDisjoint`), `TokenProgress` (`RoundsTakeOne`), `IndexComplete` (`ScoresComplete`), `IndexIterates`, `IndexStreams` (`ReportsExactly`, `NeverSeeksBackward`, `RefinesStream`), `IndexAnswers` (`RefinesTopK`) | `IndexSpec` |
| `ConjunctiveProofs` | `HeapFollows` (`HeapNeverAhead`), `MergeCovers` (`FoundOrAhead`), `HeapSorted` (`ScoresSorted`), `HeapAnswers` (`RefinesTopK`) | `HeapSpec` |
| `BlockedTopkProofs` | `BlocksReport` (`ReportsExactly`) | `MeetSpec` of `BlockedIndex` |
| `BlockedTopkProofs` | `BlockedReports` (`ReportsExactly`), `BlockedSound` (`ScoresMatch`), `BlockedComplete` (`FoundWhenCovered`) | `BlockedSpec` |
| `UnsortedListProofs` | `ListTrees` (`TreesFindLeftmost`), `ListCovers` (`FoundOrQueued`), `ListLeftmost` (`QueuedAtLeftmost`), `ListLeastValues` (`LeastValues`) | `ListSpec` |
| `PrefixSearchProofs` | `TermsLocated`, `ListsLocated`, `TrieLocated` | what the dictionaries and the trie find, as functions |
| `PrefixSearchProofs` | `SearchInvariant`, `SearchWordsFound` (`WordsFound`), `SearchTermRangeExact` (`TermRangeExact`), `SearchCompletionRangeExact` (`CompletionRangeExact`), `SearchAnswerExact` (`AnswerExact`), `SearchConjunctiveExact` (`ConjunctiveExact`) | `Spec` of `PrefixSearch` |
| `MinHeapProofs` | `PopSafe` (`PopFindsOrderBelow`), `Refinement` (`RefinesPriorityQueue`) | `HeapSpec` of `MinHeap` |
| `BitStreamsProofs` | `WordsHold` (`WordsHoldBits`), `ReadInPlace` (`ReadsInPlace`), `ReaderReadsWhatItPasses` (`ReadsWhatItPasses`), `UnaryFollows` (`UnaryInStep`) | `StreamSpec` of `BitStreams` |

None of these properties is inductive as it stands.

* *Intersection.* The invariant says of every cursor that it stands on a member
  of its list or at the end and that no member at or after the candidate lies
  behind it (`Positioned`), that the lists before `m_i` have agreed on the
  candidate (`Agreeing`), that exactly the common members below the candidate
  have been reported (`Reported`), and why the loop ended (`Settled`). `Agree`,
  `Disagree` and `Return` stutter in the abstract stream; `Advance` emits the
  least pending member.
* *Uncompressed list.* The invariant adds to `WindowHoldsAnswer` and
  `PositionOfValue` where the window is (`Inside`). A probe splits a window into
  two that overlap in nothing but their ends; the test of the value to the left of
  the middle, or at it, tells which one has the answer.
* *Type 1.* The steps of the search are steps of the iterator or leave it alone
  (`StepOfIterator`), so the iterator's invariant holds inside a query. To it are
  added that the lists are those of the query's terms (`Joined`), that the scores
  are the matches left behind (`FilledSoFar`), and that what is missing when the
  loop stops is worse than what was found, and missing only if `k` were found
  (`FilledBest`). `Query` asks, `Answered` replies, all other steps stutter.
* *Type 2.* With `SlotsFollowScores` a step of type 2 is a step of type 1, and
  decoding the slots is extracting the scores. `NothingYet` carries
  `StringsFollowScores` from one answer to the next.
* *All queries of type 2.* Between queries, and while one of several tokens runs,
  the invariant `XInv` is that of type 2. In the loop over the queue it adds what
  a split needs (`QueueShape`): an open entry shows a member of its list, a
  closed one lies at the position of the least value of its range and shows it.
  With `RangesDisjoint` the positions covered by a split are those covered
  before less the one that is opened, whose cursor goes on behind what it showed:
  that is `RoundsTakeOne`, and from it `FoundOrCovered` is kept. The top is then
  not greater than anything still to come, and not less than anything found
  (`TokenSoFar`), so the scores ascend and stopping at `k` misses nothing better.
  Nothing is assumed of the position of a minimum that the tree returns.
* *Type 3.* The invariant `HInv` adds to that of the search that no cursor of the
  heap has passed a completion its term may still match (`HeapNeverAhead`). A
  seek moves a cursor to the candidate and no further, the cursors that leave are
  exhausted, and the candidates ascend; so a candidate that no cursor shows has no
  term of the range. When the heap is empty no later candidate can match either,
  which is why the early return loses nothing. For `heap_topk`, `FoundOrAhead`
  plays the part of `FoundOrCovered`. In both the order of the scores is part of
  the invariant, since duplicates are looked for by binary search.

* *Type 4.* A block is taken into the intersection by what `BlocksFacts` says: its
  list holds every completion that has the query's terms of that block, there are
  as many blocks as boundaries found, and together they have all the terms
  (`BlocksHaveTerms`, an injection between sets of one size). The invariant of the
  iterator (`IterInv`) says that what it has left behind are the members of the
  intersection it has passed but the one it skips, that the blocks before `m_i`
  have the candidate with their terms, and that no cursor has passed a member of
  its list from the candidate on; with a single block the loop has passed its
  candidate unless it has just found it good (`Passed`). A scanned value that
  lacks a term is in no intersection (`MeetIs`), so going on behind it loses
  nothing. The search adds (`BInv`) that a block of the heap shows a value no
  greater than any it still has to show (`Ahead`), and that each match read so
  far is recorded or `Covered`; `FoundWhenCovered` is what is left of that when
  the iterator or the heap is empty.
* *Range minima.* `TreeFindsLeftmost` is a lemma about every sequence of integers
  and goes bottom up. A loop is a number of rounds (`Rounds`): what a round keeps
  holds at the end, and a measure that shrinks shows that the rounds are enough
  (`RoundsEnd`). With its hints `select0` encloses the block of a zero
  (`HintsEnclose`) and finds it (`SelectFinds`). In the tree of superblock minima
  a node has as many leaves below it as its level says, the last of which is the
  span that the code keeps (`OnLevel`), and going down from a node to its lesser
  child leads to the leftmost of its least leaves (`LeafOfIs`). On the way up, and
  then down, of `find_min_superblock` the candidate is right for the leaves left
  behind (`Rising`, `Sinking`), so the last one is right for all
  (`MinSuperblockIs`). Words make up blocks and blocks superblocks: the leftmost
  minimum over whole parts is that of the first part with the least minimum
  (`LeftmostOfParts`), and the ends of the range are searched alone
  (`ExcessRmqIs`). At last the stack: the excess where the zero of a value is
  written is the depth of the stack at that time. After a value the stack stays
  deeper until a lesser one comes (`DeeperAfter`), and a value less than all since
  an earlier one leaves it no deeper than it was (`DeeperBefore`). So the leftmost
  least excess between the zeros of two values tells the leftmost minimum between
  them, but for the last value, which `rmq` compares apart (`RmqIs`).
* *Unsorted list.* The invariant says that the parts on the
  queue and the positions taken cover the range without overlap, that a part lies
  at the leftmost minimum of what it covers, and that the values taken ascend and
  are no greater than any that is queued. So what was taken are the first positions
  in the order of their values and, of equal ones, of their places: for every value,
  as often as `LeastValues` counts it. A range of at most `k` is copied and sorted;
  `SortedOrders` says what the sort does, and that there is an ascending order at
  all is shown by ranks, which are a bijection.
* *Compressed list.* The cursor of `compact_ef` is at the position of the
  uncompressed one, with its value, and unless it is exhausted its enumerator has just read the
  one of that position (`EfAt`). A one has as many zeros before it as its high part
  says, so the zero with which the values of high part `h` begin lies at `h` plus the number
  of values that are lower, and the pointers, to every so-many-th zero or one,
  are right wherever they are cut off. Reading on from any place that is not
  behind the answer stops at the first value that is not below the bound, whether
  the place came from a pointer to zeros, from the cursor itself, or from the loop
  that reads a few values first. `PairIsList` then carries all that is proved of
  `UncompressedList` to the two under the same calls.
* *Dictionaries.* Against a prefix, sorted strings come in three runs: those
  before, those that begin with it, those behind. A run ends at a cut (`IsCut`),
  and a search over the headers ends in the bucket in which the cut lies
  (`BucketFound`, `LeftBucketIs`, `RightBucketIs`): the loop that halves keeps the
  cut between its ends, which is shown by induction over the distance of the ends.
  Inside the bucket the scan stops at the cut. The last bucket ends where the
  builder says, not where the strings do, so everything is stated of the first
  `Held(n)` strings. That a place in a bucket decodes to its string (`DecodedIs`)
  is an induction over the bucket: what is kept of a string is what it does not
  share with the one before.
* *Trie.* The builder is followed from one completion to the next (`Grows`): on the
  levels above the one where the new completion leaves the one before, its last
  node is stretched; on that level the node joins the family of the last node
  above; on those below it opens a family of its own. `Tree` is what that
  keeps: the nodes of a family, the children of one node, share out its
  completions in the order of their symbols, without gaps, and the pointers say where
  families begin. The sums that `ef_sequence` makes of a level add the same number
  to all nodes of a family (`SiblingsHeld`), since the least pointer behind a node
  belongs to its own family; so `next_geq`, which halves and then scans, finds in
  a family what it should (`NextGeqIs`, `RangeFound`). The way down (`Reached`)
  keeps: the family reached has exactly the completions that begin with the
  part of the prefix read so far, or there are none. `Sizes` and `lefts` then give
  the first completion and the one behind the last (`BelowIs`).
* *Queries.* The invariant `SearchInv` says what is known in each phase: the prefix
  is that of the known words (`PrefixKnown`), the range of terms that of the last word
  (`LexRangeKnown`), the range of completions that of both (`RangeKnown`), the
  scores the identifiers of the `k` best of the places wanted (`FoundKnown`), and
  the answer their strings. Each property speaks of one phase, and follows from what
  was found in the phases before. The last step of the proof is that the places found through terms are those that
  begin with the words (`Wanted`): terms are strings in order, so different terms
  are different words, and a prefix of terms is a prefix of words.
* *Min heap.* `make_heap`, `push` and `pop` leave an array in heap order; a moved
  root and a sinking entry leave one entry that may be greater than its children
  and whose children are no less than its parent (`OneOutOfOrder`). That is
  inductive, and it is why `PopFindsOrderBelow` holds when an entry that has moved
  is popped: the root is out of order, nothing below it is. The root is a least entry
  because the least position with a least key can have no parent. For
  `RefinesPriorityQueue` the array is a bag of entries, which a swap of two
  positions leaves as it is.
* *Bit vectors.* `WordsHold` is inductive with the size that the builder keeps: each
  bit of each word is the bit that was put there, and there are zeros behind the
  last one. The zeros are needed: `append` and `append_bits` of a builder that ends
  inside a word only add ones to it. A position is written as the start of its word and a
  place in it, and each operation is looked at word by word: those before the old
  end, the one it lies in, those behind. The invariant of `bits_iterator` says that
  its buffered bits are those from its position on, and that an exhausted
  buffer is filled where the position says; that of `unary_iterator` that nothing
  has been consumed beyond the word it has buffered, so that the counts of ones it
  skips and the ones the enumerator skips are the same, counted by bijections between the
  places in a word and the positions behind its start. Of a code (`CodesInPlace`)
  the bits below bit `b` have the value of the number modulo two to the `b`, by
  induction over `b`; its highest bit is not written, but told by the unary part,
  and a delta code begins with its length in a gamma code.

The assumptions are those the modules state of their constants: `NumDocs`,
`NumTerms`, `MaxTerms`, `MaxK`, `LinearScanThreshold`, the size of a list or heap
and the width of a word are positive numbers, `ScanThreshold` and the bounds of
`BitStreams` are numbers, as are the samplings and the threshold of `EliasFano`; the
size of a bucket and `SearchThreshold` are positive, a collection is `WellFormed`, as
the scripts that produce it leave it, and has fewer terms than `InvalidTerm`; a
number that is written in a code, plus one, fits in a word; words, blocks and
superblocks are not empty, and there are more zeros to a hint than bits in a
block of the ranks, as a comment in the code demands. `LinearScanThreshold`
matters: with a threshold of 0 a window of two positions would be halved at its left
end, and the search would leave it (8 in the code). `std::sort` and the standard
library's heap functions are not opened up: the models say what they do, by their
effect, and the proofs take that.

Only model-checked are:

* liveness (`Answers`, `NextGeqReturns`), which the prover does not reach;
* the properties of `IndexStorage` (`ListsReadBack`, `CompletionsReadBack`,
  `ScansInStep`): the builders append one list after the other, and what they have
  built after the last one would need induction over the lists.

The library's induction theorems take an operator as a parameter, which no prover
here can instantiate. The inductions above go another way: a set of numbers that
has 0, and with each number the next, has all (`Everywhere`, `UpTo`, from the
well-foundedness of the order of numbers), and recursive functions are shown to
exist, step by step, before their values are used; where the proofs count, they
use bijections.

## 5. Not modelled

* `scored_string_pool` as memory: an answer is a value here, reset when the next
  query begins. In the code it is a view of the pool of the index, with offsets
  into its bytes.
* `uint_vec`, a plain array; `resize`, `set` and other operations of the bit
  containers that nothing calls; `ef_sequence::iterator::next` and `darray0`,
  unused too; `select_in_word` and the tables for the bytes of a word, modelled by
  what they return; the packed counts of `rs_bit_vector`.
* The bit layout of the blocks of index type 4, of the trie and of the buckets of
  the dictionaries. `is_member` of the trie and `locate` of
  `integer_fc_dictionary`, which the code calls not used.

* A `k` of 0. `assert(k <= constants::MAX_K)` admits it, but every loop records a
  result before it compares their number with `k`, so it would run on until its
  candidates are used up; nothing says what should be answered, and behind the
  scores the behaviour is undefined. All models take `k` from 1 to `MaxK`.

Left out for good: file formats and I/O, the byte layout of strings, statistics
and probes, benchmarks and scripts, and the web server, which is a single thread
that copies an answer out of the pool before it serves the next request.

## 6. Findings

The dictionaries do not look at their first string when they search a prefix,
unless it is the prefix itself: `fc_dictionary::locate_prefix` compares the
header of the left bucket with the whole prefix (line 126) and goes on with
`left_locate`, which starts at the string after the header (line 359);
`integer_fc_dictionary` does the same (lines 153 and 368). For any other bucket
that is right, for its header comes before all strings with the prefix. The
first term that extends the last word of a query is lost with all completions
that have it there, against `test_locate_prefix.cpp:22` (`locate_prefix_test`).
`TermRangeExact` and `CompletionRangeExact` say that nothing else is.

The builders of both dictionaries compute the size of the last bucket as
the remainder of the number of strings by the span of a bucket, less one for the
header; when the remainder is 0 the bucket is full, and the size comes out as 0
(`fc_dictionary.hpp:24-26`, `integer_fc_dictionary.hpp`). The strings after the
last header are neither written nor found (`Lost`). Against
`test_fc_dictionary.cpp:45`, `:75` and `:50`, which ask it of every term,
`locate` does not find them, `locate_prefix` leaves them out, and they are
extracted from behind the last bucket, where the assertion of line 330 fails or,
without assertions, an empty word comes back. `KeepsTerms` demands all three of a
dictionary (`fc_dictionary_test`); the terms `a`, `b`, `ba`, which fill one bucket,
fail each. The run takes dictionaries of which the first term is
a single letter, so that the deviation above plays no part. `WordsFound` and the
other properties of `prefix_search` except the lost strings, and say what is
returned all the same, for every collection.

`unsorted_list::topk` takes a parameter `unique`, documented "return unique
results" (`unsorted_list.hpp:22`). A range of at most `k` values is copied with
its repetitions all the same (line 25), though `test_unsorted_list.cpp:156` expects
unique values of every range (`unsorted_list_unique`). `LeastValues` excepts just
these: `unsorted_list` shows that longer ranges, and short ones without repetitions,
are answered as documented. No index passes `unique` (the calls are commented out,
`autocomplete.hpp:129`), so no answer of the library is affected.

`blocked_inverted_index`, when all terms of a query are in one block, moves its
cursor before it tests the first completion of that block (line 373), which is
therefore never reported. `test_blocked_inverted_index.cpp:51` requires that the
iterator agrees with the one of the plain index for every query
(`blocked_index_test`). `ReportsExactly` says precisely what is reported.

`autocomplete4::conjunctive_topk` collects the blocks of the suffix range with a
loop that ends before the last term of a range whose both ends belong to it (line
195). A block that begins with the last term is not looked at, and a query can
come back empty although a completion begins with it, against
`benchmark/effectiveness.cpp:34` (`blocked_topk_prefix`). Two more things in which
type 4 differs from the other types are stated, not called bugs, since nothing
in the repository promises otherwise: a candidate is checked in one block only,
though the range may cover several (lines 251-256; `FoundWhenCovered`), and without
known terms a completion of two blocks is recorded twice (lines 225-234;
`ScoresMatch`).

## 7. Running

    tlc -workers 2 -config LexiconIndex.cfg LexiconIndex
    tlapm ConjunctiveProofs.tla

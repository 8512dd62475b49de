# A TLA+ model of php-sdsearch

sdsearch reads and writes Zend Search Lucene (ZSL) index directories from a Rust
core (`sdsearch-core`) behind a PHP extension (`sdsearch-php`). Searches open
the index on every request and take no lock; one writer at a time adds, deletes,
commits and optimizes beside them. This directory holds TLA+ modules of it, TLC
configurations that check them on small instances, and TLAPS proofs of the
results that hold for every instance. Paths below are relative to
`src/sdsearch-core/src/` unless they start with `src/`.

## Inventory

| Part | State | Operations | What is hard | What makes it correct |
|---|---|---|---|---|
| Streaming writer (`zsl/writer/index_writer.rs`, `zsl/writer/segments.rs`) | the base generation, buffered documents, flushed segments, pending deletions, the next name; on disk: `segments.gen`, `segments_<n>`, `_<k>.cfs`, `_<k>_<g>.del`, `pending_deletions` | open, add_document (flush, compaction), delete_document, document_count, commit, optimize, drop | a crash or an I/O error between any two writes; names and delGens used again; removals deferred by one flip | a commit is seen whole or not at all; the two latest generations stay readable and unchanged; nothing leaks; counts are exact |
| Readers (`zsl/index.rs`, `zsl/segment.rs`, `zsl/segments.rs`, `zsl/deletes.rs`) | the generation, the open segments, their bitmaps | open (no lock), then queries over mapped files | the writer flips and reclaims between two reads | a search sees exactly one generation |
| Segment merge (`zsl/writer/merge.rs`) | cursors over the term dictionaries, renumbering tables | merge, streaming merge | k-way order, dense renumbering, terms without live documents | the merged segment is the live documents of the inputs, in order |
| Lock and batch append (`zsl/writer/lock.rs`, `zsl/writer/mod.rs`) | `write.lock.file` | try-lock, `append_documents` | a second writer, the batch append that takes no lock, ZSL itself | no commit is lost |
| Durable writes (`zsl/writer/durability.rs`) | what is synced and what is not | write_atomic, write_durable, sync_dir | power loss reorders renames and contents | an optimized generation survives |
| PHP extension, `Writer` (`src/sdsearch-php/src/lib.rs`) | the open `IndexWriter` and a reader cached at open | open, try_open, find_doc_id(s), add, delete, document_count, commit, optimize | panics caught at the boundary, retries by the host, a second open on one object | ids found stay valid until the commit; an error leaves a usable state |
| PHP extension, `Engine` (same file) | none: every call opens the index | search, semantic_query, hybrid_query, more_like_this | optional keys, keys that exclude each other | a request means the same whichever keys spell it |
| Query evaluation (`query.rs`) | none | build_query, boolean trees, allow lists, eval | negation, nesting bound, candidates narrowed in an order of their own | the shortcut answers what the definition answers |
| Term expansion (`search.rs`, `distance.rs`) | none | wildcards, fuzzy terms, accent variants, phrases | caps, cuts in bytes, a matrix of two rows | what is found does not depend on how a word is typed |
| Ranking and paging (`search.rs`, `index.rs`, `score.rs`) | bounded heap, sort table | top hits, paging, sort by field, sampled average lengths | ties, page boundaries, missing sort values, two sources of values | a page is a slice of the full order |
| More-like-this, feedback, fusion (`mlt.rs`, `prf.rs`, `hybrid.rs`, `zsl/runner.rs`) | none | term selection, thresholds, two passes, reciprocal rank fusion | deadlines, budgets, degraded paths | nothing that plain search finds is lost, nothing filtered comes back |
| Index trait over segments (`zsl/index.rs`, `zsl/segment.rs`) | segments with their first ids | postings, term scans, stored fields, sort values | global ids, deletions, limits per segment | segments answer as one index |
| Files of a segment (`zsl/writer/invert.rs`, `stored.rs`, `norms.rs`, `postings.rs`, `deletes.rs`, `fnm.rs`, `terms.rs`, `cfs.rs`, and the readers of the same names in `zsl/`) | offsets, the last term and document written | write, read back | deltas, pointers, columns, sparse index, sizes measured before the copy | what is written is read back |
| Codecs (`zsl/bytes.rs`, `serialize.rs`, `zsl/segments.rs`) | none | vint, modified UTF-8, base 36, manifests | boundaries, truncated input, records of two layouts | the same |
| In-memory index and native segment (`index.rs`, `segment.rs`, `doc.rs`) | postings, lengths, stored fields | add_document, write_to, open | order of hash maps, a write cut short | the segment answers as the index |
| Synonyms (`synonyms.rs`), analysis (`analysis.rs`) | the global dictionary, set once | from_pairs, encode, decode, expand; analyze, fold_accents | folded keys, lengths in bytes | the first distinct synonyms are kept; character tables are left to unit tests |

The parts meet in the index directory. The writer publishes by renaming
`segments.gen`; a reader reads that file, the manifest it names and the files
the manifest names, in that order and with nothing to hold the writer back; the
merge reads like a reader and writes like the writer; the PHP extension keeps a
reader of its own open beside the writer, on the generation the writer started
from.

## Modules

* `IndexDirectory` - the directory: generation, manifests, segments, bitmaps,
  sidecar. `Visible(m)` is what a reader of manifest `m` finds, `FilesOf(m)`
  what it refers to, `InGrace(n)` the two generations a commit must leave alone.
* `IndexWriter` - the writer, one action per step on the directory. `pc` is the
  step a call is at; a call starts at `"idle"` and returns there (add_document)
  or to `"closed"` (commit and optimize consume the writer). `op` is the call;
  the second half of optimize is `"merge"`.
* `AtomicIndex` - what the writer promises: a set of documents that changes by
  whole commits. `IndexWriter` implements it under the mapping
  `visible <- Visible(manifest[gen])`, `staged <- buffer` and the documents of
  `flushed`, `doomed <- pending`.
* `IndexReaders` - searches that open the directory while `IndexWriter` runs.
* `WriterInvariant` - the inductive invariant of `IndexWriter`.
* `IndexWriterProofs` - the theorems about it and about `IndexReaders`.
* `WriterRace` - several processes that write one index: `WriteLock`, the steps
  of `open` and `Drop`, and `append_documents`. What `IndexWriter` does in one
  step at the ends of a session is taken apart here; what a session does in
  between is reduced to one segment and one commit.
* `SegmentMerge` - `merge_segments_streaming`, one action per document copied
  and per term popped, against `merge_segments`, which `Batch` defines in one go.
  `IndexWriter`'s `Compact` and `Merge` are one run of it.
* `WriterRaceProofs`, `SegmentMergeProofs` - the theorems about them.
* `PhpWriter` - the extension's `Writer`: objects of several requests that open
  one of several directories, replace documents by id, and commit or optimize,
  with panics, errors and abandoned requests. A session of `IndexWriter` is one
  step here. `host` is what the script holds and was told;
  `promised` what a commit that returned Ok owes it. An add fails in two ways: with
  the document kept (`Buffered`: the flush or the compaction failed) or, when
  `doc_from_json` rejects it, with nothing (`Refused`); the host that deleted its
  predecessor and commits all the same has deleted the document, and is promised no
  more of it.
* `PowerLoss` - commit and optimize as single writes, syncs and renames over a
  file system that keeps them in caches; a power loss keeps some of them. `prog`
  is the list of the writes of the current call and `at` how many of them are
  done; optimize takes a second list, `Merge`, from what its commit has left.
  `dirs` is the directory since its last sync.
* `PhpWriterProofs`, `PowerLossProofs` - the theorems about these two, and
  `OrderedLists`, the induction they use, with what it gives for lists in order,
  recursions and joined sequences; the proofs below use it too.
* `ZslReader` - the methods of `ZslIndex` and `ZslSegment` as operators;
  `SegmentedIndex` asks them of indexes of several segments, `TopHits` builds
  pages of hits on them. `SearchProofs` - the theorems about these two.
* `FileProofs` - the theorems about `CompoundFile` and `GenerationFile`.
* `QueryEval` - `query.rs` as operators; `Query` runs a search with them.
  `TermSelection` adds `select_terms`; `Feedback` (`search_prf`, `fuse_rrf`,
  hybrid), `MoreLikeThis` and `EngineCalls` (the `Engine` of the extension)
  are built on it.
* `TermExpansion` - wildcards, fuzzy terms, accents, phrases.
* `TermDictionary`, `SegmentFiles`, `CompoundFile`, `GenerationFile`, `Codecs`,
  `FieldNorms`, `Synonyms`, `NativeIndex` - the files: writers, readers, and
  what is lost in between.
* `MCSearch` - one specification of every module of the search side: a variable
  `kind` picks the module, whose own `Init` and `Next` are used and whose inputs
  come from `MCRequests` and `MCHits`. It extends `TopHits` and `SegmentedIndex`, whose
  assumptions TLC evaluates, and instantiates the others. `MCFiles` does the same for the modules of
  files, and extends `CompoundFile` and `GenerationFile`. The kinds share no state; what they share of the code is in the modules
  they extend.
* `MCIndexWriter`, `MCIndexReaders`, `MCWriterRace`, `MCSegmentMerge` - the
  other instances TLC checks, where it takes more than a `.cfg`.

How the code's steps appear in `IndexWriter`:

| Code | Actions |
|---|---|
| `IndexWriter::open` | `Open` |
| `add_document`, `delete_document` | `AddDocument`, `DeleteDocument` |
| `flush_segment`, `compact_flushed` | `FlushBegin`, `FlushEnd`, `Compact`, `RemoveInput`, `Drained` |
| `commit`, `optimize`, `commit_inner` | `StartCommit`, `TakeNothing`, `Take`, `WriteDel`, `DelsWritten` |
| `write_generation_with_delgens`, `write_optimized_generation` | `ManifestBegin`, `ManifestEnd`, `Flip`, `Prune`, `Pruned` |
| `process_pending_deletions` | `Pruned`, `Reclaim`, `ReclaimFails`, `Reclaimed`, `Relist`, `ListingEnd` |
| rest of `optimize` | `Check`, `Merge` |
| `Drop`, `?` after a failing write, death of the process | `Abandon`, `AddFails`, `CallFails`, `Crash` |

And in the other two modules:

| Code | Actions |
|---|---|
| `WriteLock::acquire`, `IndexWriter::open` | `Acquire`, `ReadGeneration`, `ReadInfos` |
| `write_segment_cfs`, `write_generation_with_delgens`, return of the call | `Flush`, `WriteManifest`, `Flip`, `Prune`, `Return` |
| `append_documents` | `BeginAppend`, `ReadGeneration`, then the same |
| `Drop` of the writer, then of its `_lock`; death of the process | `Drop`, `RemoveFlushed`, `Unlock`; `Stop` |
| `merge_streaming_inner`, phases 1 and 2 | `UniteFields`, `SkipDeleted`, `CopyDoc`, `NextSegment` |
| phase 3: the heap of cursors | `StartTerms`, `PopTerm`, `GatherSame`, `EmitTerm` |
| phase 4, an `Err` on the way | `Assemble`; `Refuse`, `IOFails` |

And in the modules of searches and files:

| Module | Code | Actions |
|---|---|---|
| `PhpWriter` | `open`, `try_open` | `OpenWriter`, which `Busy` and a caught panic can end |
| | `find_doc_id(s)`, `delete_document`, `add_document` | `FindDocId`, `DeleteDocument`, `AddDocument` |
| | `commit`, `optimize`, their errors, the end of the request | `Commit`, `Optimize`, `CommitFails`, `MergeFails`, `Vanish` |
| `PowerLoss` | `commit`, `optimize` and its merge as lists of writes | `Commit`, `Optimize`, `AddAndOptimize`, `Merge`; `Step` |
| | a power cut, the next boot | `PowerLoss`, `Restart` |
| `Query` | `build_query` and its errors, `allow_list`, `search_with_weights_paged` | `Build`, `RefuseDeepTree`, `RefuseEmptyField`, `ReadAllowList`, `Evaluate` |
| `Feedback` | `lexical_search`, `search_prf`, `fuse_rrf` | `LexicalSearch`, `Degrade`, `FirstPass`, `Select`, `SecondPass`, `Fuse`, `Refuse` |
| `MoreLikeThis` | `more_like_this_index` | `Resolve`, `NotFound`, `Select`, `ScoreTerm`, `Deadline`, `Filter` |
| `TopHits` | `finalize_paged`, `finalize_sorted` | `PageByRelevance`; `StartSorted`, `Walk`, `PageSorted`; `NextPage` is the client |
| `TermExpansion` | `wildcard_terms`, `fuzzy_terms`, `accent_variant_terms`, `phrase_scores` | `Wildcard`, `Fuzzy`, `AccentTerm`, `Phrase` |
| `SegmentedIndex` | the `IndexReader` trait | `AskPostings`, `AskPrefix`, `AskRange`, `AskDocument`, `AskFields` |
| `TermDictionary` | `add_term`; `begin_term`, `add_posting`, `end_term`; `finish` | `AddTerm`; `BeginTerm`, `AddPosting`, `EndTerm`; `Finish` |
| `SegmentFiles` | `write_segment_cfs` over `invert`; `write_del_file` | `AddDocument`, `AddField`, `Write`; `Delete` |
| `CompoundFile` | `write_cfs_streaming`; a temporary file that changes | `Measure`, `WriteDirectory`, `Copy`; `Resize` |
| `GenerationFile` | the manifests of commit and optimize | `Commit`, `Optimize` |
| `NativeIndex` | `add_document`, `write_to`, `Segment::open` | `AddDocument`, `WriteTo`, `WriteFile`, `Crash`, `Open` |
| `EngineCalls`, `Codecs`, `FieldNorms`, `Synonyms` | one call each | `Answer`; `Take`; `Take`; `Add` |

`Codecs` and `FieldNorms` model pure functions: their one action picks an input, and the
invariants compare what is written with what is read.

Abstractions. In `IndexWriter` a segment is a set of documents, a document is one call of
add_document, and the translation of a global id in delete_document is left to `PhpWriter`.
In `SegmentMerge` documents have their numbers; what is copied verbatim (stored
values, norm bytes, positions) is named by the document it comes from, a term is
its rank in the dictionary's order, and the encodings (prefixes, deltas,
pointers into `.frq` and `.prx`) are left to `TermDictionary`. `WriterRace` gives each process
one segment to write, and leaves deletions and optimize to `IndexWriter`. `.sti` files, which the writer lists
beside each `.cfs` and never creates, are left out. A missing and a half-written
file are both `NoFile`, since every read of either fails. `std::fs::write` takes two
steps; a write that ends in a rename takes one (`PowerLoss` takes it apart). Left-over `.tmp` files are never read and
are left out. The directory the first session finds has one
segment, with or without a bitmap: what ZSL itself would write is external.

Scores: in `QueryEval` a score is the tree of additions and multiplications the
code performs, in its order, so that two scores are equal when the code's are,
bit for bit, whatever floats go in; `Feedback` takes any order of the hits for
the ranking; the fusion and the norms are compared exactly, as fractions. The
order of two different floats is never assumed, and never checked.
Words are numbers or short sequences of letters; which words a leaf reaches is a
constant of `QueryEval` and is computed in `TermExpansion`. A file is the
sequence of the values the code writes into it. Widths are scaled down where a
boundary is about them (`Codecs`: bytes of three payload bits, words of eight;
`SegmentFiles`: a word of 16, two documents to a byte of a bitmap;
`TermDictionary`: one index entry in three; `TopHits`, `TermExpansion`,
`FieldNorms`, `Synonyms`, `EngineCalls`: the caps).

Definitions whose comment starts with "Mutation" or "Mutant" are deliberately wrong variants
of the definition that follows them; each one, put in its place, breaks the
property that `PROJECT.json` pairs with it.

## Runs

| Run | Question | Instance |
|---|---|---|
| `writer_calls` | undisturbed: is nothing leaked or listed for ever (`CleanUpExact`), does the ceiling hold (`Ceiling`), is document_count what the commit leaves (`CountExact`)? | five documents (four new), buffer of two, ceiling of two segments, five generations |
| `writer_faults` | crash, failing write, failing removal anywhere: does the writer implement `AtomicIndex`, are the generations in grace complete and frozen, is the proofs' invariant really invariant, does every call return? | three documents, buffer of one, ceiling of one, four generations |
| `readers` | what does a search beside a writer find? | one reader, which opens the index again and again; two documents; crashes |
| `late_reader` | does a search find the documents of its generation or fail (`OpenedExact`)? It does not: see Findings | the same, undisturbed |
| `del_leak` | does a commit supersede nothing, as its comment says (`CommitSupersedesNothing`)? It does not: see Findings | two documents |
| `writer_race` | three writers that contend for the lock, two appends handed off: is a commit lost, does an open writer's snapshot go stale, does a dropped writer delete another's segment? | three writers, two appenders, six generations; every one of them may write |
| `segment_merge` | does the streaming merge write what the batch merge computes (`MatchesBatch`), in the order its writers need (`TermsAscend`, `PostingsInOrder`), and do its loops end? | every pair of segments of up to two documents, three terms, two fields, any deletions; three segments of one document; segments that must be refused |
| `php_writer` | hosts that delete and add a document per key, with errors, panics, retries and re-opened writers: one live document per key (`OneLivePerKey`)? is a promise of commit broken (`PromisesKept`)? does a session write into another's index (`StaysInItsIndex`)? | two objects, two directories, two keys of which one panics in a flush, buffer of two, five additions |
| `power_loss` | does an optimize that returned survive, and does one that did not lose only itself (`OptimizeIsDurable`)? | three calls; entries may reach the disk out of order, a rename takes its content along |
| `power_commit` | does a power loss after commit lose only that commit (`OnlyTheCommitIsLost`)? It does not: see Findings | one call, everything in order |
| `search` | requests of every kind: see below | below |
| `files` | files of every kind: see below | below |

`search` and `files` check one property per module, a conjunction whose named
parts say what is asked:

| Property | Parts | Instance |
|---|---|---|
| `PushdownExact`, `RequestsAnswered` (`Query`) | the evaluation that narrows candidates scores as the plain one; what is found is what the request asks; trees over the bound are refused and no others | two and three documents, deletions; every tree of depth two over three phrases and some deeper; every combination of small where, in, range and match_all parts; a keyword of two words, reached by its first, or by both typed |
| `FeedbackIsSound` (`Feedback`) | `NoHitLost`, `FeedbackStaysFiltered`, `FusionRespectsLists`, `PageFilled`, `LoadsOneCollection` | four documents, up to three terms, limits 0 to 2, depths 0 to 2 |
| `SimilarityIsSound` (`MoreLikeThis`) | `SimilarAreFound`, `CopyIsFound`, `EarlyStopIsSound` | four documents, a deadline after any term, thresholds from 70% to two terms |
| `CallsAreHonest` (`EngineCalls`) | `TreeStaysHard`, `TotalIsHonest`, `AboveTheCountNothing` | each key omitted, at its default and otherwise |
| `AnswersAsOneIndex` (`SegmentedIndex`) | `AnswersByGlobalId`, `FirstTermsOfAll` | up to three segments of up to two documents, an empty one among them |
| `PagesAreTheRanking` (`TopHits`) | `PagesTile`, `HeapHasTheBest`, `TotalIsExact`, `SourceIsNoMatter` | three documents in two segments, four by relevance; offsets and limits past the end, `usize::MAX` |
| `ExpansionIsExact` (`TermExpansion`) | `SpellingsAgree`, `PlainSurvives`, `WithinTheCap`, `CutInRange`, `FuzzyIsExact`, `PhraseIsAdjacent` | words of up to three of three letters; caps of three and four |
| `DictionaryIsExact` (`TermDictionary`) | `LookupIsExact`, `WalksAgree`, `PrefixScanIsExact`, `RangeScanIsExact` | two fields, four texts of which three share a prefix, index interval of three, written either way |
| `SegmentComesBack` (`SegmentFiles`) | `StoredComesBack`, `PositionsComeBack`, `LengthsMatchPostings`, `DeletesComeBack` | batches of two documents with two fields |
| `EachNameHasItsSource` (`CompoundFile`) | a source that changes size cannot corrupt another | three sources, sizes up to two |
| `CodecsInvert` (`Codecs`) | `VintComesBack`, `StringComesBack`, `SkipIsRead`, `PruneIsNumeric` | all integers of eight bits; code points at each width's ends; strings of odd bytes to skip |
| `ManifestIsWhole` (`GenerationFile`) | `ManifestReadsBack`, `TornIsRefused` | four segments, foreign records of either layout |
| `NormsRank` (`FieldNorms`) | `NormIsNearest`, `ShapeIsKept` | all lengths to 1500; collections of five around a sample of two |
| `SynonymsComeBack` (`Synonyms`) | `FirstDistinctKept`, `BlobComesBack` | three pairs, cap of two |
| `NativeIsTheIndex` (`NativeIndex`) | `SegmentIsTheIndex`, `OpensOnlyWhole` | three documents of five |

Bounds: `MaxName`, `MaxGen` and `MaxDelGen` end the sessions (guards of `Open`,
`AddDocument`, `DeleteDocument` and `StartCommit`, marked "Bound"), so that the
system stops when they are reached: deadlock is not checked, and `CallsReturn`
says instead that no call gets stuck. Five generations let an optimize list files, the
next commit reclaim them and one more session follow; names suffice for a
compaction and a merge in a session whose names an earlier crash has used
already; two delGens let a bitmap be based on another. In `WriterRace` each
process writes once, so that `MaxGen` of six cuts nothing off. The segments of
`segment_merge` are enough for a term in one segment, in both, in a deleted
document only or nowhere; for fields in either order, indexed in one segment
only; and, with three segments, for a heap whose keys tie and whose segments
leave it out of order. New documents are interchangeable
(symmetry), in safety runs only.

Fairness. `FairSpec` asks weak fairness of `Continue`, the steps of a call in
progress: the thread that runs a call is not stopped for ever. Nothing is asked
of the caller (it may never call again), and nothing of faults or readers.
`SegmentMerge`'s `FairSpec` asks the same of the one thread that runs the merge
(`Proceed`), and nothing of its I/O errors.

What the race shows. `open` reads the directory three times, `read_generation`,
`ZslIndex::open` and `read_segment_infos`, and nothing compares the answers:
`SnapshotStays` says they agree, and stay the current generation until the
commit, which the extension's cached reader relies on (`src/sdsearch-php/src/lib.rs:777`).
The order in `Drop`, flushed segments first and the lock after, matters too:
`FlushedStays` fails the other way round, since the next writer uses the same
names.

What the readers show. A reader that meets at most one flip opens the index and
finds exactly the documents of the generation it read, wherever its reads fall
between the writer's steps (`InTimeOpens`, `InTimeExact`): this is the window
that prune and deferred reclamation keep open. A later one may fail, and never
misses a live document (`NoDocumentMissed`); it may find deleted ones.

## Findings

* `del_leak`. `commit_inner` gives a segment it deletes from a new bitmap and
  hands `process_pending_deletions` an empty list; "This add-only commit
  supersedes nothing, so it records no new files"
  (`zsl/writer/index_writer.rs:324`). The previous bitmap of the segment is
  superseded, and stays on disk even after the segment is merged away.
* `late_reader`. A bitmap that is gone by the time the reader looks for it
  counts as no deletions (`zsl/segment.rs:198`), while the manifest says which
  bitmap there is and "`-1` = none" (`src/docs/FORMAT.md:278`). A search
  overtaken by two flips between a segment and its bitmap finds deleted
  documents.
* `power_commit`. `write_atomic` counts on it that "a commit lost to a power cut
  is re-indexed on the next run" (`zsl/writer/durability.rs:16`). The incremental
  commit syncs neither its segment nor its manifest: even on a file system that
  keeps every order of data and entries within a file, a power loss can keep the
  new `segments.gen` and lose what it leads to. The index no longer opens: more
  is lost than the commit.

### Other differences seen while modelling

Each of these is a disagreement between the code and a comment, a doc or the
reader's expectation that the models reproduce and that no run isolates; the
properties above are stated so that they hold beside them.

* `append_documents` (`zsl/writer/mod.rs:162`) takes no lock: an append beside an
  open writer loses one of the two commits. The lock is said to exclude "another
  native writer AND ZSL" (`zsl/writer/lock.rs:5`); the function's own comment
  promises no more than "sequential handoff", which `WriterRace` takes as the
  constant `Handoff`. The extension does not export it; an example does.
* `lexical_search` "falls back to an all-fields Boolean over the text when the
  primary result is empty" (`zsl/runner.rs:17`); nothing in it does
  (`zsl/runner.rs:24`).
* The prefix wildcard over a text of several words is "a no-op for multi-word input,
  where no indexed term spans the space" (`query.rs:739`, and `search.rs:285` after it).
  Analyzed terms do not, but the wildcard goes to all fields, and a keyword is indexed
  as it is, blanks included (`zsl/writer/invert.rs:111`): a typed `in pro` finds the
  keyword `in progress`. `WildcardTerms` and `TextWants` follow the code.
* A document that `add_document` refuses (`src/sdsearch-php/src/lib.rs:954`) is not
  buffered, one whose flush fails is: an exception does not tell the caller whether the
  document is in the session. A host that deletes, meets the first and commits has
  lost the document; one that meets the second and adds it again has it twice.
* Whether a sort reads a table of terms or stored values "only picks where values
  come from, never results" (`search.rs:632`); for a field whose terms are not its
  stored value, one of several words or of several values, the results differ.
  `SourceIsNoMatter` is about fields of a single keyword.
* commit and optimize of the extension return the documents added
  (`src/sdsearch-php/src/lib.rs:978`), which the stub calls the count.
* `try_open` returns `false` "WITHOUT leaving a writer open"
  (`src/sdsearch-php/src/lib.rs:858`); an earlier writer of the same object stays.
* "fsync is added only on the optimize() flips" (`zsl/writer/durability.rs:2`), yet
  the rename of `segments.gen` in optimize is not preceded by a sync of its content
  (`zsl/writer/segments.rs:380`): `power_loss` assumes `DataOrdered`, a file
  system that writes a file's data before a rename of it; without that the flip
  itself may be torn.
* A field added twice to one document: `stored_value` and `stored_fields` answer
  different ones of the two values, where a test says they are equal
  (`zsl/segment.rs:458`), and the positions of the second start again at 1, so
  that a term's positions do not ascend (`zsl/writer/invert.rs:23`, `:99`).
* `read_vint` refuses "more than 64 bits of payload" (`serialize.rs:21`) from the
  eleventh byte on; the bits of a tenth byte beyond the 64th are dropped.
* The sample of lengths is "bounded to at most" its cap (`index.rs:118`); its stride
  is `n / cap` rounded down (`index.rs:130`), so that almost twice as many are read.
* `occur` is said to default to `should` (`src/docs/API.md:174`); a request without
  it is refused (`src/sdsearch-php/src/lib.rs:33`).
* A min_should_match above the count of terms "matches nothing"
  (`src/docs/API.md:323`); a percentage above 255 is no `u8`, and is dropped
  (`src/sdsearch-php/src/lib.rs:347`).

## Proofs

`IndexWriterProofs` proves, from `ConstantsAssumption` alone (naturals for the
bounds, `NoFile` different from any content), for every set of documents, every
buffer size, ceiling and set of faults:

* `TypeCorrect`: `Spec => []TypeOK`;
* `IndInvHolds`: `Spec => []IndInv`;
* `GraceCompleteHolds`: `Spec => []GraceComplete`;
* `GraceFrozenHolds`: `Spec => GraceFrozen`.

`GraceComplete` is not inductive: it says nothing of the files a session has not
published yet, or of those listed for removal. `IndInv` adds, in named parts,

* `DirInv`: names below the counter, counters and delGens that only grow from
  the previous manifest to the current one;
* `SessionInv`: a session before its flip builds on the current manifest, and
  what it flushed is above that manifest's counter;
* `BuildInv`: by the time of the flip every file of the new manifest is written;
* `CleanupInv`: listed files belong to segments the current manifest no longer
  has, and, from the flip to the reclaim, nor has the previous one.

The proof has one lemma per part. `StepKeepsGrace` is the heart: every step but
the flip leaves the generations in grace as they are, because it touches a new
name, a new bitmap, a newer manifest, an older one or a retired file;
`FlipDirInv` then shows that the flip turns a written manifest into a sound
generation. `GraceFrozen` follows from the same lemma.

Its second part proves, from `ConstantsAssumption` again, that the writer
implements the atomic index, whatever fails and whenever:

* `WriterIsAtomic`: `Spec => ImplementsAtomic`;
* `CountExactHolds`: `Spec => CountExact`.

`IndInv` says that the files of a manifest are there; `AtomicInv` adds what is in
them: no document is in two segments of the index or the session (`SegmentsApart`,
`StagedApart`), the buffer is empty once it is flushed (`Emptied`), the new bitmaps
mark the old deletions and the session's (`MarkedInv`), the merged segment holds
what the base showed (`MergedInv`). Every step but the flip keeps what is visible,
because it keeps the generations in grace (`StepKeepsGrace` again); `FlushMaps` and
`CleanMaps` show that moving and removing segments stages nothing,
`CommitPublishes` and `MergeShowsTheSame` that the flip is the atomic step or
none. `CountExact` is then a matter of cardinalities.

`IndexWriterProofs` ends with what needs `Faults = {}`, from `ConstantsAssumption`
and `WriterAssumption`: `CleanUpExactHolds` and `CeilingHolds`. `NoStray` names what
every segment on disk is there for, step by step; `ListInv` says that between two
flips the sidecar is empty or lists the files of the generation before.

`WriterRaceProofs` proves, for any number of writers and appenders, from
`RaceAssumption`, `RaceNoFile` and `Disciplined` (appends are handed off, or
there are none), `RaceIndInvHolds`, `NothingLostHolds`, `SnapshotStaysHolds` and
`FlushedStaysHolds`.
`RaceInv` says that at most one process is inside, that the lock and the process
inside go together, and what the process knows of the disk (`Knows`): since no
other process is inside, no step but its own can change it.

`SegmentMergeProofs` proves that the streaming merge is the batch merge:
`MatchesBatchHolds`, with `CursorsInSyncHolds`, `TermsAscendHolds` and
`PostingsInOrderHolds`, for every list of segments of any length. It asks of a
segment what every reader of one relies on (`SegmentsAssumption`): numbers for
terms, a dictionary in order with each term once, postings of the segment's own
documents. `MergeInv` follows the phases, each against a part of `Batch`:

* the fields united one by one are `FirstSeen`, each indexed if any segment says so
  (`FieldsSame`, by induction on the fields);
* `DocsCopied`: stored values, norm columns and doc maps are what the live documents
  before `at` leave, in order (`SoFar`); `CopyDoc` gives a document the number of
  live documents before it, which is its `NewId`;
* `Cursors`: the heap holds the term each cursor is at, all above what any cursor is
  past; `Gathered`: the TermInfos gathered are those of the term, of every cursor
  past it;
* `Written`: the dictionary is that of the terms every cursor is past (`Passed`), less
  the one being gathered. `PassedSame` shows that taking a key passes only its term,
  `CursorsEmit` that a term is complete when the top of the heap is another;
* `Complete`: with an empty heap every term is passed.

The step from one to the other is `GatheredIs`: concatenating, segment by segment,
the live postings of a term gives its documents in the order of the merged index
with their new ids. It rests on `Flattened` (what a concatenation has, and in which
order) and on `OneList` of `OrderedLists`: a finite set is listed in a strict order
in one way only, so two loops that list the same documents in order wrote the same.

The last part is about readers, for any number of them beside a writer with any
faults: `NoDocumentMissedHolds`, `InTimeOpensHolds` and `InTimeExactHolds`. A
reader goes by a `Past` manifest: its names are below the counter and its delGens
at most the current ones, so that no later session writes one of its files again.
They can go, which makes the open fail or shows deleted documents, but they cannot
change (`Left`, `Opening`); and while the manifest is in grace they cannot go
either (`Timely`).

`PhpWriterProofs` proves, for any number of objects, directories, keys and
additions, from `NamesAssumption` (`NoOne` is no object, and the names of the
model's own are no keys or directories), `OneLivePerKeyHolds`, `PromisesKeptHolds` and
`StaysInItsIndexHolds`. `WriterInv` says, in named parts, that an open session and
the lock of its index go together (`LockInv`), so that nothing but its own commit
changes the index it was opened on (`BaseInv`); that every index has one live
document of a key (`DiskInv`); and what a session has done so far with the keys
its host has replaced: new documents are one for each of them, and none where the new
one was refused (`NewInv`), what the base has of them is deleted either way and nothing
else (`DelsInv`), and the document the host has just found is the one it deletes next
(`TurnInv`). What is promised of a refused key is withdrawn (`Withdrawn`) when a commit
publishes the deletion, and only then. A panic or an error leaves
the session behind this invariant, in a host that no longer trusts it or in one
that drops it. `Compacted` is recursive over the rows; that it keeps the live ones
and their order is proved by induction on their number.

`NaturalInduction` of `OrderedLists` is how: a set of naturals that has 0 and every
successor has them all (`WFMin` gives the least number that is missing). Stated with a set in
the place of a predicate, it can be cited like any lemma, and recursive functions
can be reasoned about: `Compacted`, in `PowerLoss` `FoldSet` and `Disks`, and in
`SegmentMerge` `United` and `FlattenSeq`.

`PowerLossProofs` proves `OptimizeIsDurableHolds`, for any number of calls and of
power losses, whether or not directory entries reach the disk in order
(`MetadataOrdered`), on a file system that takes the content of a file along
with its rename (`DataOrdered`): `segments.gen` is renamed without an fsync of its
content, and without `DataOrdered` the property is false. `PowerInv` goes by
`Hist`, the directories since the last sync:

* `SoundDir` and `PendingInv`: every manifest lists the newest segment, which has the
  number of its generation plus one (each flip takes one of either); what is listed
  for removal is older;
* `Committing`: the steps of a commit (`CommitShape`) and where it has come
  (`CommitStage`). It has promised nothing: it is enough that what it leaves, if it
  can be read, are the documents asked for;
* `Merging`: of a merge, its steps (`MergeShape`) and which of the new files are in
  every directory of `Hist` and safe (`MergeStage`): the segment from its sync on, the
  manifest from the next, `segments.gen` from the last. Until then the files of the
  old generation are (`OldStays`): nothing is removed before the flip is synced.

`AfterPowerLoss` relates what is left to `Hist`: a file comes from one of its
directories, and one that is safe in all of them is there. The current generation
is then either the new one or the old one, and whole (`NewSurvives`,
`OldSurvives`).

`FileProofs` proves `EachNameHasItsSourceHolds`, for any number of sources of
any size and any file that changes at any moment. `CompoundInv` is short: until a
copy failed, each item of the data is a source of the length that was measured,
and the directory is made of these lengths. The rest is arithmetic: the offsets
are a running sum (`OffsetsStart`), the data a running concatenation
(`FlattenJoins`), both recursive functions whose existence is `Recursion`, and by
`Layout` each source is in the data where its offset says.

It also proves `ManifestIsWholeHolds`, for any list of records another program may
have left in either format, any commits and any merges. It rests on
`ForeignAssumption` only: document counts are naturals, delGens are naturals or none, a
doc store is absent or takes two words (its segment, its flag), and `numField` is any
integer, so that manifests the writer refuses are among them. `ManifestInv` says that
there are records of which the manifest consists, one after another behind its header
(`IsManifest`, `LaidIn`), and which are those of `segs`. `ManifestIsWhole` alone is not
inductive: it says what a reader finds, not where the writer's next patch will land.

* `WalkIs`: the writer's walk finds the delGen of each record and the end of all;
* `PatchedIs`: patching at these places gives the records with the new delGens, word
  for word, and moves none (`RecordsApart`: no two records share a word);
* `ReadIs`: of any front of a manifest that has the header, the reader finds all
  segments if nothing is missing and every `numField` is none, and else refuses. A
  record of which the end is missing is never taken for one that fits
  (`RecordAt`): the words past the end read as 0, which is not none.

`WalkSteps` and `ReadSteps` give the recursive functions of both loops their steps,
from `Recursion`, as for the offsets above.

`SearchProofs` proves `PagesAreTheRankingHolds`, for every index, every scores and every
request, from `RequestsAssumption`: terms and stored values are numbers, a field
to sort by is a keyword (the terms of a document are its stored values), scores
are integers, offset and limit are `usize`, and so is the number of documents
scored. Where the segments lie (`BasesRise`, `Located`, `JoinedRows`) follows from
`SumOf` and `FlattenSeq` by induction on the segments; from it, that the table of a
field has the stored value of every id (`TableIsStored`), so that every key is one
(`KeysAreStored`) whichever way the page was read. Then

* the comparator of entries and the one of scores are the order of `Rank`
  (`EntryIsRank`, `ScoreIsRank`), a strict order on the matches (`RankOrders`), which
  `FullOrder` lists;
* `HitsInvariant` says that the pages shown are the ranking from the client's first
  offset to where the next page starts (`Cut`) and, while the matches are walked,
  that the heap has the best of those walked, as many as are needed (`TheBest`).
  `HeapHasTheBest` alone is not inductive: it says nothing of what has been shown or
  counted, or of how full the heap may get;
* `KeepsTheBest` is the step of the heap: what it lets go is after all that it
  keeps, and an entry it turns away is after the worst it has;
* a page cut from the first of the ranking continues what was shown (`FirstOfList`,
  `PageOf`, `CutMore`), also where `offset + limit` saturates: there are no more
  than `MaxUsize` matches.

`SearchProofs` also proves `AnswersAsOneIndexHolds`, for any number of segments of any
size with any deletions, every field, term, range, set of terms that is a prefix
and limit, from `IndexesAssumption`: an index is a sequence of segments, terms and values
are numbers, `MaxLimit` is one. An answer is given
once and stays, so that the work is in the operators, each compared with the row
of all documents (`RowAt`: global id `b + d` is document `d` of the segment that
starts at `b`):

* postings: `PostingsOfAll`, the segments' lists, each shifted by its base, joined,
  are the ascending list of the whole, because a list that rises within each segment
  and from one segment to the next is the only one of its members;
* document counts: `DocFreqOfAll`, by induction on the segments, as cardinalities of
  disjoint sets; positions: `PositionsOfAll`, stored values: `DocumentOfAll`;
* the first terms of a prefix: `PrefixOfAll`. A term is among the first `n` of a set
  when fewer than `n` members are less than it (`LowOf`); one that is among the first
  of all is among the first of each segment that has it, so a limit per segment
  loses none.

Left to TLC: everything of the modules over `QueryEval` (its evaluation is
recursive over query trees), the other modules of files, whose properties compare a
reader's loop with a writer's over bytes or dictionaries, and `CallsReturn` and `Returns` (liveness is out of
the prover's reach).

## Plan

Done: the writer, its readers, the abstract index and the grace-window theorems;
the lock, several writers and the batch append; the segment merge; the
extension's `Writer` and `Engine`; power loss; queries, ranking, feedback,
similar documents, expansion; the files; the refinement `Spec => Atomic!Spec`;
the theorems about `PhpWriter`, `PowerLoss`, `CompoundFile`, `GenerationFile`,
`TopHits`, `SegmentedIndex` and the whole of
`SegmentMerge`.

## Not modelled

Floating-point rounding (see Abstractions), the character tables of analysis,
the JSON and PHP conversions that only rename values, memory mapping, benches,
examples and PHP tools. TLC runs one reader at a time: readers share nothing, and
the theorems are about any number of them. Concurrent searches in the extension: a PHP
request runs one at a time, and `Engine` keeps no state.

Three limits of runs named above. `Ceiling` and `CleanUpExact` are stated
without faults: while every compaction fails nothing bounds the segments of a
session, and what happens to files whose removal fails is in `writer_faults`
(`IndInv`, `GraceComplete`, `GraceFrozen`). `NativeIndex` writes into an empty
directory, as "build-once" (`index.rs:219`) has it; a second `write_to` over an
older index, which may leave new files beside old ones, is not modelled.
`WriterRace` keeps appends and writers apart (`Handoff`), as the comment of
`append_documents` asks; without that one of two commits is lost.

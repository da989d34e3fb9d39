# A verification of resident

resident is an audio-fingerprint engine: it extracts fingerprints from audio
(`core/src/extract.rs`), keeps them in an immutable, generation-based store
(`core/src/store.rs`), answers queries about shared audio
(`matcher.rs`, `span.rs`, `passage.rs`) and does all of it from a command
line, a line-oriented daemon and a batch tool (`resident/src/`). This directory
holds TLA+ models of the parts where order, failure and sharing matter, the
TLC configurations that check them and TLAPS proofs about them. Line numbers
below are of this commit.

## 1. Inventory

| Component | State it keeps | Operations | What is hard |
|---|---|---|---|
| **Generation store** `core/src/store.rs` | a root: `CURRENT`, `generations/<id>.json`, `shards/<nn>-<digest>.bin`, and their temporaries; in memory a `Store` of mapped shards | `build`, `ingest`, `retire`, `rehash_identities`, `set_durations`, `open`, `forward`, `lookup`; inside them `rebuild_changed_shards`, `write_shard`, `publish_manifest`, `garbage_collect` | a kill or an I/O error between any two file operations; readers of other processes that hold no lock; shard files shared by several generations; resource ids across ingests and retirements |
| **Daemon executor** `resident/src/daemon.rs` | `RwLock<Option<Arc<Store>>>`, a writer `Mutex<()>`, stdout behind a mutex, rayon's global pool | `run`, `process_line`, `handle` for each verb | every line is a task; a worker that waits for a parallel section runs another task on top; publication and swap of the `Arc` are two steps; the reading loop is itself a task |
| **Batch re-fingerprinting** `resident/src/refingerprint.rs` | an output directory: manifest digest, `<id>.tdb`, `<id>.meta`, `failures.jsonl`, `*.partial`; a rayon pool of `--jobs` threads | `run`, `pin_manifest`, `completed`, `process_one`, `atomic_write` | kills anywhere, then another run of the same or another manifest; some files that do not decode; nested work stealing |
| **Extractor** `core/src/extract.rs` | a spool file, an ffmpeg child with two pipes, the thread-local FFT scratch, an event stream with a sliding window | `extract_audio`, `extract_audio_streaming`, `extract_pcm`, `extract_chunks`, `EventStream`, `EventPacker` | two pipes drained one after the other; a child that fails late; scratch borrowed on a thread that steals; chunk boundaries must not show in the result |
| **Matcher** `core/src/matcher.rs` | none, pure | `match_restricted`, `vote_lines`, `vote`, `modal_delta` | degenerate clouds, ties, a division by a time difference of zero, peeling of several lines |
| **Spans and crosschecks** `core/src/span.rs` | none, pure over stores | `span_between`, `crosscheck_between`, multi-line variants, `region_prints` | windows at the ends of the time grid, ordering, cross-store compatibility |
| **Passages** `core/src/passage.rs` | none, pure over segments | `passages_between`, `discover_passages_between`, `stitch_tracks`, `passage_from_track`, `support_from_hits`, `partition_passages`, `same_audio_passage` | regions overlap, so hits repeat; clocks that jump; greedy division into primaries and alternates; two loops that must agree |
| **Store comparison** `resident/src/ab_compare.rs` | none, pure over two stores | `run`, `compare`, `compare_question` | pairing of answers |
| **Dump and duration files** `core/src/dump.rs`, `resident/src/durations.rs` | none | `load_dump_dir`, `load_metadata`, `load_prints`, `load` | a line-based format read back by a resumed batch |
| **Time grid, errors, mapping** `config.rs`, `error.rs`, `mmap_view.rs` | constants; a mapped file | `bins_to_seconds`, `seconds_to_bin` | conversions at the boundaries |
| **Command line and validation lanes** `main.rs`, `verify.rs`, `extract_verify.rs` | none | the commands above; comparisons with golden files | floating-point tolerances, nothing that runs concurrently |

How they interact. The command line and the daemon call the store; each writing
operation opens the store, prepares the changed shards, publishes a manifest by
renaming `CURRENT`, collects what is neither current nor its predecessor, and
opens the result. The daemon keeps one opened store in an `Arc`; queries clone
the `Arc` and work on that snapshot, while a write publishes under the mutex and
swaps the `Arc` afterwards. `extract` and `enroll` run the extractor inside a
request task, and its parallel sections use the pool that also runs the
requests. The batch calls the same extractor from its own pool and writes dump
files, which an ingest later loads. Other processes (commands, other daemons)
open the same root at any time, with no lock.

What makes each component correct:

* store: a published generation can always be opened, and so can the one before
  it; a request takes effect as a whole or not at all; lookups find exactly the
  postings of the stored resources and attribute them to the right one; disk use
  is bounded by two generations; a reader is not broken by a publication;
* daemon: every line that was read is answered exactly once; nothing a stolen
  task may want is held across a parallel section; queries never see the store go
  backwards and see every write acknowledged before they were sent;
* batch: metadata means that the prints are complete; a directory belongs to one
  manifest; each resource is produced once; a finished run reports exactly what
  is missing; the next run is accepted and completes the rest;
* extractor: no deadlock with its child; the result is independent of chunking;
* matcher, spans, passages, comparison: boundary cases, order-independence and
  agreement with their definitions.

`PROJECT.json` lists the hazards at their lines.

## 2. The modules

| Module | Models | Reads with |
|---|---|---|
| `Shards` | what `write_shard` puts in a file and what `Shard::forward` and `Shard::lookup_range` read back, as operators | – |
| `Catalog` | the abstract store: a map from keys to resources, changed by each request in one step or not at all | – |
| `Store` | `store.rs`: the root on disk, one writer, one lock-free reader; implements `Catalog` | EXTENDS `Shards`, INSTANCE `Catalog` |
| `Daemon` | `daemon.rs` and rayon's scheduling of it; a store is the number of its publications | – |
| `Batch` | the abstract batch: one manifest, each resource produced once and as a whole, exact reports | – |
| `Refingerprint` | `refingerprint.rs` and the pool; implements `Batch` | INSTANCE `Batch` |
| `Lists` | selections, a stable sort and small arithmetic that the modules below share | – |
| `Matcher` | the voter of `matcher.rs` as operators: hits, modes, the line, what peeling leaves | EXTENDS `Lists` |
| `Query` | `match`, `span`, `crosscheck` and the lines of `passages` and `discover` (`matcher.rs`, `span.rs`, `config.rs`): regions, then one task for each region and resource | EXTENDS `Matcher` |
| `Partition` | `partition_passages`: primaries, alternates and their owners | EXTENDS `Lists` |
| `Passages` | `passage.rs` from the lines of a reference on: tracks, support, passages, partition, same audio, pair and discovery | EXTENDS `Partition` |
| `Decode` | `extract_audio_streaming`: ffmpeg, its two pipes, the spool and the thread that reads them | EXTENDS `Lists` |
| `Extract` | the spool by chunks, the event stream and the packer, against the whole file | EXTENDS `Decode` |
| `StoreProofs`, `StoreContentProofs` | the theorems about `Store` of section 5, in two layers | the first EXTENDS `Store`, the second the first |
| `DaemonProofs`, `RefingerprintProofs`, `QueryProofs`, `PassageProofs`, `ExtractProofs` | the theorems of section 5 | EXTEND the module they are named for |
| `SharedLemmas` | sequences used as stacks; least and greatest elements; finite sets; what a recursion over an interval keeps; sums over finite sets; selections, parts, concatenations and sorts of lists, and how often an element occurs in them; what determines a list or a run | EXTENDS `Lists`, `TLAPS` |
| `MCStore`, `MCDaemon`, `MCRefingerprint`, `MCQuery`, `MCPassages`, `MCExtract` | the small instances TLC checks | EXTEND the above |

### Store

The writer is a program counter `pc`. `Submit` (a command of `main.rs` or a
request of the daemon) is followed by `Ingest`, `Retire`, `Rehash` or
`SetDurations`: the part of the operation that reads the opened store and
decides. It ends with an answer, or with a manifest in preparation (`target`) and
the shards to rebuild (`todo`). `WriteShard` creates the temporary with
`create_new` (or reuses the file of that name), `FillShard` syncs and renames it;
`WriteManifest`, `RenameCurrent`, `CollectRoots`, `CollectGenerations` and
`CollectShards` are `publish_manifest` and `garbage_collect`; `Reopen` is the
`open` that ends each operation. `Stop` is an I/O error or a kill at any point,
and forgets everything in memory. Two errors do not stop a publication, and the
model has both outcomes of each: a read of `CURRENT` that fails counts as no
predecessor (`.ok()`, store.rs:1042-1045; `WriteManifest`), and a retained
manifest that cannot be read is passed over (`if let Ok`, store.rs:1071-1075;
`CollectRoots`), so that the collection does not spare its shards. The history
variable `overlooked` says which of the two generations this happened to. The
reader has the three steps of `Store::open`: `CURRENT`, the manifest, each shard
in turn.

SHA-256 is injective, so a generation's name is the value that the code digests,
and a shard's name is its number and members. `generation_id_from_infos` does not
digest `forward_start`, nor does `Generation`. The bytes of a shard file are its
members' postings in the order `(resource_id, t, hash)`; `PostingsAt` reads one
position of that order, and `ForwardReadable` is the check of
`Shard::forward` (store.rs:845). The history variable `rollback` is the generation
that `CURRENT` named before the present one, and `reader.age` counts the
publications that overtook a reader.

`ImplementsCatalog` maps this to `Catalog`: the catalog is what the manifest
named in `CURRENT` lists, and a request is pending until the rename.

### Daemon

Each worker has a stack of tasks. A task in `"compute"` or `"transform"` is
inside a parallel section, so its worker may `Take` a queued line on top of it:
rayon does this in `join` and in parallel iterators. The scope body
(`Stdin`) reads lines until end of file and waits afterwards, so it steals only
then. A decode ends, fails or hangs (`DecodeAudio`; section 6 says how it can hang),
and with it its worker. The four kinds of line stand for the verbs by what they lock: `read` (query
verbs, `ping`, `stats`), `write` (`ingest`, `retire`), `extract` (`extract`) and
`enroll` (extraction, then an
ingest under the writer mutex, daemon.rs:422). A task that waits for a lock waits
for it in its action's guard. `acked` remembers which writes were acknowledged
when a line was read.

### Refingerprint

A run pins or compares the manifest (`PinManifest`, `Bind`), scans what is
complete (`Scan`), works the queued lines off on the pool, and ends in `Collect`
and `WriteFailures`. `PublishPrints`, `WriteMetadata`, `PublishMetadata`,
`SyncDirectory` are the tail of `process_one`. A decode may fail for any file, since
ffmpeg may not start or be killed; a file outside `decodable` never succeeds. `Kill`
stops a run anywhere and `Repair` makes an audio file decodable between runs. A thread whose bands are
being mapped by another (`Help`) is free to take another file on top.
`ImplementsBatch` maps the directory to `Batch`: a resource is produced when its
metadata is published.

### Query

A client sends a script of requests, one after the other: requests do not share
state, since a query works on an opened store, so nothing is lost by that.
`Refuse` is what the handlers refuse before they read a print; `StartRegions`
converts the window, `NextRegion` is the loop of `region_prints`, `VoteLine(task)`
is one round of `vote_lines` (or the only vote of the default) and may interleave
with the rounds of other regions and resources as rayon does; `Answer` collects,
ranks and truncates, and the four paths (span or crosscheck, one line or all)
differ there as in the source.

`Matcher` keeps what decides an answer: duplicated hashes, which count as often as
they occur with the time of the last occurrence; the order in which Java's hash
maps would enumerate, with their growth; the stable sorts; and the tests on the
line. A line is a pair of points and the tests are inequalities between integers,
where the source has `f32`; two frequencies are near or not. A time is a bin, and
a second is counted in ticks, of which a bin has `Step` and the latency `Latency`.
`RoundedBins` are the bins whose second the conversion back takes for the next bin
(config.rs:44 divides in `f64` and takes the ceiling); in the code about one in a
hundred, here any set.
The constants (`MinHits`, `Second` and so on) are the source's, scaled down in the
`.cfg`. Keys are numbers in the order of the strings. A store whose ranges cannot
be read (finding 1) is not among the worlds.

`passages` and `discover` take their lines from `span` and `crosscheck` with
another geometry: windows of `WindowBins` every `HopBins`, always all lines, no
`k`. `RegionStop`, `NextStart` and `NaturalStart` differ for them as
`PASSAGE_GEOMETRY` does.

### Passages

A world is resource a, its references and the lines `Query` would find of each;
lines are given here, so that gaps and jumps can be chosen. `Ask` decides the
references, `Open` takes the next one in the order of the fan-out, `Place` puts
one line on a track, `Build` makes the passages, `PartitionPassages` divides them
one by one, `Close` makes the match and `Answer` ranks the matches. A time is a
tick and a factor an integer number of steps, so the limits are the source's scaled
down. A passage's id is the digest of its support: here any order of supports,
`Digest`. Evidence histograms and labels are left out, raw segments are kept, since
`include_segments` decides whether they are shown.

### Decode and Extract

`Decode` has two processes. `FfmpegWrites` and `FfmpegComplains` go on as far as
their pipe has room, `FfmpegExits` and `FfmpegIsKilled` end it; the thread copies
stdout (`CopyStdout`), then waits with the messages (`WaitWithOutput`), then checks
status and parity (`Validate`). `SpoolFails` is an error of the spool
while ffmpeg runs.

`Extract` goes on where `Decode` ends: `ReadChunk` makes the rows of one chunk with
its context, `PushRow` is `EventStream::push` with what it gives to the
`EventPacker`, `Finish` flushes. The filter bank is external: `level` is the
magnitude a band has at a sample, and a frame without its context gets another
one, so a chunk that reads too little shows. All else is the code's: the frames of a
core and the last chunk's remainder, the queue of the running maximum with its two
paddings, the test for an event, the packer's window, the hash of a landmark and
the order in which landmarks are emitted. `Whole` says the same of the file as one
piece and by exhaustive search, as the test helper `event_points` does.

## 3. What the runs check

| Run | Instance | Question |
|---|---|---|
| `store` | 2 shards, 3 keys (two share a shard), 2 contents, 3 requests, ids to 4, one reader | all safety properties of the store, and the refinement of `Catalog` |
| `store_unread` | same | finding: a failing read makes the collector remove the shards of the generation just published |
| `store_forward` | same | finding: ranges recorded at ingest may be unreadable |
| `store_leftovers` | same | finding: a leftover temporary makes the retry fail |
| `daemon` | 2 workers, one line of each kind, no store at the start | locks, freshness, answers; every line is answered, unless a decode hangs |
| `refingerprint` | 2 threads, three manifests (3 lines, 1 line, and 1 line with a key that breaks its line), 2 audio files, 3 runs | the batch's safety properties and the refinement of `Batch` |
| `refingerprint_jobs` | 3 threads, 4 lines | finding: more extractions in progress than jobs |
| `query` | 48 libraries of 2 resources against one probe of 9 prints (and a store with another configuration), 6 scripts; the bins 2 and 14 of 16 are rounded | windows, peeling, overlapping regions, and the agreement of the query paths |
| `query_window` | same libraries, 4 windows at the start of the time grid | finding: a window that ends before the first timestamp has no end |
| `passages` | up to 3 of 13 lines of one reference, 2 sets of lines of another, a itself as the third; a pair and two discoveries | every hit counts once, support has no holes, the partition, and discovery against the pair |
| `passages_holes` | same | finding: support with a hole on b's clock |
| `extract` | 52 files of up to 64 samples in chunks of 16, 7 bands, a pipe of 40 bytes | the stream emits what the whole file gives, in bounded memory; the decoder ends unless messages fill a pipe |

Why the bounds are enough. *Store*: two keys in one shard and one in another are
needed for every case of `rebuild_changed_shards` (kept members, rebuilt and
untouched shards); the identities of contents matter only for equality. Three
requests, where a store of an older version counts as the outcome of one, are two publications
over an existing one, hence the collection of a generation and of its shards, the
reuse of a freed id (`MaxId` is reached), the retry after a stopped request, and
a reader overtaken twice. *Daemon*: of two workers one holds the scope body; until end of
file the other does all the work, task upon task, and after it both do, so that two lines are
worked on at once with others suspended below them. More than two lines at once are left to
the theorems, which are about any number of workers. *Refingerprint*: three lines on two
threads make one thread work on two files; three runs are a killed one, a foreign
one and the one that completes. *Query*: the probe has two prints in one bin, a
repeated hash, a region without prints and prints in the last two bins; the first
resource holds a part of it twice and near copies, so up to two lines are
accepted in one region and ties occur; the second has hashes the first lacks,
which changes the size of the hash tables, and a copy that drifts, whose line has
a slope; windows start and end at seconds of rounded bins and of others, and are cut at
both. *Passages*: the pool has a long line and its copy from the next region, lines
within and beyond each limit of offset, gap and factor, two that jump back, one of them
by more than the hit gap, one with a hole on one clock only, and lines weak and strong enough to be alternates,
primaries and ties; two lines make a track, three make a track and a rival.
*Extract*: files of one to four chunks with whole and broken last chunks, those that
are too short for one event, levels with plateaus, ties and silence, peaks at the
borders of chunks and of the row; bands that have no value in every other frame;
filters of 3 frequencies and 5 frames; a landmark of at most four frames, so that the
packer's window spans two chunks. A message more than a pipe, a message less, an odd
byte, no bytes and a bad status each meet each other.

`CHECK_DEADLOCK FALSE` is set (not for `Query` and `Passages`, whose end is the step
`Done`) where a behaviour may really end: the client sends no further request, the
daemon's process ends, nobody runs the batch again, an extraction returns. In
`extract` it also covers what section 6 reports, the decode that hangs.

`MaxRequests`, `MaxRuns`, the sets of lines and of files and the scripts are the only
bounds on behaviours; the theorems hold for any value of them.

## 4. Fairness

`Store` and `Refingerprint` state safety only: a process may be killed at any
time. `Daemon` has liveness. Each worker is weakly fair (`WF_vars(Run(w))`): the
operating system schedules threads, and a rayon worker with a task runs it. What
has been decoded is a spool file, which has finitely many cores, so
`FinishExtraction` is strongly fair: a thread does not loop through `NextCore` for
ever. Nothing is assumed of ffmpeg: `DecodeAudio` is a step like the others, and one
of its outcomes is a line that is hung for good. `EveryLineIsAnswered` promises
nothing once there is one, since it may be the only worker that is left, or the
reader of the lines. Nothing is assumed of the client either: `Client(w)` has no
fairness, it may be silent with stdin open, and `EveryLineIsAnswered` holds all the
same with two workers (with one it does not, section 6). The
writer mutex needs no fairness of its own beyond that: the bounded number of
lines bounds how often it can be lost.

`Query` assumes no fairness. That requests end is `EveryStepIsProgress`: no step
goes back to an earlier region or repeats a vote, and a measure of bins, hits and
open tasks falls until the answer.

`Extract` assumes of `Decode` that both processes are scheduled: ffmpeg's own steps
together and the thread's steps together are weakly fair (`DecodeFairness`). A kill
and an error of the spool are not fair: they need not happen. `DecodeEnds` says that
this is enough for every file whose messages fit in a pipe.

## 5. What is proved

The proof modules hold for every value of the constants that satisfies the
named assumptions; TLAPS checks them to the last leaf. `SharedLemmas` has what
several of them need: sequences used as stacks (`Pushed`, `Popped`), least and
greatest elements, induction over finite sets, and two facts for which the library
would take an operator as a parameter: `RecursionKeeps` (a function defined by
recursion over an interval stays in a set if each of its steps does) and
`SumByElements` (a sum over a finite set grows by what each element adds). Both come
from the least element at which they would fail. `RecursionExists` adds that the
recursive function is there at all, and with the two follow what the functions of
`Lists` make of a list: `ElementsAtAreElements` (a selection keeps the order and
takes each chosen element), `FlattenedIsList` and `SortingIsPermutation` (a stable
sort by a weak order is a permutation in that order). Its last part says what
determines a list: its members and a strict order (`EnumerationIsUnique`), hence
a stable sort is the only one (`SortedIsSorted`), and to sort and select is to select
and sort (`PartOfSorted`); and for two runs, that they begin, go on and end alike
(`RunsAreTheSame`).

**`StoreProofs`** – for any keys, number of shards, requests and ids
(`KeysAssumption`, `ShardCountAssumption`, `ShardOfAssumption`,
`LimitsAssumption`): the published generation can be opened
(`PublishedStaysComplete`), so can the one it replaced (`RollbackStaysComplete`),
both unless the writer could not read what the collector goes by (`overlooked`),
and a publication leaves nothing else on disk, whatever it could not read
(`DiskStaysBounded`). None of the
three is inductive: whether `CURRENT` may be renamed depends on files written
several steps before, and whether a collection keeps them on roots computed before
it. `IInv` follows the files of the manifest in preparation:
`TargetIsOnDisk` (the shards that are no longer in `todo` are there),
`TargetIsNamed` (the manifest is in `generations/` and `previous` is still what
`CURRENT` names, or unknown), `TargetIsCurrent` (after the rename), `RootsAreKnown`
(what the collector keeps is files of the two generations, and all those of each whose
manifest it read). A stop anywhere forgets the target and keeps the rest. A generation
that was overlooked may lack shards; it is never the base of a request, which has opened
it whole (`StartIsComplete`), so nothing incomplete is built upon, and its manifest
stays while `CURRENT` names it (`PublishedIsListed`). What the files hold plays no part.

Its second half is about the reader, `ReadersSurviveOnePublication`: a reader that holds no lock
opens what `CURRENT` named when it began, unless two publications overtake it or the
one that does overlooks that generation, for
any number of shards and any contents (and `BatchesAssumption`: a batch is a finite set of
dumps, with callers' keys, durations and prints). A reader follows `CURRENT` or, overtaken once, its predecessor
(`ReaderIsKnown`), and both are kept while they are owed to it (`IsOwed`). The hard half is that a publication might take
the name of the generation it replaces, and change the manifest under the reader:
`TargetIsNews` carries, from the decision of a request through every rebuilt shard to
the rename, a resource that the next generation has and the present one has not, or
the other way round. For an ingest into a store without identities, "changed" is
decided by reading the stored prints; hence the hypothesis `[]ForwardNeverLies`,
which `StoreContentProofs` discharges.

Its third part is `CatalogIsImplemented`: under the same hypothesis
`[]ForwardNeverLies`, `Store` implements `Catalog` (`ImplementsCatalog`), for any shards,
keys, contents, batches and duration files (`DurationFilesAssumption`), with errors and
kills at any step; `NoneAssumption` says that no generation is named like the missing
one. Initial stores are initial catalogs; the rename of `CURRENT` is `Commit`, an answer
is `Succeed`, `Refuse` or `Fail`, every other step stutters. The rename is the hard
step: the manifest that it publishes was collected shard by shard, and the contract
speaks of the request and of the catalog before it. `CInv` carries the promise through:
`RequestIsAccepted` (the contract's guard held when the request was decided, and
nothing was published since), `TargetIsDue` (the target lists only resources of the
old manifest, unchanged but for the identity that rebuilding gives them, and the
changes; and lacks none of either whose shard is done), `ManifestIsWritten`, and
`CatalogIsFine` (ids are unique, so that an ingest gives fresh ones). The hypothesis is
needed where a shard is rebuilt: the members it keeps are read back with `forward`.
The invariant was checked with TLC on the instance of the run `store` before it was
proved.

**`StoreContentProofs`** – what the shard files hold. `FInv` says that every generation
has all its files and that each holds exactly the members its manifest lists for that
shard (`GenerationsAreWhole`), and that the manifest in preparation does so for the
shards that are done (`TargetHoldsShards`): a shard that is not rebuilt has lost and
gained no resource, a rebuilt one has what it kept, read back, and the changes. From
one such file follow two facts. *Reading back*: postings lie in the order of the ids,
which are not shared, so each position of a block belongs to one resource
(`OnePosting`); a recorded range whose ids are all the resource's is therefore that
resource's block and no other part of it (`RangeIsBlock`), whether or not the record
was right. That is `ForwardNeverLies`, and it is why finding 1 of section 6 is a
refusal and never a wrong answer. *Looking up*: the postings near a hash are those of
the members, which are the listed resources (`LookupIsNear`).

| Theorem | Property |
|---|---|
| `StoreIsTyped` | the types of root, writer and reader |
| `ForwardReadsBack` | `ForwardNeverLies` |
| `LookupStaysExact` | `LookupIsExact` |
| `ReadersSurvive` | `ReaderSurvivesOnePublication`, without the hypothesis above |
| `StoreImplementsCatalog` | `ImplementsCatalog`, without the hypothesis above |

The circle is broken by one step at a time: `StoreProofs` uses
`ForwardNeverLies` only in the state a step leaves, and there it follows from `FInv`.
So `Known`, the four invariants together, is inductive and assumes nothing of a state.
One hypothesis on the input is left, `PrintsAreInTime`: every ingested print has a time below
`MaxTime`. `forward` reads the half-open range `(0, u32::MAX)` (store.rs:837), so a
print at the largest bin, more than a year of audio, would be stored, found by `lookup` and never read back;
without the hypothesis `ForwardNeverLies` is false. `FInv` was checked with TLC
on the instance of the run `store` before it was proved.

**`DaemonProofs`** – for any finite set of workers and of lines, any kinds, with or
without a store at the start (`WorkersAssumption`, `LinesAssumption`,
`KindAssumption`, `InitialAssumption`), however deep tasks nest:

| Theorem | Property |
|---|---|
| `NothingHeldStaysSuspended` | a suspended task holds neither lock |
| `ScratchStaysBorrowedOnce` | a thread's FFT scratch is never borrowed twice |
| `ServedStaysNewest`, `ServedStaysMonotone` | what queries see of the store's history |
| `WritesAreRead` | a query sees the writes acknowledged before it was sent |
| `ExitIsComplete` | every accepted line has one answer at the end |

The invariant is about stacks: a line is on one stack, at one place
(`StacksAreConsistent`); every task below the top of a stack waits for a parallel
section; the holder of a lock or of a scratch is a line in a phase that does not
wait, hence on top (`HoldersAreKnown`). `StoreIsServed` says that only the line
between its publication and its swap is ahead of the `Arc`, and
`AcknowledgedIsServed` carries an acknowledged write from its answer to the
snapshots taken later.

**`RefingerprintProofs`** – for any manifests, threads and number of runs
(`IdsAssumption`, `ManifestsAssumption`, `NoneAssumption`, `ThreadsAssumption`,
`MaxRunsAssumption`): `MetadataStaysComplete`, `FinishedRunStaysClean`,
`ResumeStaysAccepted` (a run is turned away only for a key that a metadata line cannot
hold, of which section 6 speaks) and `BatchIsImplemented`, the refinement of `Batch`. Three parts of its invariant say
what is on disk whether or not a process lives (`FilesAreKnown`,
`PartialsAreKnown`), three what the process knows (`RunIsKnown`, `PhasesAreKnown`,
`StacksAreKnown`). That a finished run leaves no temporary but of lines that it lists as
failures, and of a killed run none either, needs the whole of it: a temporary of prints
or of metadata belongs to a line that is not completed, and at the end such a line is a
failure. A failure may leave one: the removal of its prints' partial may fail, and a
line that fails on audio that an earlier, killed run could decode still has that run's
`<id>_meta_data.txt.partial`.

**`QueryProofs`** – for any stores whose resources are in the order of their times
(`WorldsAssumption`: `write_shard` sorts them so), any scripts (`ScriptsAssumption`), any
constants of the voter and of the time grid (`VoterAssumption`, `QueryAssumption`):

| Theorem | Property | What it takes |
|---|---|---|
| `HitsAreSpentOnce` | `HitsVoteOnce` | an accepted line has all the hits on it, and two hits with one key are on the same lines, so to remove as many of a key as the line has removes all of them (`RemainingIsTheRest`); what is left and the lines are together the cloud, hit by hit (`Conserved`) |
| `QueriesProgress` | `EveryStepIsProgress` | an accepted line is not empty, so every round leaves fewer hits or is the last (`RoundMovesHits`); a region that starts before the last bin has its successor's start after its own, saturation or not (`NextStartIsLater`), and no region starts at the last bin |
| `ProbesAreWhole` | `PrintsAreProbed` | the prints between two bins are a part of the probe (`ForwardIsPart`), parts that meet make one (`ForwardMeets`), so the regions up to the cursor are one part (`RegionsAreCut`); that its ends are the window's, but for an edge at the second of a rounded bin, is the ceiling of `seconds_to_bin` (`FirstBinIsFirst`, `BinIsFirst`), what it makes of a rounded bin (`BinIsRounded`, `BinReaches`) and its two `None`s (`StartIsFirstBin`, `StopIsFirstBin`) |
| `CloseStaysTogether` | `CloseIsTogether` | the other half of `RegionsAreCut`: of a pair that is close enough, the region in which the first begins reaches the second, also where ends saturate |
| `QueriesAreTyped` | `TypeOK` | what the voter's lists hold (`QueryTypes`): that a cloud is made of hits goes through hash tables that are doubled until they are large enough (`CapacityIsPositive`) |

A window is taken to be on the time grid (`IsOnGrid`); of one that is not, section 6 shows
that its bounds are dropped. `RegionsAreCut` was checked with TLC on the instance of the run
`query` before it was proved.

The other three invariants compare the answers to two or three requests, each a loop over
regions and for every task a chain of rounds, interleaved with all the others. Their
inductive invariant is `Traced`: the regions so far are what cutting the window gives
after some number of steps (`Cuts`), every task is what peeling its cloud gives after
some number of rounds (`Peels`), and an answer is made of cuts and peelings that have
ended. Nothing in it mentions another request or the order of the tasks, so
`AnswersAreTraced` says that an answer is a function of the stores and of its request:
the rounds and the regions follow from one another, so two such chains that have ended
are the same (`CuttingIsUnique`, `PeelingIsUnique`). Since `Cuts` and `Peels` quantify over
sequences of any length, TLC cannot evaluate `Traced`; it checked the three properties.

| Theorem | Property | What it takes |
|---|---|---|
| `AnswersAreTraced` | | a round or a region prolongs a chain by one step; everything an answer is made from stays with the stores (`TracesStay`) |
| `SpanStaysCrosscheck` | `SpanIsCrosscheck` | a pair query looks at one resource and the fan-out at all: the hits queued for a resource, and the size of the table that orders them, are those of the whole store (`QueueIsOfTheStore`); ranking the rows of all resources and taking one's gives its rows, ranked (`ShareIsRanked`, from `PartOfSorted`); totals and order of the matches lose none (`MatchesSay`) |
| `DefaultStaysAmongLines` | `DefaultIsAmongLines` | the first round is the same for both (`FirstLineStays`), and rounds only append to the lines; the orders differ, the rows do not (`SegmentsAreRows`) |
| `RegionsStayIndependent` | `RegionsAreIndependent` | region `j` starts `j` regions after the window's start (`CutIsRegions`), saturated or not; a window cut a whole number of regions after its start has its second part's first region there (`RegionsApart`: the distance is counted in the bins that both edges convert to, rounded or not), and the first part ends there (`WindowsMeet`) |

In `SpanStaysCrosscheck` a crosscheck has to ask for as many matches as the store has
resources, and in all of them both requests are over one probe; `RegionsStayIndependent`
covers refused requests too: a part without bins or without prints has no rows.

**`PassageProofs`** – first of the function `partition_passages` alone
(`PartitionSpec`), for any passages with at least one hit, any limits
(`PartitionAssumption`) and any order of their ids, `PrimariesStayUndominated` and
`AlternatesStayOwned`. The greedy order is what makes them true: the invariant says that
what is divided is no weaker in hits than what is pending (`StrongestFirst`), and to own
a passage takes more hits than it has, so a later passage owns no earlier one. That a
best owner exists is `LeastElement`, applied to what an overlap lacks.

Then of whole requests, for any worlds, scripts and limits (`PassageAssumption`,
`WorldsAssumption`: segments have hits, as the voter accepts none without, and keys are
ordered; `ScriptsAssumption`: requests name references that the store has, a request for
a pair one of them), and ids that can be
ordered (`DigestsAreNumbers`: they are digests, which the code compares as text; an
assumption of the theorems and not of the module, since TLC cannot go through every support):

| Theorem | Property | What it takes |
|---|---|---|
| `HitsAreCountedOnce` | `HitsCountOnce` | a track's hits, sorted and without repeats, are its segments' hits in strict order (`HitsOfTrack`), so they are as many as there are different ones; the spans count and cover them (`SupportOfHits`); each segment is at one place of one track (`AreTracks`), and the sort of the passages loses and doubles none |
| `SupportStaysWithoutHoles` | `SupportHasNoHoles` | `IsSpan`, kept by each hit that a span takes: a hit after the stop of a span is so by no more than the gap (`DenseGoesOn`); one before it adds a moment (`DenseWithMore`), and one before the span's start on b's clock moves that start back, by no more than the jump from all that was seen (`IsDenseOnB`) |
| `RequestsAreDivided` | `PrimariesAreUndominated`, `AlternatesAreOwned` | the passages that `Build` makes are passages with hits, and nothing was divided (`BuiltPassages`) |
| `PassagesAreWellTyped` | `TypeOK` | that a segment is put on a track which it continues: the nearest of those exists (`NearestFits`) |
| `DiscoveryStaysPairs` | `DiscoveryIsPairs` | `MatchesAreTraced`, below |

`DiscoveryIsPairs` compares the answers to two requests, two loops over the same
segments with other references looked at in between. What is worked out of a reference is
therefore written a second time, as a function of its segments alone: `StepOf` places the
soonest segment, builds the passages, or divides the strongest, and `ComesOf` says that a
state is reached from `Begun` by such steps. A step of `Passages` is a step of that work
(`PlaceIsWork`, `BuildIsWork`, `DivisionIsWork`), since what the actions choose is the only
one that can be chosen (`SoonestIsChosen`, `StrongestIsChosen`), and work that is over is
over in one way (`WorkIsUnique`, from `RunsAreTheSame`). The invariant `Traced` says that
every reference that a request has looked at has in `found` the one match of its work
(`MatchFrom`), or none if a discovery found no primary, and no other reference has any;
ranking moves no match to another reference (`RankedOfReference`, from `PartOfSorted`). What
is left is that returning segments changes nothing else of a match (`PlainlyTheSame`), and
that of no segments come no passages (`NothingOfNothing`), since only a discovery leaves out
references without segments. `Traced` quantifies over chains of any length, which TLC
cannot evaluate; it checked `DiscoveryIsPairs`.

`PassageInv` was checked with TLC on the instance of the run `passages` before it was proved.
The proof of `SupportStaysWithoutHoles` needs a positive hit gap, which
`PassageAssumption` therefore states: of a gap of 0 the formula would ask for a hit
after a moment and not after it.

**`ExtractProofs`** – for any files, pipes and mixing of samples and messages,
`OnlyWholeFilesStayEmitted`, the first part of `StreamIsWhole`: nothing is emitted of
a file that ffmpeg did not decode to the end. The invariant accounts for every byte:
what was written is in the pipe or in the spool, an exit with success comes after the
last byte, and the thread leaves the copy with an empty pipe and ffmpeg gone.

The stream has an invariant of its own, `StreamInv`: its two windows have the same
length, less than a filter of rows, and belong to the last frames (`WindowsMatch`); the
packer's events are in order and young enough to begin a landmark (`EventsAreRecent`).
With `IInv` it is inductive (`StreamInvariant`; checked with TLC first) and gives

| Theorem | Property | What it takes |
|---|---|---|
| `StreamStaysBounded` | `StreamIsBounded` | a chunk has no more rows than its core has frames, although its frames are shifted by one: the remainder that the last chunk adds is cut because `AudioBlock >= Hop` (`ChunksAreSmall`) |
| `VerticalStaysMaximum` | `VerticalIsMaximum` | `IsQueue`: indexes rise and values fall along the queue of `lemire_vertical_max_row`, all are in reach, and each index in reach has a place with a value no smaller; `QueueStays` keeps it through a step that drops the smaller ones and one that leaves at the head; so the head is the maximum (`HeadIsLargest`), and the paddings change nothing (`VerticalMaxIsMax`) |
| `ExtractIsTyped` | `TypeOK` | all of it, and that hashes are naturals |
| `StreamStaysWhole` | `StreamIsWhole` | `StreamFollows`, below |

`StreamStaysWhole` says that chunks, windows and queues leave no trace in the result: what
the caller is given is at every chunk the beginning of what an exhaustive search of the
whole file finds (`Whole`), and in the end all of it. The invariant `StreamFollows` says
where the stream is in the file, in three parts:

* `RowsFollow`: the rows to come are the frames from `frame_count` on, and with them the
  stream is where the next core's frames begin. It holds because a chunk's frames end where
  the next one's begin, the broken last one included (`ChunksMeet`), and because the samples
  of a chunk's frames all have in it the context that they have in the file
  (`ChunkSamples`, `ChunkRowsAreWhole`).
* `WindowFollows`: the window holds the frames before; a full one yields the events of its
  middle frame, those that compare it with all frames of the window but the newest
  (`WindowHasPeaks`, which needs `VerticalMaxIsMax`).
* `QueueFollows`: the queue is the end of the file's events so far, after the first `gone`
  of them, and the caller has the landmarks that begin with these. An event that is due has
  all its landmarks in the queue: what is found later is more than `MaxTime` after each
  event that can follow it (`DueAreComplete`, `LandmarksInView`), so the landmarks of the
  part are those of the whole (`PackGoesOn`).

`WholeIsPacked` is what makes it an answer to an exhaustive search: the triples of all
events, most of them empty, put together are what the queues of neighbours give
(`FlatOfChosen`). Both sides are folds over lists; the lemmas on `Flat` are proved by
induction over the number of lists, through `SetInduction` of `SharedLemmas`, which takes a
set and not an operator. `StreamFollows` was checked with TLC on the instance of the run
`extract` before it was proved.

The assumptions hold of the code's constants: filters of 103 frequencies and of 25 frames
have a middle (`FrequencyFilter % 2 = 1`, `TimeFilter % 2 = 1`), 25 frames and 510 bands are at least 3, a hop of 128
samples divides a core and is less than a block of 8192, and `LevelsAssumption` says that
magnitudes are numbers that can be ordered, which they are unless the transform gives a NaN.

`DaemonTypes` and `BatchTypes` state the types of the daemon and of the batch.

Only model-checked are `EveryLineIsAnswered` and `DecodeEnds`: liveness under fairness is
out of the prover's reach. Every other property of a passing run is stated by a theorem.

## 6. What the models found

The first six are runs with `"expect": "violation"` and entries in `findings`:

1. **A resource may be stored and not readable** (store.rs:933 and :952).
   `forward_start` is counted in key order, the postings are then sorted by id.
   The two agree after `build`, where ids follow keys, and no longer after an
   ingest of a smaller key into an occupied shard. `Shard::forward` notices (ids
   differ) and fails; so does every later request that rebuilds that shard.
   Lookups stay exact, and `forward` never returns another's prints.
2. **A leftover temporary is not harmless** (store.rs:984). `create_new` fails on
   the temporary of an interrupted attempt, until some other publication collects
   it.
3. **`--jobs` does not bound the extractions in progress** (refingerprint.rs:98).
4. **A window that ends before 0.779 s covers everything** (span.rs:345).
   `seconds_to_bin` has one `None` for seconds before the first bin and for seconds
   after the last, and as the end of a window it is taken for the latter.
   The start has another face of it (span.rs:344): a window that starts after the last bin
   starts at bin 0. Properties about windows therefore speak of those on the grid (`IsOnGrid`).
5. **A failing read makes the collector remove what it should keep** (store.rs:1042, :1071).
   Both reads swallow their error. If `CURRENT` cannot be read, there is no rollback
   generation to keep; if a retained manifest cannot be read, its shards are removed, also
   those of the generation just published, and `CURRENT` then names a store that does not
   open. `PublishedIsComplete`, `RollbackIsComplete` and `ReaderSurvivesOnePublication`
   therefore leave out the generations that were `overlooked`; `CollectorSparesCurrent`, which
   leaves out none, is the run. Everything else holds with such errors too:
   `DiskIsBounded`, `LookupIsExact`, the refinement of `Catalog`.
6. **Support may have a hole where b's clock runs back** (passage.rs:614). A span goes on with
   a hit up to 2 s behind its end and takes b's clock back to it, whether or not there are hits
   between, where SPEC.md:85, CONTRACT.md:96 and ARCHITECTURE.md:116 split it at 1.5 s on either
   clock. `SupportHasNoHoles` states what holds: none on a's clock, and on b's none from a hit at
   the span's beginning on, before which b's clock reaches back by a jump at most.

Others were met while modelling, and the models show them without a run of their own:

* **A pool of one worker serves nothing before end of file** (daemon.rs:142): the
  scope body is itself on the only worker. `Daemon` with `Workers = {w1}` has the
  behaviour; CONTRACT.md:3 speaks of one response for each request line.
* **A reader can be overtaken** (store.rs:534, :1065). One publication is survived
  (`ReaderSurvivesOnePublication`), two during one `open` are not: `reader.age = 2` and
  `reader.pc = "failed"` are reached. `open` does not try again; DECISIONS.md:75-82 reasons about
  mmaps that are there already.
* **A key with a line break stops the resumption** (refingerprint.rs:313): the metadata
  it writes cannot be read back, and the next run refuses the directory, which README.md:166
  says resumes. The run `refingerprint` has a manifest with such a key, and `ResumeIsAccepted`
  says that nothing else turns a run away.
* **A window that starts at a reported time may leave it out** (config.rs:44). The
  conversion from seconds to a bin rounds up after a division in `f64`: 2032 of the first
  200000 bins convert to the next one, bins 1 to 7 among them. A window that starts at the
  second that was reported for such a bin leaves its prints out, and one that ends there takes
  them in, where CONTRACT.md:26 has `[start, stop)`. The run `query` has such windows, and
  `PrintsAreProbed` states which prints they probe.
* **A decode can hang** (extract.rs:77-85): stdout is drained before stderr, so messages
  beyond a pipe's capacity block ffmpeg, and the thread with it. DECISIONS.md:161 has
  per-audio decode failures retried; this one never returns. `DecodeEnds` therefore speaks
  of files whose messages fit, and `EveryLineIsAnswered` of a daemon in which no decode
  hangs. `-v error` makes such files rare.
* **A failed spool leaves ffmpeg unreaped** (extract.rs:84): the child is dropped.
* **A hit can count in two passages** when the overlapping regions' lines are on different
  tracks, and `matched_hits` of a discovery adds both. `HitsCountOnce` is about one passage.
* **Containment is of envelopes**: an alternate is owned by a primary that contains its time
  between first and last hit, holes included.
* **Severity is a sum** (ab_compare.rs:453-469): six rows whose spans are apart on both
  clocks outrank a missing row, where DECISIONS.md:180 says that missing rows dominate.
  This one was read, not checked: see section 7.

What holds and is not obvious: a pair query reads one shard of the target and
answers what the fan-out says of that resource, because
`has_match` restores the size of the hash table that decides ties; a span over
a window is the union of the spans over its parts when it is cut where regions
meet; greedy partition, in whatever order ids fall, leaves no primary that another
would own; and a stream of chunks emits exactly what the whole file gives although the
frames of a chunk are shifted by one against its core.

## 7. Not modelled

* **Store comparison** (`ab_compare.rs`): it replays `match` on two opened stores, one
  question after the other, and adds up differences of rows. It keeps no state, meets no
  other actor and has no failure path beyond "this side has an error"; what decides its
  rows is `Query`'s.
* **Validation lanes** (`verify.rs`, `extract_verify.rs`): comparisons with golden files,
  within floating-point tolerances.
* Power loss and the order in which directory entries reach the disk: `Stop` and
  `Kill` lose no completed rename. The code syncs files and the root directory,
  not `shards/` and `generations/`.
* A second writer on one root or a second batch on one directory: README.md
  asks for one explicit writer; there is no lock to model.
* The temporaries of `CURRENT` and of manifests: both are truncated when written
  again. A manifest's is collected with `generations/`; `CURRENT.<id>.tmp` stays in
  the root after a kill.
* Failing removals and listings of directories in `garbage_collect`: they are ignored by
  the code and leave what the next publication collects. Its failing reads are modelled.
* `Path::exists`, which answers false when it cannot look (`pin_manifest`, `completed`,
  `write_shard_file`).
* Panics and poisoned locks; memory; back-pressure of the daemon's stdin.
* The frequency bin `f` of a fingerprint in the store (payload), byte layout,
  header checks, JSON and text formats except for the key that a metadata line
  cannot hold.
* Floating point, and the transform with its filter bank, but for the rounding of
  `seconds_to_bin` (`RoundedBins`): there, too, seconds that are the second of no bin are exact.
* Bin `u32::MAX` is in no region, since ends are exclusive and saturate
  (span.rs:329); `PrintsAreProbed` leaves it out.
* The histograms of evidence, the factors of a row and the labels of quality.
* `extract_audio_whole`: the same steps over one buffer, used only for validation.

## 8. Plan

Done, in the order of importance: `Shards`, `Store` and `Catalog`; `Daemon`;
`Refingerprint` and `Batch`; `Matcher` and `Query`; `Partition` and `Passages`; `Decode`
and `Extract`; the proofs of section 5. Left: `AbCompare`, if comparison
gets a state of its own.

Abstract specifications: `Catalog` and `Batch`; `Whole` is one for `Extract` and
`PartitionSpec` one for the middle of `Passages`.

# A verification development of mncs-index

mncs-index keeps an index of a corpus of source files as a line of numbered,
immutable *generations* in one store directory.  This directory holds TLA+
models of it, the configurations that check them with TLC, and theorems about
them that TLAPS proves.

## The system

| part | source (`runner/mncs_index/`) | state it keeps | what makes it correct |
|---|---|---|---|
| publication | `store.py` `publish`, `cli.py` `cmd_build` | `HEAD`, `gen-N.json`, staging files, the flock on `.HEAD.lock` | HEAD always names a complete generation; no update is lost; a failed or killed publisher leaves nothing but its own staging file and at most one artifact newer than HEAD |
| handles and pins | `store.py` `open`, `pin`, `PinnedSnapshot` | `.pins/*.pin`, the bound snapshot | a bound handle names one complete generation that never changes, and its pin protects it; `open` ends |
| reclamation, compaction | `store.py` `reclaim`, `compact` | `.reclaimed`, `.compact.json` | never HEAD, never a pinned generation, never an unrecorded absence, and a resumed run converges |
| check, repair | `store.py` `check`, `repair` | none, but they read a store others are using | what `check` blames is really wrong, or a publication came in between; `repair` costs a publisher its attempt and nothing else |
| durability levels | `store.py` fsyncs at L0 to L3 | what survives an operating-system crash | an acknowledged publication and the journal survive at L2; below it a loss is not silent |
| build pipeline | `pipeline.py` | a bounded queue, result tables, stop and done marks, the first error | a build ends, with every result or with the error that caused the failure |
| discovery | `discover.py` | a bounded read queue, results, sentinels | the same, and the snapshot does not depend on the order of completion |
| indexer, lineage | `indexer.py`, `lineage.py`, `cli.py` | the previous snapshot, establishment generations | an incremental snapshot equals a rebuild; the lineage names every path once and calls only unambiguous pairs a move |
| watcher | `watch.py` | the last hint, counters of quiet polls and windows | the index never goes back in time, and ends up current although hints collide |
| store feed | `store_feed.py` | the rows, the generation indexed through and the one heard of | the rows are those of what was accepted; it never answers complete behind what it was told of |
| symbol graph | `graph.py` | none | an invalidation set has nothing without a cause, and one not marked truncated misses nothing |
| extraction | `extract.py`, the line scanners of `kernels.py` | none | links and tokens are seen across window boundaries; a bad name does not end a build |
| query, record model, kernels, bridge, CLI, ecosystem campaign | the other files | none of their own | look-ups, formats, hashes, subprocesses |

### How the parts interact

`cmd_build` asks `indexer.py` for a snapshot, which runs discovery and then the
pipeline, and gives it to `Store.publish`.  Readers, other publishers,
`reclaim` and `compact` meet only in the store directory: through HEAD, the
generation files, the pin files and the flock on `.HEAD.lock`.  Inside a build
the threads meet in a bounded `queue.Queue`, two events and a few dictionaries
under locks.  The watcher publishes to the same store as other
builds.  A store feed is apart from it: it projects the commits of another,
canonical store, which its consumer hands to it.

### Which behaviours are hard

* **Processes around one directory.**  Publishers build outside the lock and
  commit inside it; readers take no lock at all; a collector deletes while
  readers pin and load; each may die, or get an OSError, between any two
  file-system operations.
* **Threads around one queue.**  Timed waits that end at a bad moment, a stop
  that overtakes its cause, discarded items, a queue at its limit, a
  cancellation at any point.
* **Content that is read twice.**  HEAD before and during the load of the
  base, files during a run, checksums before a publication.
* **Operating-system crashes**, for which the fsync levels exist.
* **A check without the lock**, in four reads of a store that is in use.
* **Results that are carried over.**  Rows, positions and establishment
  generations of unchanged files go from snapshot to snapshot.
* **Bounded walks** over cyclic relations, with one node budget for several.
* **Deliveries** that are late, repeated, reordered or lost.

## Modules

| module | what it is |
|---|---|
| `GenStore` | the abstract store: generations committed atomically on HEAD, reclaimed below it |
| `Store` | publication, handles, pins, reclamation and compaction; implements `GenStore` |
| `StoreProofs` | theorems about `Store`: its types, its safety and the refinement |
| `StoreDisk` | the same publications and deletions on a disk that loses what was not synced, at every level; `check` and `repair` |
| `StoreDiskProofs` | theorems about `StoreDisk` |
| `ConcurrentRead`, `ConcurrentReadProofs` | `discover_concurrent`, and theorems about it |
| `Pipeline`, `PipelineProofs` | `Pipeline._run`, and theorems about it |
| `Extract` | `extract_file` and its line scanners, as operators on lines |
| `Indexer` | full and incremental builds, the merge of rich rows, lineage, establishment; extends `Extract` |
| `IndexerProofs` | theorems about the builds of `Indexer` and the scanners of `Extract` |
| `Graph`, `GraphProofs` | the bounded walks and `invalidation_set`, and theorems about them |
| `Watch`, `WatchProofs` | `Watcher.run` among edits and other builds, and theorems about it |
| `StoreFeed`, `StoreFeedProofs` | `DerivedStoreIndex` under any delivery of commits, and theorems about it |
| `MCStore`, `MCConcurrentRead`, `MCPipeline`, `MCIndexer`, `MCGraph`, `MCWatch` | the instances for TLC, each with its `MC..._<run>.cfg` |

`StoreDisk_outage.cfg` and `StoreFeed_delivery.cfg` run their modules directly:
they need no definitions besides model values.

A definition whose comment begins with "Fault:" is not part of the
specification.  It is a variant of the definition after it with a plausible
bug, kept to show that a property notices the bug.

The models are stacked rather than conjoined.  `Store` shows that publications
are atomic steps of one line of generations (`GenStore`); `Watch` takes that
line for its store and runs watchers and other builds over it.
`ConcurrentRead` and `Pipeline` show that a build without an error has every
file and every result; `Indexer` takes each build for one step and asks what
the snapshots are.  `StoreDisk` goes below `Store`, to the disk.

### Store

One action is one effect another process can see: a rename, an unlink, a read
of HEAD, a lock operation.  The directory is `head` (HEAD), `gens` (the
`gen-N.json`), `headTmp`, `tmps` and `sideTmps` (staging files, with whether
their owner lives), `reclaimed` (the journal `.reclaimed`), `manifest`
(`.compact.json`) and `stalePins`; a live handle's pin is the reader's own
state.  `lock` is the flock.

* A **writer** is a process in `cmd_build`: it reads HEAD as its base
  (`BuildFull`, `BuildIncremental`), loads the base (`ReloadHead`, `LoadBase`;
  `load_head` reads HEAD a second time), stages the file outside the lock
  (`StageGeneration`), and under the lock compares its base with HEAD
  (`CheckBase`), renames the generation, stages and renames HEAD, and verifies
  (`VerifyHead`).  `Cleanup` and `UnlockPublish` are the two `finally` clauses.
* A **reader** opens by HEAD or by number: pin first, then load; a missing file
  sends an open by HEAD round its loop `_OPEN_RETRIES` times.
* A **collector** runs `reclaim` or `compact`: list the pins, reap the stale
  ones, choose victims, and for each rewrite the journal and then unlink; a
  compaction then sweeps the staging files of dead owners and writes its
  manifest.
* **Faults.**  `CrashWriter`, `CrashReader` and `CrashCollector` let a process
  die anywhere (the kernel drops its flock); `StageFails`, `PublishFails`,
  `CollectFails`, `SweepFails` and `OpenFails` are OSErrors.  A pid may be
  reused, so a stale pin may survive the probe (`ReapStalePins`); for the owner
  of a staging file the probe is taken to be right.

A payload is the sequence of the edits it was built from, which is what tells a
lost update from a kept one; hashes and bytes are abstracted into it.  Byte
counts and amplification metrics of `compact` are left out.

### ConcurrentRead and Pipeline

Both translate the same drain protocol, with a program counter per thread.  A
look at an event, a `put`, a `get` and an entry in a table are steps of their
own; the look at `feeder_done` or `producers_done` after `queue.Empty` is a
step after the timeout, because that is how the code reads it.  `_fail` takes
two steps, the record of the error and the set of `stop`.  `unfinished` is the
counter behind `Queue.join`.

In `ConcurrentRead` the files are numbers in sorted order, the bytes of a file
are the number of edits it has seen (`Edit` may happen while a run reads), and
the caller feeds, marks, wakes, joins and raises.  In `Pipeline` a producer
turns its chunk of plans into leaf, validation and digest items, a consumer
does one kernel call per item, and the kernels' memos, which outlive a build,
start with whatever earlier builds may have left in them (`Known`).
`token_digest` looks its memo up and makes its call in separate steps, since it
gives the lock up between them; what keeps the call from happening twice is the
claim in `submitted`.  The classification of bytes and the arithmetic of
`_assemble` are left out: `Complete` says that everything it looks up is there.

### StoreDisk

`dir` is the directory as processes see it, a value for each of HEAD, the
journal and the generation files; `may` is what each name may come back with
after the operating system went down.  `Rename` (an `os.replace`) and `Unlink`
change `dir` at once and add the new value to `may`; below L1 the renamed file
was not synced either, and may come back torn.  `SyncDir` (`_fsync_dir`, which
does its work at L2 and L3) leaves one value for each name.  `Outage` ends every process
and takes one of the possible values for each name, independently of the
others.  The level is chosen at the start and is the same for all.

A publisher goes through the steps of `publish` with its two renames and two
barriers; L3's re-read is the guard of `Acknowledge`.  A collector records,
syncs, unlinks and syncs, one victim after the other, for any set of victims
below HEAD: the pins and schedules that choose them are `Store`'s.  A check
lists the directory, reads HEAD, opens what it listed, and reads the journal
when it reports: four steps without the lock.  `repair` unlinks any staging
file at any time.

### Extract and Indexer

A line is a sequence of bytes; a keyword, a PRESS-ID, the word RFC and a
four-digit number count as one byte each, and the limits of the code (windows
of 64, tokens of 32, names of 64 bytes, link targets) are small constants, so
that every boundary lies inside a short line.  `ExtractFile` is one pure
operator; `DocumentLine` and `SourceLine` are the two branches of its loop.  A
scanner that carries a state over the bytes of a line (`ContainsLink`,
`OrderedSymbolTokens`) is a function of the number of bytes read, which takes
one step of the scanner (`LinkByte`, `TakeByte`) for each.  `SeamsSeenIn` and
`TokensAreRunsIn` say of one line what `SeamsSeen` and `TokensAreRuns` of
`Indexer` say of the files of the corpus.  `Bytes` is what lines are made of.

`Indexer` builds snapshots one after the other while `Edit` changes files.
`head` is what `load_head` gives back.  `BuildFull` and `BuildIncremental` are
each one step, in the plain form or the rich one (`incremental_snapshot_v2`):
verdicts from digests, reuse of rows, the merge `Globalize` with its sorting and
renumbering, establishment, and the lineage report.  A build whose extraction
raises changes nothing (`BuildFullFails`, `BuildIncrementalFails`).  A digest is
the content itself; hints may collide.  A row of the declaration and heading
tables is a path, a place and two columns.  In a fresh file the place is the
line; `Ranked` replaces it by the row's position in the order of path and place,
as `globalize` does with `seq`, and `FileRichFromRecords` takes that position
for a line number when the file is reused.

### Graph

One step is one candidate of one frontier entry: `Visit` asks `should_visit`
and admits, refuses (`cut`) or passes over it.  `Seed` is the loop a reverse
walk begins with, which ends the walk when a seed is refused.  `StartWalk`
begins the walk of the next changed path with what is left of the node budget,
`EndWalk` adds its answer to the call's.  Paths and symbols are the same
strings in the code and the same `Ids` here.

### Watch

One action is one step of the loop of `run`: `Poll` acquires a scan and counts
agreeing polls, `LoadHead` reads the base, then the watcher decides (`Skip` or
`Transact`, which scans again), and publishes under compare-and-swap
(`PublishCandidate`), finds that it is stale and starts over (`Superseded`), or
finds nothing to publish (`Validated`).  Other builds are `BuildStarts`,
`BuildScans` and `BuildEnds`.  `line` is the line of generations, each with the
content and the time of its scan.

### StoreFeed

`Commit` is the canonical store, which is external.  `Apply`, `Observe`,
`Rebuild` and `Destroy` are the calls of the index, in any order and with any
committed generations: a delivery that is late, repeated or out of order is a
call with that argument, a lost one is a call that is never made, and a commit
that does not validate raises and changes nothing.  `accepted` and `told`
are history: what was accepted and the newest generation heard of since the
index was empty.  `Rebuild` takes a list in any order, sorts it (`Sorted`: the
rearrangements that do not descend) and runs the loop of `rebuild` over it
(`Accepting`: the index after each commit).

## What the runs show

| run | instance | states | what it shows |
|---|---|---|---|
| `publish` | 2 writers, 1 collector that reclaims all but the newest or compacts to a checkpoint, generations 0..2, 2 faults | 1.2 million | HEAD complete, no unrecorded gap, live staging kept, the manifest truthful, and `Store` implements `GenStore` |
| `readers` | 1 writer, 1 reader, 1 collector that prunes everything, generations 0..2, 1 fault | 0.2 million | bound handles immutable, early pins protect, retries follow HEAD, a prune converges; the lock is always freed and every `open` ends |
| `disk` | 1 publisher, 1 collector, a check, a repair, L0 to L3, generations 0..2, 1 fault, 1 outage | 3.4 million | HEAD whole; acknowledged generations and the journal survive at L2 and L3; `check` is honest and a loss is not silent |
| `discover` | 2 readers, 2 files that may change, queue of 1 | 87 thousand | exact drain, complete snapshot, the cause reported, readers joined, and the one way a call can wait for ever |
| `build` | 1 producer with two files that share a token, 2 consumers, queue of 1 | 0.5 million | exact drain, complete result, the cause reported, each digest computed once, and the one way a build can wait for ever |
| `indexing` | 3 paths, five contents, two of one hint, one of them all 256 lines of four bytes; three generations | 0.5 million | incremental is rebuild, lineage exact, establishment real, no seam missed, tokens whole |
| `graph` | 38 edge tables over 4 ids, every call with at most two ids, depths 0, 4, 6, node bounds 0, 1, 2, 5 | 51 thousand | nothing without a cause, nothing missed in silence, never more than the bound, nearest first |
| `watch` | 1 watcher, 3 contents of which two share a hint, 3 edits, 2 other builds | 0.9 million | generations never go back, an unseen change waits a bounded number of windows, HEAD becomes current |
| `feed` | 2 identities, 3 generations, every delivery | 1 thousand | rows are those of what was accepted; complete only through what it was told of |

`StoreDisk.CheckHonest` is also what is true of a check in use: one that runs
across a publication may report a dangling HEAD or a gap of a healthy store,
and nothing else makes it do so.

Three runs refute a sentence of the repository; each has its place and its
quotation under "findings" in `PROJECT.json`.

* `pinrace` (`PinProtects`): `reclaim` and `compact` list the pins once; a pin
  created after that does not protect, although the docstring of
  `PinnedSnapshot` says it does.  `EarlyPinProtects` is what holds.
* `hang` (`JoinTerminates`): a consumer that saw the queue empty reads the done
  mark a moment later.  If the last item and the mark came in between, it
  leaves; when all of them do, the join waits for ever.  `EndsOrStrands` is the
  positive side: this is the only way to wait for ever.  The readers of
  discovery have the same gap (`discover.py:208`).
* `badname` (`NamesAreSkipped`): a declaration with a name segment over the
  token bound raises out of `take_dotted_name` and fails the build.

### Observed while modelling

Not every corner is a run.  These hold of the code, and the properties are
stated so that they respect them:

* After a plain (v1) incremental build the rich tables are empty, and a rich
  incremental build after it reuses nothing for unchanged files: its tables are
  smaller than a rebuild's.  `IncrementalIsRebuild` speaks of rich tables only
  when every build since the last full one was rich.
* A full build starts the establishment generations anew.
* A declaration whose name is not taken ends its line: PRESS-IDs and RFC
  numbers on that line are not recorded.
* Below L2 a *second* outage can make a loss silent: HEAD may come back at an
  older number, and the number that the journal already names is published
  again and lost again.  `FailClosed` therefore speaks of the first outage.
* A feed that skipped generations still answers complete: completeness is
  relative to the newest generation it was told of.
* With several changed paths whose waves overlap, a file both waves reach uses
  node budget twice, so an answer may be marked truncated although the bound
  was not exhausted.  It errs on the safe side.
* Two producers that plan files with a common token may both send it to
  `validate8`, so the number of kernel calls depends on the schedule; a file
  that is edited after it was read does not fail a discovery.
* The watcher records the checksums of one scan and publishes the content of a
  later one.  The digests of the transaction decide, so this costs at most a
  superfluous transaction.

### Bounds, and why they are enough

`MaxGen` bounds the generations: with 0..2 there is a generation below the one
a reader or builder is on, HEAD moves on twice after its first value, and an
artifact, a gap and a pinned old generation can exist at once.  `MaxFaults`
counts deaths and failed operations: two allow a second death during the
recovery from the first.  `OpenRetries` is 2 instead of 100: the loop goes round
once and runs out once.  Two writers meet in the compare-and-swap; a third
would only be a second loser.  In `readers` and `disk` one writer is enough,
because what the writers do to each other is `publish`'s question (with one
publisher the compare-and-swap of `disk` never loses); the proofs cover any
number.  `MaxOutages` is 1; the proofs cover any number.

Two readers of discovery, or consumers of the pipeline, are the least for which
one can discard, fail or leave while the other works; the queue is smaller than
what is put into it, so that `put` blocks.  `BatchSize` is 1 instead of 8, so
that two tokens make two batches.  `MaxEdits` bounds the edits of a file during
a discovery, or of the corpus under a watcher: three reach a content the hint
hides and leave it again.  `MaxBuilds` lets another build win twice against
the watcher; `QuietPolls` is 1 and `ValidateEvery` 3, so that quiet windows
pass before one validates.

In `indexing` windows are of 3 bytes, tokens of 2, names of 4 and link targets
of 2: lines of four bytes cross every window boundary, and one content is all
256 of them.  Three generations allow a path to be there, go and come back.
The tables of `graph` are a chain, a cycle, a diamond with a long and a short
way, overlapping waves, files that depend on two changed ones, an id that is
both a path and a symbol, and 32 relations over two ids; its depths and bounds cut at
once, in the middle and never.

Symmetry is used for the writers of `publish` only, whose properties are safety
properties; where liveness is checked there is none.

`CHECK_DEADLOCK FALSE` stands where the system really stops: in the two thread
models (a call that ended, or was stranded, has no next step), in `graph` (the
call returned), and in `watch` (all watchers stopped, edits and builds spent).
The stores, the indexer and the feed never stop, and their runs check it.

### Fairness

`Store` assumes weak fairness of each process's next step only while it is in
the middle of an operation (`WriterStep`, `ReaderStep`, `CollectorStep`): the
operating system runs it unless it dies.  Nothing obliges a process to begin
an operation, to close a handle, or a fault to happen.  The thread models
assume weak fairness of each thread: threads that can run are scheduled, reads
and kernel calls end, and timed waits time out.  Cancellations and edits are
never obliged to happen.  `get(timeout=0.1)` raises Empty only when the queue
is empty, and only then does `GetTimesOut` happen.  `Watch` assumes weak
fairness of a watcher's loop, which sleeps a bounded time and goes on; nobody
has to edit, build or stop.  `GenStore`, `StoreDisk`, `Indexer`, `Graph` and
`StoreFeed` assume none: their properties are about what is reached.

## What is proved

All theorems hold for every value of the constants that satisfies the named
assumptions of the modules: sizes and bounds are natural numbers (or positive),
roles are disjoint, the sets of reader and consumer threads and of graph ids
are finite, and the special values (`None`, `Torn`, `NoHint`, `Absent`) are told
apart from the ordinary ones; paths are finitely many positive numbers, lines
are sequences over `Bytes`, and a window has at least two bytes.

`StoreProofs` proves that every variable of `Store` keeps its type
(`TypeCorrect`), and `HeadNeverDangles`, `GapsAreRecorded`,
`OneArtifactAtMost`, `LiveStagingKept`, `CommitsVerify`, `ManifestIsTruthful`,
`HandlesImmutable`, `EarlyPinsProtect`, `RetriesAreForward`, `PruneFinishes`,
and `StoreImplements`, the refinement of `GenStore`.  None of these is inductive
alone.  The invariant `Inv` adds: who is between taking and releasing the lock
is exactly its holder (`LockInv`); what a publisher knows at each step of the
commit, in particular that its candidate is current as long as HEAD is its base
(`WriterInv`); what a collector has still to delete is below HEAD, enters the
journal first and never comes back (`CollectorInv`); and no collector's
remaining victims contain a generation whose pin it could have seen
(`ReaderInv`).  HEAD is complete because only the lock's holder moves it, onto a
file it has just put there, and because victims stay below it; the refinement
then maps `RenameHead` to `Publish`, `UnlinkVictim` of a committed generation to
`Reclaim`, and every other step to a stutter.  On top of `Inv`, `RetryOk` says
that a reader in its retry loop has gone round at most as often as HEAD moved
since it began, and `PruneOk` that what a prune has not yet deleted is pinned or
among its victims; they give the last two.

`StoreDiskProofs` proves `TypeCorrect`, `HeadIsWhole`, `Durable`, `NoGapEver`,
`CheckIsHonest` and `NeverSilent` for any number of publishers, collectors,
generations and outages.  Its invariant has a part for each question.
`WorkInv` ties every process to the lock and to the directory it has made so
far.  `DurInv` speaks of `may`, the values that can come back, at L2 and L3:
every HEAD that can come back is at least what was acknowledged and settled,
with every generation up to it settled or in *every* journal that can come back
(`Survives`), and what a barrier has passed has one value only (`Settled`).
The order of rename, barrier, rename, barrier is what keeps `Survives` through
a publication; the barrier between the journal and the unlink is what keeps it
through a reclamation.  `CalmInv` says the same of the directory itself before
an outage.  `CheckInv` follows a check through its reads: until HEAD moves,
what it did not list is in the journal it is going to read.  `FailInv` relates
the journals that can come back to what collectors really recorded, which is
what keeps a gap from being excused by a journal entry that lied.

`ConcurrentReadProofs` proves `TypeCorrect`, `DrainIsExact`,
`SnapshotComplete`, `CauseIsReported` and `ReadersAreJoined` for any number of
readers and files and any queue.  Its invariant says that every file fed is in
the queue, in a reader's hand, in the results, or an error is recorded or about
to be (`FileInv`); that whoever sets `stop` has such a reason (`StopInv`); what
readers hold (`HandInv`); and that sentinels come only after all files
(`PhaseInv`).  When the join returns, `DrainAccounts` leaves nothing in the
queue or in a hand, so without an error every file is in the results.

`PipelineProofs` proves `TypeCorrect`, `DrainIsExact`, `ResultComplete`,
`CauseIsReported` and `DigestsOnce` for any number of producers and consumers,
any plans, vocabulary, batch size and queue, and whatever the memos hold at the
start; the assumptions are that the consumers are finitely many and that every
plan is in some producer's chunk.  The core of its invariant is `WorkInv`: as
long as no error is recorded or about to be, each leaf, verdict and digest that
a producer has passed is in its table, or in an item that is *pending*: queued,
in a consumer's hand or in the hand of the producer about to put it.  For
digests this goes through the claims: a producer that skips a claimed token
relies on another thread, and `SubmittedMet` says that thread's item exists.
When the caller comes to `done`, the count is zero, so nothing is pending and
everything is in the tables.  `DigestInv` says that the item for a token's
digest is in one place at most, and nowhere once it was computed.

`GraphProofs` proves `TypeCorrect`, `NothingWithoutCause`, `BudgetIsShared` and
`NothingMissed` for any finite set of ids, any tables, calls and bounds.  What
the code means by "transitively depends" is said with closed sets, which needs
no induction over paths: an answer lies in *every* closed set around its starts
(`SoundFor`, an invariant for each such set), and an answer not marked truncated
holds the files of *some* closed set around them, namely what the walks visited
(`CompleteInv` and `WalkInv`: until the walk refuses something, each visited
node waits in the frontier or has all its neighbours visited or pending).
`CapInv` carries the shared budget through the walks.

`WatchProofs` proves `TypeCorrect`, `GenerationsAdvance` and `BackstopHolds` for
any number of watchers, any hints and periods.  `ScanInv` says that whoever is
about to publish scanned the corpus no earlier than the base it read was
scanned; `WindowInvOf` that a watcher's window counter is ahead of the quiet
windows it let pass, so that the due one comes in time.

`DepthIsShortestPath` compares a walk with `Ball`, which is defined by recursion
over the depth.  `SearchInv` states it layer by layer: the walk has visited
every node within the depth it is at, its frontier holds the last layer and the
beginning of the next in that order (`Queued`), and what waits beyond belongs to
the next layer.  Because the frontier is a queue, no node is first reached by a
detour; because the budget exceeds the ids, none is refused for it
(`RoomForAll`).

`IndexerProofs` has two parts.  The first is about one line, of any length, over
any bytes, windows and bounds.  `LinkSeen` says what the state of
`ContainsLink` knows after each byte, `Strides` that every neighbouring pair of
bytes lies in one window, which gives `SeamsAreSeen`.  `ScanOf` says what the
tokenizer holds after each byte: the tokens of the runs that have ended, in
order, and of the run under way its bytes, or nothing when it is too long;
`TokenStep` keeps it through a byte, which gives `TokensAreWholeRuns`.  The
second part is about builds.  `EstablishedIsCarried` needs that the documents of
the index are those of some corpus and that what was established stays
established (`DocsInv`).  `LineageIsExact` needs that the report is the resolution
of two corpora (`LineageInv`); `Resolved` says which links a resolution gives,
`LinksOfPath` that each path has one.  `IncrementalAlwaysRebuild` rests on
`IndexInv`: documents, terms and, while every build was rich, tables are those
of a corpus that some build saw.  The step from there is `TablesRebuilt`.  Reused
rows carry positions where fresh ones carry lines; `PositionsOrder` says that
positions order the rows of a path as their lines do, `RankedAlike` that two
sets of rows in one order get the same positions, so the merged table is the
rebuilt one (`RanksKept`, `TableKept`), and `ReusedAreFirst` that dropping
repeated declarations drops none of the reused.

`StoreFeedProofs` proves `RowsAlwaysOfAccepted` and `NeverEverPretends` for any
identities, generations and lists.  `FeedInv` says that the index *projects* what
it accepted: each row is the newest accepted generation that writes it, and
nothing accepted is ahead of the index.  One commit that does not go back keeps
this (`AcceptProjects`), a sorted list keeps it commit by commit
(`AcceptingProjects`), so `rebuild` gives it for any list.

Three of the modules reason about recursive functions.  They derive induction over
positions from the well-foundedness of `<` on the naturals (`Induction`), and
from it that a loop over a list has a state after each round (`LoopStates`),
which is what connects a recursive function with its steps.

Of the safety properties that the passing runs check, invariants and step
properties alike, all are theorems; so is the refinement.

## What is only model-checked

Liveness, which is out of the proof system's reach: `LockFreed` and `OpenEnds`
of `Store`, both `EndsOrStrands`, and `EventuallyCurrent` of `Watch`.

## What is not modelled

* Record model and canonical encoding, Query, the compiler bridge and the
  ecosystem campaign: pure encoding, look-ups in one loaded snapshot, a
  subprocess, and sequential file copying around the other parts.  They keep no
  state that another step could disturb.
* Kernels: the memos, verdicts and line scanners are in the modules that call
  them; the digest arithmetic, UTF-8 decoding and the encodings for the compiled
  programs are not.
* Command line: what `cmd_build` does to a store is in `Store` and `Indexer`;
  argument parsing, printing and exit codes are not.
* Hashes are taken to be injective, byte counts and amplification metrics of
  `compact` are left out, and so are the delays and seeds the thread code has
  for its tests.
* The disk of `StoreDisk` is an assumption: renames are atomic, an fsync does
  what it says, and names come back independently of each other.

## Where it could go

Two publishers in the `disk` run, which the proofs cover and the state space
does not allow; the levels of two stores that share a directory and disagree;
`check`'s manifest comparison; the sequential reference forms of discovery and
of the pipeline as abstract specifications that the threaded forms refine.

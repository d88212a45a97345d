------------------------------- MODULE Store -------------------------------
(***************************************************************************)
(* The snapshot store (runner/mncs_index/store.py) as the processes that   *)
(* share one store directory see it.  A step is the file-system effect     *)
(* another process can observe between two of its own: a rename, an        *)
(* unlink, a lock operation, a read of HEAD, the load of a generation.     *)
(* Writers build and publish, readers open pinned handles, collectors run  *)
(* `reclaim` and `compact`; any of them may die at any point, and a new    *)
(* process then takes its place.  A process crash loses no file-system     *)
(* write, so the fsync barriers are not visible here.                      *)
(*                                                                         *)
(* A payload is the sequence of the edits it was built from, one per       *)
(* generation of its lineage: an incremental build appends its edit to     *)
(* the payload it loaded, a full build starts afresh.  None (no HEAD) is   *)
(* -1, and an absent generation file is the empty sequence.                *)
(***************************************************************************)
EXTENDS Integers, FiniteSets, Sequences

CONSTANTS Writers, Readers, Collectors,
          NoProc,        \* the owner of a free lock
          Jobs,          \* the collections that may be asked for, see JobType
          MaxGen,        \* bound: no build starts on a HEAD of MaxGen
          MaxFaults,     \* bound: how many processes die or operations fail
          OpenRetries    \* _OPEN_RETRIES

JobType == [op : {"reclaim", "compact"},
            kind : {"prune", "keep-recent", "checkpoint"}, n : Nat]

ASSUME MaxGenNat == MaxGen \in Nat
ASSUME MaxFaultsNat == MaxFaults \in Nat
ASSUME RetriesPositive == OpenRetries \in Nat \ {0}
ASSUME JobsTyped ==
    /\ Jobs \subseteq JobType
    /\ \A j \in Jobs : j.kind = "checkpoint" => j.n >= 1
ASSUME RolesDisjoint ==
    /\ NoProc \notin Writers \cup Collectors
    /\ Writers \cap Collectors = {}

Gen    == 0 .. MaxGen
NoGen  == -1
Absent == << >>

VARIABLES
    \* the directory
    head,          \* HEAD
    gens,          \* gens[g]: the payload in gen-NNNNNN.json
    headTmp,       \* the number in .HEAD.tmp, NoGen if there is none
    tmps,          \* .gen-*.tmp by owner: <<w, TRUE>> of the live process w,
                   \* <<w, FALSE>> left by a dead process of writer w
    sideTmps,      \* those present of .reclaimed.tmp and .compact.tmp
    reclaimed,     \* the generations the .reclaimed journal names
    manifest,      \* removed_generations of .compact.json, {} without one
    stalePins,     \* generations whose pin's process died
    lock,          \* who holds the flock on .HEAD.lock
    faults,        \* history: how many processes died and operations failed
    \* the writers: program counter, declared base, the HEAD load_head saw
    \* and the candidate payload
    wpc, wbase, wsrc, wout,
    \* the readers: program counter, how the handle was asked for, its
    \* generation and payload, the retries used; rfirst (the first HEAD the
    \* open read) and rlate (the pin came after a collector had scanned the
    \* pins) are history
    rpc, rmode, rgen, rsnap, rtries, rfirst, rlate,
    \* the collectors: program counter, job, the generations seen pinned, the
    \* staging files to sweep, the victims still to delete and those deleted
    cpc, cjob, cpinned, csweep, cplan, cremoved

dirVars    == <<head, gens, headTmp, tmps, sideTmps, reclaimed, manifest,
                stalePins>>
writerVars == <<wpc, wbase, wsrc, wout>>
readerVars == <<rpc, rmode, rgen, rsnap, rtries, rfirst, rlate>>
collVars   == <<cpc, cjob, cpinned, csweep, cplan, cremoved>>
vars       == <<dirVars, lock, faults, writerVars, readerVars, collVars>>

NoJob == [op |-> "reclaim", kind |-> "prune", n |-> 0]

-----------------------------------------------------------------------------
(* Program counters.                                                       *)

WriterLocked    == {"locked", "checked", "genRenamed", "headStaged",
                    "committed", "release"}
WriterStaging   == {"staged", "locked", "checked"}
WriterStates    == {"idle", "reload", "load", "built", "cleanup"}
                   \cup WriterStaging \cup WriterLocked
ReaderPinned    == {"load", "open"}
ReaderStates    == {"idle", "pin", "retry"} \cup ReaderPinned
CollectorDeleting  == {"next", "journal", "unlink"}
CollectorPlanned   == CollectorDeleting
                      \cup {"sweep", "manifest", "manifestTmp", "release"}
CollectorLocked    == {"locked", "reaped"} \cup CollectorPlanned
CollectorStates    == {"idle"} \cup CollectorLocked

DirTypeOK ==
    /\ head \in Gen \cup {NoGen}
    /\ gens \in [Gen -> Seq(Writers)]
    /\ headTmp \in Gen \cup {NoGen}
    /\ tmps \subseteq Writers \X BOOLEAN
    /\ sideTmps \subseteq {"reclaimed", "compact"}
    /\ reclaimed \subseteq Gen
    /\ manifest \subseteq Gen
    /\ stalePins \subseteq Gen
    /\ lock \in Writers \cup Collectors \cup {NoProc}
    /\ faults \in 0 .. MaxFaults

WriterTypeOK ==
    /\ wpc \in [Writers -> WriterStates]
    /\ wbase \in [Writers -> Gen \cup {NoGen}]
    /\ wsrc \in [Writers -> Gen \cup {NoGen}]
    /\ wout \in [Writers -> Seq(Writers)]

ReaderTypeOK ==
    /\ rpc \in [Readers -> ReaderStates]
    /\ rmode \in [Readers -> {"head", "explicit"}]
    /\ rgen \in [Readers -> Gen \cup {NoGen}]
    /\ rsnap \in [Readers -> Seq(Writers)]
    /\ rtries \in [Readers -> 0 .. OpenRetries - 1]
    /\ rfirst \in [Readers -> Gen \cup {NoGen}]
    /\ rlate \in [Readers -> BOOLEAN]

CollectorTypeOK ==
    /\ cpc \in [Collectors -> CollectorStates]
    /\ cjob \in [Collectors -> Jobs \cup {NoJob}]
    /\ cpinned \in [Collectors -> SUBSET Gen]
    /\ csweep \in [Collectors -> SUBSET (Writers \X BOOLEAN)]
    /\ cplan \in [Collectors -> SUBSET Gen]
    /\ cremoved \in [Collectors -> SUBSET Gen]

TypeOK == DirTypeOK /\ WriterTypeOK /\ ReaderTypeOK /\ CollectorTypeOK

Init ==
    /\ head = NoGen
    /\ gens = [g \in Gen |-> Absent]
    /\ headTmp = NoGen
    /\ tmps = {} /\ sideTmps = {}
    /\ reclaimed = {} /\ manifest = {} /\ stalePins = {}
    /\ lock = NoProc
    /\ faults = 0
    /\ wpc = [w \in Writers |-> "idle"]
    /\ wbase = [w \in Writers |-> NoGen]
    /\ wsrc = [w \in Writers |-> NoGen]
    /\ wout = [w \in Writers |-> << >>]
    /\ rpc = [r \in Readers |-> "idle"]
    /\ rmode = [r \in Readers |-> "head"]
    /\ rgen = [r \in Readers |-> NoGen]
    /\ rsnap = [r \in Readers |-> << >>]
    /\ rtries = [r \in Readers |-> 0]
    /\ rfirst = [r \in Readers |-> NoGen]
    /\ rlate = [r \in Readers |-> FALSE]
    /\ cpc = [c \in Collectors |-> "idle"]
    /\ cjob = [c \in Collectors |-> NoJob]
    /\ cpinned = [c \in Collectors |-> {}]
    /\ csweep = [c \in Collectors |-> {}]
    /\ cplan = [c \in Collectors |-> {}]
    /\ cremoved = [c \in Collectors |-> {}]

\* A process dies or an operation of it fails.
Fault == /\ faults < MaxFaults
         /\ faults' = faults + 1

-----------------------------------------------------------------------------
(* Writers: `cmd_build` and `Store.publish`.                               *)

\* HEAD is read once for the base; a full build never looks at the store again.
BuildFull(w) ==
    /\ wpc[w] = "idle" /\ head < MaxGen
    /\ wbase' = [wbase EXCEPT ![w] = head]
    /\ wout' = [wout EXCEPT ![w] = <<w>>]
    /\ wpc' = [wpc EXCEPT ![w] = "built"]
    /\ UNCHANGED <<dirVars, lock, wsrc, readerVars, collVars, faults>>

\* An incremental build reads HEAD for the base ...
BuildIncremental(w) ==
    /\ wpc[w] = "idle" /\ head < MaxGen /\ head # NoGen
    /\ wbase' = [wbase EXCEPT ![w] = head]
    /\ wpc' = [wpc EXCEPT ![w] = "reload"]
    /\ UNCHANGED <<dirVars, lock, wsrc, wout, readerVars, collVars, faults>>

\* ... `load_head` reads it a second time, maybe another one ...
ReloadHead(w) ==
    /\ wpc[w] = "reload"
    /\ wsrc' = [wsrc EXCEPT ![w] = head]
    /\ wpc' = [wpc EXCEPT ![w] = "load"]
    /\ UNCHANGED <<dirVars, lock, wbase, wout, readerVars, collVars, faults>>

\* Fault: the base is taken after the content has been loaded.
LoadBaseThenHead(w) ==
    /\ wpc[w] = "load"
    /\ gens[wsrc[w]] # Absent /\ head < MaxGen
    /\ wout' = [wout EXCEPT ![w] = Append(gens[wsrc[w]], w)]
    /\ wbase' = [wbase EXCEPT ![w] = head]
    /\ wsrc' = [wsrc EXCEPT ![w] = NoGen]
    /\ wpc' = [wpc EXCEPT ![w] = "built"]
    /\ UNCHANGED <<dirVars, lock, readerVars, collVars, faults>>

\* ... and loads it without a pin.
LoadBase(w) ==
    /\ wpc[w] = "load"
    /\ gens[wsrc[w]] # Absent
    /\ wout' = [wout EXCEPT ![w] = Append(gens[wsrc[w]], w)]
    /\ wsrc' = [wsrc EXCEPT ![w] = NoGen]
    /\ wpc' = [wpc EXCEPT ![w] = "built"]
    /\ UNCHANGED <<dirVars, lock, wbase, readerVars, collVars, faults>>

WriterReset(w) ==
    /\ wpc' = [wpc EXCEPT ![w] = "idle"]
    /\ wbase' = [wbase EXCEPT ![w] = NoGen]
    /\ wsrc' = [wsrc EXCEPT ![w] = NoGen]
    /\ wout' = [wout EXCEPT ![w] = << >>]

\* The loaded generation was reclaimed meanwhile: the build fails.
LoadBaseMissing(w) ==
    /\ wpc[w] = "load"
    /\ gens[wsrc[w]] = Absent
    /\ WriterReset(w)
    /\ UNCHANGED <<dirVars, lock, readerVars, collVars, faults>>

\* The candidate is written to a name of its own, before the lock.
StageGeneration(w) ==
    /\ wpc[w] = "built"
    /\ tmps' = tmps \cup {<<w, TRUE>>}
    /\ wpc' = [wpc EXCEPT ![w] = "staged"]
    /\ UNCHANGED <<head, gens, headTmp, sideTmps, reclaimed, manifest,
                   stalePins, lock, wbase, wsrc, wout, readerVars, collVars,
                   faults>>

\* Fault: no exclusive lock around the commit.
LockNotTaken(w) ==
    /\ wpc[w] = "staged"
    /\ wpc' = [wpc EXCEPT ![w] = "locked"]
    /\ UNCHANGED <<dirVars, lock, wbase, wsrc, wout, readerVars, collVars,
                   faults>>

LockForPublish(w) ==
    /\ wpc[w] = "staged" /\ lock = NoProc
    /\ lock' = w
    /\ wpc' = [wpc EXCEPT ![w] = "locked"]
    /\ UNCHANGED <<dirVars, wbase, wsrc, wout, readerVars, collVars, faults>>

\* Fault: the base is not compared again under the lock.
CheckBaseSkipped(w) ==
    /\ wpc[w] = "locked"
    /\ wpc' = [wpc EXCEPT ![w] = "checked"]
    /\ UNCHANGED <<dirVars, lock, wbase, wsrc, wout, readerVars, collVars,
                   faults>>

\* HEAD is read again under the lock: StaleGenerationError unless it is wbase.
CheckBase(w) ==
    /\ wpc[w] = "locked"
    /\ wpc' = [wpc EXCEPT ![w] = IF head = wbase[w] THEN "checked"
                                                    ELSE "release"]
    /\ UNCHANGED <<dirVars, lock, wbase, wsrc, wout, readerVars, collVars,
                   faults>>

RenameGeneration(w) ==
    /\ wpc[w] = "checked"
    /\ <<w, TRUE>> \in tmps
    /\ gens' = [gens EXCEPT ![wbase[w] + 1] = wout[w]]
    /\ tmps' = tmps \ {<<w, TRUE>>}
    /\ wpc' = [wpc EXCEPT ![w] = "genRenamed"]
    /\ UNCHANGED <<head, headTmp, sideTmps, reclaimed, manifest, stalePins,
                   lock, wbase, wsrc, wout, readerVars, collVars, faults>>

StageHead(w) ==
    /\ wpc[w] = "genRenamed"
    /\ headTmp' = wbase[w] + 1
    /\ wpc' = [wpc EXCEPT ![w] = "headStaged"]
    /\ UNCHANGED <<head, gens, tmps, sideTmps, reclaimed, manifest, stalePins,
                   lock, wbase, wsrc, wout, readerVars, collVars, faults>>

RenameHead(w) ==
    /\ wpc[w] = "headStaged"
    /\ headTmp # NoGen
    /\ head' = headTmp
    /\ headTmp' = NoGen
    /\ wpc' = [wpc EXCEPT ![w] = "committed"]
    /\ UNCHANGED <<gens, tmps, sideTmps, reclaimed, manifest, stalePins, lock,
                   wbase, wsrc, wout, readerVars, collVars, faults>>

\* At L3 _verify_head reads HEAD and its generation back; what it finds, and
\* hence whether publish returns or raises, is the invariant Verified.
VerifyHead(w) ==
    /\ wpc[w] = "committed"
    /\ wpc' = [wpc EXCEPT ![w] = "release"]
    /\ UNCHANGED <<dirVars, lock, wbase, wsrc, wout, readerVars, collVars,
                   faults>>

UnlockPublish(w) ==
    /\ wpc[w] = "release"
    /\ lock' = NoProc
    /\ wpc' = [wpc EXCEPT ![w] = "cleanup"]
    /\ UNCHANGED <<dirVars, wbase, wsrc, wout, readerVars, collVars, faults>>

\* An OSError while the candidate is written, before publish's `try`: nobody
\* unlinks the staging file, and the process gives up.
StageFails(w) ==
    /\ wpc[w] = "built" /\ Fault
    /\ tmps' = tmps \cup {<<w, FALSE>>}
    /\ WriterReset(w)
    /\ UNCHANGED <<head, gens, headTmp, sideTmps, reclaimed, manifest,
                   stalePins, lock, readerVars, collVars>>

\* An OSError of the lock, a rename, an fsync or of the read-back: the two
\* finally clauses still run, and nothing that was renamed is taken back.
PublishFails(w) ==
    /\ wpc[w] \in {"staged", "locked", "checked", "genRenamed", "headStaged",
                   "committed"}
    /\ Fault
    /\ wpc' = [wpc EXCEPT ![w] = IF @ = "staged" THEN "cleanup" ELSE "release"]
    /\ UNCHANGED <<dirVars, lock, wbase, wsrc, wout, readerVars, collVars>>

\* The outer finally unlinks the staging file, missing or not; publish returns.
Cleanup(w) ==
    /\ wpc[w] = "cleanup"
    /\ tmps' = tmps \ {<<w, TRUE>>}
    /\ WriterReset(w)
    /\ UNCHANGED <<head, gens, headTmp, sideTmps, reclaimed, manifest,
                   stalePins, lock, readerVars, collVars, faults>>

\* Death releases the flock and leaves the staging file to a dead owner.
CrashWriter(w) ==
    /\ wpc[w] # "idle" /\ Fault
    /\ lock' = IF lock = w THEN NoProc ELSE lock
    /\ tmps' = IF <<w, TRUE>> \in tmps
               THEN (tmps \ {<<w, TRUE>>}) \cup {<<w, FALSE>>} ELSE tmps
    /\ WriterReset(w)
    /\ UNCHANGED <<head, gens, headTmp, sideTmps, reclaimed, manifest,
                   stalePins, readerVars, collVars>>

WriterStep(w) ==
    \/ ReloadHead(w) \/ LoadBase(w) \/ LoadBaseMissing(w)
    \/ StageGeneration(w) \/ LockForPublish(w) \/ CheckBase(w)
    \/ RenameGeneration(w) \/ StageHead(w) \/ RenameHead(w)
    \/ VerifyHead(w) \/ UnlockPublish(w) \/ Cleanup(w)

WriterNext(w) ==
    \/ BuildFull(w) \/ BuildIncremental(w) \/ WriterStep(w)
    \/ StageFails(w) \/ PublishFails(w) \/ CrashWriter(w)

-----------------------------------------------------------------------------
(* Readers: `Store.open` and `PinnedSnapshot`.                             *)

\* Fault: the newest generation file is taken for HEAD.
OpenNewest(r) ==
    /\ rpc[r] = "idle" /\ head # NoGen
    /\ rpc' = [rpc EXCEPT ![r] = "pin"]
    /\ rmode' = [rmode EXCEPT ![r] = "head"]
    /\ rgen' = [rgen EXCEPT ![r] =
                   CHOOSE g \in Gen : /\ gens[g] # Absent
                                      /\ \A h \in Gen : gens[h] # Absent => h <= g]
    /\ rfirst' = [rfirst EXCEPT ![r] = head]
    /\ UNCHANGED <<dirVars, lock, writerVars, rsnap, rtries, rlate, collVars,
                   faults>>

\* `open(None)`: the generation HEAD names is bound.
OpenHead(r) ==
    /\ rpc[r] = "idle" /\ head # NoGen
    /\ rpc' = [rpc EXCEPT ![r] = "pin"]
    /\ rmode' = [rmode EXCEPT ![r] = "head"]
    /\ rgen' = [rgen EXCEPT ![r] = head]
    /\ rfirst' = [rfirst EXCEPT ![r] = head]
    /\ UNCHANGED <<dirVars, lock, writerVars, rsnap, rtries, rlate, collVars,
                   faults>>

\* An explicit open takes any number, on disk or not, published or not.
OpenGeneration(r) ==
    /\ rpc[r] = "idle"
    /\ \E g \in Gen : rgen' = [rgen EXCEPT ![r] = g]
    /\ rpc' = [rpc EXCEPT ![r] = "pin"]
    /\ rmode' = [rmode EXCEPT ![r] = "explicit"]
    /\ UNCHANGED <<dirVars, lock, writerVars, rsnap, rtries, rfirst, rlate,
                   collVars, faults>>

\* The pin file exists before the generation is read.
Pin(r) ==
    /\ rpc[r] = "pin"
    /\ rpc' = [rpc EXCEPT ![r] = "load"]
    /\ rlate' = [rlate EXCEPT ![r] =
                    \E c \in Collectors : /\ cpc[c] \in CollectorDeleting
                                          /\ rgen[r] \in cplan[c]]
    /\ UNCHANGED <<dirVars, lock, writerVars, rmode, rgen, rsnap, rtries,
                   rfirst, collVars, faults>>

LoadGeneration(r) ==
    /\ rpc[r] = "load"
    /\ gens[rgen[r]] # Absent
    /\ rsnap' = [rsnap EXCEPT ![r] = gens[rgen[r]]]
    /\ rpc' = [rpc EXCEPT ![r] = "open"]
    /\ UNCHANGED <<dirVars, lock, writerVars, rmode, rgen, rtries, rfirst,
                   rlate, collVars, faults>>

ReaderReset(r) ==
    /\ rpc' = [rpc EXCEPT ![r] = "idle"]
    /\ rmode' = [rmode EXCEPT ![r] = "head"]
    /\ rgen' = [rgen EXCEPT ![r] = NoGen]
    /\ rsnap' = [rsnap EXCEPT ![r] = << >>]
    /\ rtries' = [rtries EXCEPT ![r] = 0]
    /\ rfirst' = [rfirst EXCEPT ![r] = NoGen]
    /\ rlate' = [rlate EXCEPT ![r] = FALSE]

\* Fault: the retry loop has no end.
LoadMissingUnbounded(r) ==
    /\ rpc[r] = "load" /\ rmode[r] = "head"
    /\ gens[rgen[r]] = Absent
    /\ rtries' = [rtries EXCEPT ![r] = @ + 1]
    /\ rpc' = [rpc EXCEPT ![r] = "retry"]
    /\ rlate' = [rlate EXCEPT ![r] = FALSE]
    /\ UNCHANGED <<dirVars, lock, writerVars, rmode, rgen, rsnap, rfirst,
                   collVars, faults>>

\* GenerationMissingError: unpin and, when bound by HEAD, try once more.
LoadMissing(r) ==
    /\ rpc[r] = "load" /\ rmode[r] = "head"
    /\ gens[rgen[r]] = Absent
    /\ rtries[r] < OpenRetries - 1
    /\ rtries' = [rtries EXCEPT ![r] = @ + 1]
    /\ rpc' = [rpc EXCEPT ![r] = "retry"]
    /\ rlate' = [rlate EXCEPT ![r] = FALSE]
    /\ UNCHANGED <<dirVars, lock, writerVars, rmode, rgen, rsnap, rfirst,
                   collVars, faults>>

\* Fault: the retry goes for the same generation.
RetryOpenSame(r) ==
    /\ rpc[r] = "retry"
    /\ rpc' = [rpc EXCEPT ![r] = "pin"]
    /\ UNCHANGED <<dirVars, lock, writerVars, rmode, rgen, rsnap, rtries,
                   rfirst, rlate, collVars, faults>>

RetryOpen(r) ==
    /\ rpc[r] = "retry"
    /\ rgen' = [rgen EXCEPT ![r] = head]
    /\ rpc' = [rpc EXCEPT ![r] = "pin"]
    /\ UNCHANGED <<dirVars, lock, writerVars, rmode, rsnap, rtries, rfirst,
                   rlate, collVars, faults>>

\* Fault: an explicit open waits for its generation to come back.
OpenFailsAtHeadOnly(r) ==
    /\ rpc[r] = "load" /\ rmode[r] = "head"
    /\ gens[rgen[r]] = Absent
    /\ rtries[r] = OpenRetries - 1
    /\ ReaderReset(r)
    /\ UNCHANGED <<dirVars, lock, writerVars, collVars, faults>>

\* "cannot bind a stable HEAD", or the missing generation of an explicit open.
OpenFails(r) ==
    /\ rpc[r] = "load"
    /\ gens[rgen[r]] = Absent
    /\ rmode[r] = "explicit" \/ rtries[r] = OpenRetries - 1
    /\ ReaderReset(r)
    /\ UNCHANGED <<dirVars, lock, writerVars, collVars, faults>>

Close(r) ==
    /\ rpc[r] = "open"
    /\ ReaderReset(r)
    /\ UNCHANGED <<dirVars, lock, writerVars, collVars, faults>>

CrashReader(r) ==
    /\ rpc[r] # "idle" /\ Fault
    /\ stalePins' = IF rpc[r] \in ReaderPinned
                    THEN stalePins \cup {rgen[r]} ELSE stalePins
    /\ ReaderReset(r)
    /\ UNCHANGED <<head, gens, headTmp, tmps, sideTmps, reclaimed, manifest,
                   lock, writerVars, collVars>>

ReaderStep(r) == \/ Pin(r) \/ LoadGeneration(r) \/ LoadMissing(r)
                 \/ RetryOpen(r) \/ OpenFails(r)

ReaderNext(r) == \/ OpenHead(r) \/ OpenGeneration(r) \/ ReaderStep(r)
                 \/ Close(r) \/ CrashReader(r)

-----------------------------------------------------------------------------
(* Collectors: `reclaim` and `compact`.                                    *)

\* Fault: a pin counts only once its handle is bound.
LivePinsBound == {rgen[r] : r \in {q \in Readers : rpc[q] = "open"}}

\* The generations covered by a pin a live process holds.
LivePins == {rgen[r] : r \in {q \in Readers : rpc[q] \in ReaderPinned}}

OnDisk == {g \in Gen : gens[g] # Absent}

\* Fault: HEAD itself is among the candidates.
VictimsWithHead(j, pinned) == {g \in OnDisk : g <= head /\ g \notin pinned}

\* Fault: what the journal already names is not a victim again.
VictimsUnrecorded(j, pinned) ==
    {g \in OnDisk : g < head /\ g \notin pinned /\ g \notin reclaimed}

\* The victims of job j given HEAD, the generations on disk and the pinned ones.
Victims(j, pinned) ==
    LET free == {g \in OnDisk : g < head /\ g \notin pinned}
    IN  {g \in free :
            \/ j.kind = "prune"
            \/ /\ j.kind = "keep-recent"
               /\ Cardinality({h \in free : h > g}) >= j.n
            \/ /\ j.kind = "checkpoint"
               /\ g % j.n # 0}

\* Fault: the owner of a staging file is not probed.
AnyStaging == tmps

\* Staging files whose owner is dead; a live writer's is skipped.
DeadStaging == tmps \cap (Writers \X {FALSE})

LockForCollect(c) ==
    /\ cpc[c] = "idle" /\ lock = NoProc
    /\ lock' = c
    /\ \E j \in Jobs : cjob' = [cjob EXCEPT ![c] = j]
    /\ cpc' = [cpc EXCEPT ![c] = "locked"]
    /\ UNCHANGED <<dirVars, writerVars, readerVars, cpinned, csweep, cplan,
                   cremoved, faults>>

\* No HEAD, or a dry run: a report and nothing else.
ReportOnly(c) ==
    /\ cpc[c] = "locked"
    /\ head = NoGen \/ cjob[c].op = "compact"
    /\ cpc' = [cpc EXCEPT ![c] = "release"]
    /\ UNCHANGED <<dirVars, lock, writerVars, readerVars, cjob, cpinned,
                   csweep, cplan, cremoved, faults>>

\* A stale pin survives when the pid of its dead process has been reused.
ReapStalePins(c) ==
    /\ cpc[c] = "locked" /\ head # NoGen
    /\ \E reused \in SUBSET stalePins : stalePins' = reused
    /\ cpc' = [cpc EXCEPT ![c] = "reaped"]
    /\ UNCHANGED <<head, gens, headTmp, tmps, sideTmps, reclaimed, manifest,
                   lock, writerVars, readerVars, cjob, cpinned, csweep, cplan,
                   cremoved, faults>>

\* Pins and directory are listed once; the victims are fixed from here on.
\* A pin whose process died since the reap is stale: it protects only if the
\* liveness probe is fooled.
PlanVictims(c) ==
    /\ cpc[c] = "reaped"
    /\ \E fooled \in SUBSET stalePins :
         LET pinned == LivePins \cup fooled IN
           /\ cpinned' = [cpinned EXCEPT ![c] = pinned]
           /\ cplan' = [cplan EXCEPT ![c] = Victims(cjob[c], pinned)]
    /\ csweep' = [csweep EXCEPT ![c] = DeadStaging]
    /\ cpc' = [cpc EXCEPT ![c] = "next"]
    /\ UNCHANGED <<dirVars, lock, writerVars, readerVars, cjob, cremoved,
                   faults>>

\* The loop over the victims is in ascending order.
Smallest(S) == {g \in S : \A h \in S : g <= h}

StageJournal(c) ==
    /\ cpc[c] = "next" /\ cplan[c] # {}
    /\ sideTmps' = sideTmps \cup {"reclaimed"}
    /\ cpc' = [cpc EXCEPT ![c] = "journal"]
    /\ UNCHANGED <<head, gens, headTmp, tmps, reclaimed, manifest, stalePins,
                   lock, writerVars, readerVars, cjob, cpinned, csweep, cplan,
                   cremoved, faults>>

\* Fault: the journal is replaced instead of extended.
RecordVictimOnly(c) ==
    /\ cpc[c] = "journal"
    /\ sideTmps' = sideTmps \ {"reclaimed"}
    /\ \E g \in Smallest(cplan[c]) : reclaimed' = {g}
    /\ cpc' = [cpc EXCEPT ![c] = "unlink"]
    /\ UNCHANGED <<head, gens, headTmp, tmps, manifest, stalePins, lock,
                   writerVars, readerVars, cjob, cpinned, csweep, cplan,
                   cremoved, faults>>

\* Record-first: the journal names the victim before it is unlinked.
RecordVictim(c) ==
    /\ cpc[c] = "journal"
    /\ "reclaimed" \in sideTmps
    /\ sideTmps' = sideTmps \ {"reclaimed"}
    /\ \E g \in Smallest(cplan[c]) : reclaimed' = reclaimed \cup {g}
    /\ cpc' = [cpc EXCEPT ![c] = "unlink"]
    /\ UNCHANGED <<head, gens, headTmp, tmps, manifest, stalePins, lock,
                   writerVars, readerVars, cjob, cpinned, csweep, cplan,
                   cremoved, faults>>

UnlinkVictim(c) ==
    /\ cpc[c] = "unlink"
    /\ \E g \in Smallest(cplan[c]) :
         /\ gens' = [gens EXCEPT ![g] = Absent]
         /\ cremoved' = [cremoved EXCEPT ![c] = @ \cup {g}]
         /\ cplan' = [cplan EXCEPT ![c] = @ \ {g}]
    /\ cpc' = [cpc EXCEPT ![c] = "next"]
    /\ UNCHANGED <<head, headTmp, tmps, sideTmps, reclaimed, manifest,
                   stalePins, lock, writerVars, readerVars, cjob, cpinned,
                   csweep, faults>>

\* No victim left: `reclaim` is done, `compact` goes on to the staging files.
VictimsDone(c) ==
    /\ cpc[c] = "next" /\ cplan[c] = {}
    /\ cpc' = [cpc EXCEPT ![c] = IF cjob[c].op = "compact" THEN "sweep"
                                                           ELSE "release"]
    /\ UNCHANGED <<dirVars, lock, writerVars, readerVars, cjob, cpinned,
                   csweep, cplan, cremoved, faults>>

\* .HEAD.tmp, .compact.tmp and the staging of dead writers; never a live one's.
SweepStaging(c) ==
    /\ cpc[c] = "sweep"
    /\ headTmp' = NoGen
    /\ sideTmps' = sideTmps \ {"compact"}
    /\ tmps' = tmps \ csweep[c]
    /\ cpc' = [cpc EXCEPT ![c] = "manifest"]
    /\ UNCHANGED <<head, gens, reclaimed, manifest, stalePins, lock,
                   writerVars, readerVars, cjob, cpinned, csweep, cplan,
                   cremoved, faults>>

\* An OSError of one of those unlinks: any part of them may have happened.
SweepFails(c) ==
    /\ cpc[c] = "sweep" /\ Fault
    /\ headTmp' \in {headTmp, NoGen}
    /\ sideTmps' \in {sideTmps, sideTmps \ {"compact"}}
    /\ \E swept \in SUBSET csweep[c] : tmps' = tmps \ swept
    /\ cpc' = [cpc EXCEPT ![c] = "release"]
    /\ UNCHANGED <<head, gens, reclaimed, manifest, stalePins, lock,
                   writerVars, readerVars, cjob, cpinned, csweep, cplan,
                   cremoved>>

StageManifest(c) ==
    /\ cpc[c] = "manifest"
    /\ sideTmps' = sideTmps \cup {"compact"}
    /\ cpc' = [cpc EXCEPT ![c] = "manifestTmp"]
    /\ UNCHANGED <<head, gens, headTmp, tmps, reclaimed, manifest, stalePins,
                   lock, writerVars, readerVars, cjob, cpinned, csweep, cplan,
                   cremoved, faults>>

RenameManifest(c) ==
    /\ cpc[c] = "manifestTmp"
    /\ "compact" \in sideTmps
    /\ sideTmps' = sideTmps \ {"compact"}
    /\ manifest' = cremoved[c]
    /\ cpc' = [cpc EXCEPT ![c] = "release"]
    /\ UNCHANGED <<head, gens, headTmp, tmps, reclaimed, stalePins, lock,
                   writerVars, readerVars, cjob, cpinned, csweep, cplan,
                   cremoved, faults>>

\* Fault: the error of an unlink is swallowed and the victim counted as removed.
UnlinkErrorIgnored(c) ==
    /\ cpc[c] = "unlink" /\ Fault
    /\ \E g \in Smallest(cplan[c]) :
         /\ cremoved' = [cremoved EXCEPT ![c] = @ \cup {g}]
         /\ cplan' = [cplan EXCEPT ![c] = @ \ {g}]
    /\ cpc' = [cpc EXCEPT ![c] = "next"]
    /\ UNCHANGED <<dirVars, lock, writerVars, readerVars, cjob, cpinned,
                   csweep>>

\* Fault: the error leaves without unlocking.
ErrorKeepsLock(c) ==
    /\ cpc[c] \in CollectorLocked \ {"release"} /\ Fault
    /\ cpc' = [cpc EXCEPT ![c] = "idle"]
    /\ UNCHANGED <<dirVars, lock, writerVars, readerVars, cjob, cpinned,
                   csweep, cplan, cremoved>>

\* An OSError anywhere under the lock (a listing, the journal, the unlink of a
\* victim, the manifest) aborts the run; what is done stays done.
CollectFails(c) ==
    /\ cpc[c] \in CollectorLocked \ {"release"} /\ Fault
    /\ cpc' = [cpc EXCEPT ![c] = "release"]
    /\ UNCHANGED <<dirVars, lock, writerVars, readerVars, cjob, cpinned,
                   csweep, cplan, cremoved>>

CollectorReset(c) ==
    /\ cpc' = [cpc EXCEPT ![c] = "idle"]
    /\ cjob' = [cjob EXCEPT ![c] = NoJob]
    /\ cpinned' = [cpinned EXCEPT ![c] = {}]
    /\ csweep' = [csweep EXCEPT ![c] = {}]
    /\ cplan' = [cplan EXCEPT ![c] = {}]
    /\ cremoved' = [cremoved EXCEPT ![c] = {}]

UnlockCollect(c) ==
    /\ cpc[c] = "release"
    /\ lock' = NoProc
    /\ CollectorReset(c)
    /\ UNCHANGED <<dirVars, writerVars, readerVars, faults>>

CrashCollector(c) ==
    /\ cpc[c] # "idle" /\ Fault
    /\ lock' = IF lock = c THEN NoProc ELSE lock
    /\ CollectorReset(c)
    /\ UNCHANGED <<dirVars, writerVars, readerVars>>

CollectorStep(c) ==
    \/ ReportOnly(c) \/ ReapStalePins(c) \/ PlanVictims(c)
    \/ StageJournal(c) \/ RecordVictim(c) \/ UnlinkVictim(c)
    \/ VictimsDone(c) \/ SweepStaging(c) \/ StageManifest(c)
    \/ RenameManifest(c) \/ UnlockCollect(c)

CollectorNext(c) ==
    \/ LockForCollect(c) \/ CollectorStep(c)
    \/ SweepFails(c) \/ CollectFails(c) \/ CrashCollector(c)

-----------------------------------------------------------------------------
Next == \/ \E w \in Writers : WriterNext(w)
        \/ \E r \in Readers : ReaderNext(r)
        \/ \E c \in Collectors : CollectorNext(c)

Spec == Init /\ [][Next]_vars

\* A process that has begun an operation keeps executing it unless it dies;
\* nothing obliges a process to begin one, or to close a handle.
Fairness == /\ \A w \in Writers : WF_vars(WriterStep(w))
            /\ \A r \in Readers : WF_vars(ReaderStep(r))
            /\ \A c \in Collectors : WF_vars(CollectorStep(c))

FairSpec == Spec /\ Fairness

-----------------------------------------------------------------------------
(* Safety.                                                                 *)

\* The generation HEAD names is always on disk: no interleaving of publishers,
\* collectors and crashes makes HEAD dangle (HEAD_DANGLING of `check`).
HeadComplete == head # NoGen => gens[head] # Absent

\* Every generation below HEAD is on disk or named by the .reclaimed journal,
\* wherever a collection stopped: `check` never reports GEN_GAP for a deletion
\* of `reclaim` or `compact` (record-first, RFC 0010).
NoUnrecordedGap == \A n \in Gen : n < head => n \in OnDisk \cup reclaimed

\* At most one generation is newer than HEAD, and it is HEAD's successor: the
\* NEWER_THAN_HEAD artifact of a publish that died between its two renames.
OneArtifact == \A n \in Gen : n > head + 1 => n \notin OnDisk

\* A live publisher finds its staging file when it comes to rename it, although
\* compactions sweep staging files meanwhile.
StagingKept == \A w \in Writers :
                  wpc[w] \in WriterStaging => <<w, TRUE>> \in tmps

\* The L3 read-back after the HEAD rename finds the new HEAD and its payload.
Verified == \A w \in Writers :
               wpc[w] = "committed" =>
                   /\ head = wbase[w] + 1
                   /\ gens[head] = wout[w]

\* The file behind a handle opened at HEAD never changes under it: publications
\* never mutate a bound handle.
BoundImmutable ==
    \A r \in Readers :
        (rpc[r] = "open" /\ rmode[r] = "head") =>
            /\ rgen[r] <= head
            /\ gens[rgen[r]] \in {Absent, rsnap[r]}

\* A generation someone holds open stays on disk, unless its pin appeared after
\* a running collector had listed the pins and chosen that generation.
EarlyPinProtects ==
    \A r \in Readers :
        (rpc[r] = "open" /\ ~rlate[r]) => rgen[r] \in OnDisk

\* An open bound by HEAD is only ever sent round its retry loop by a HEAD that
\* moved on: each retry reads a strictly newer generation.
RetriesFollowHead ==
    \A r \in Readers :
        /\ (rpc[r] \in {"pin", "load"} /\ rmode[r] = "head") =>
              rgen[r] >= rfirst[r] + rtries[r]
        /\ rpc[r] = "retry" => head >= rfirst[r] + rtries[r]

\* A prune that has run out of victims has left nothing below HEAD but what was
\* pinned, whatever an interrupted earlier run left behind.
PruneConverges ==
    \A c \in Collectors :
        (cpc[c] = "next" /\ cplan[c] = {} /\ cjob[c].kind = "prune") =>
            \A g \in OnDisk : g < head => g \in cpinned[c]

\* What the manifest says was removed is absent and in the journal.
ManifestTruthful == manifest \subseteq reclaimed \ OnDisk

-----------------------------------------------------------------------------
(* Claims of the documentation that the code does not keep.                *)

\* "the generation cannot be reclaimed out from under the reader" (module
\* docstring): a bound handle's generation stays on disk.
PinProtects == \A r \in Readers : rpc[r] = "open" => rgen[r] \in OnDisk

-----------------------------------------------------------------------------
(* Refinement: what readers of HEAD and of older numbers may rely on.      *)

Committed == [g \in Gen |-> IF g <= head THEN gens[g] ELSE Absent]

Abstract == INSTANCE GenStore WITH avail <- Committed

\* Every step is an atomic publication of the next generation on the current
\* HEAD, a reclamation below HEAD, or invisible: no lost update, no rewritten
\* generation, no HEAD that goes back.
Implements == Abstract!Spec

-----------------------------------------------------------------------------
(* Liveness.                                                               *)

\* Whoever holds .HEAD.lock lets it go: no path through publish, reclaim or
\* compact keeps it, failing or dying ones included.
LockFreed == \A p \in Writers \cup Collectors : lock = p ~> lock # p

\* An `open` ends: it binds a handle or raises, however HEAD churns meanwhile.
OpenEnds == \A r \in Readers : rpc[r] = "pin" ~> rpc[r] \in {"open", "idle"}

=============================================================================

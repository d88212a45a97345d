----------------------------- MODULE StoreDisk -----------------------------
(***************************************************************************)
(* The snapshot store below its promises: what the durability levels of    *)
(* publish and of the journal of reclaim and compact make survive when the *)
(* operating system goes down, and what check and repair see of a store    *)
(* that others are using (runner/mncs_index/store.py).  Module Store has   *)
(* the same operations above a disk that loses nothing, with the pins and  *)
(* schedules that choose the victims; here any generation below HEAD may   *)
(* be one, and a generation is whole or torn, whoever wrote it.            *)
(*                                                                         *)
(* The disk is external.  A rename is atomic; until the next fsync of the  *)
(* directory each name may come back with any value it has had since the   *)
(* last one, independently of the others, and a file renamed without its   *)
(* own fsync may come back torn.                                           *)
(***************************************************************************)
EXTENDS Integers, FiniteSets

CONSTANTS
    Publishers,
    Collectors,
    Levels,      \* the durability levels a store may be opened with
    None,        \* no such entry, nobody
    Torn,        \* a file whose bytes did not all arrive
    Whole,       \* a generation that passes _validate_stored
    MaxGen,      \* bound on the generation numbers
    MaxFaults,   \* bound on deaths and failed operations
    MaxOutages   \* bound on operating-system crashes

Gen == 0..MaxGen

ASSUME DiskAssumption ==
    /\ Levels \subseteq {"L0", "L1", "L2", "L3"}
    /\ MaxGen \in Nat /\ MaxFaults \in Nat /\ MaxOutages \in Nat
    /\ None # Torn /\ Torn # Whole /\ Whole # None
    /\ None \notin Gen /\ Torn \notin Gen /\ \A S \in SUBSET Gen : S # Torn
ASSUME RolesAssumption ==
    None \notin Publishers \cup Collectors /\ Publishers \cap Collectors = {}

HEAD == <<"HEAD", 0>>
Journal == <<".reclaimed", 0>>
File(g) == <<"gen", g>>
Names == {HEAD, Journal} \cup {File(g) : g \in Gen}

\* Staging files: one for each publisher, one for HEAD and one for the journal.
HeadTmp == <<".HEAD.tmp", None>>
JournalTmp == <<".reclaimed.tmp", None>>
GenTmp(p) == <<".gen.tmp", p>>

VARIABLES
    level,      \* the level every process of this store uses
    dir,        \* the directory as processes see it: a value for each name
    may,        \* the values each name may have after an outage
    tmps,       \* staging files
    lock,       \* who holds .HEAD.lock
    ppc, base,  \* of a publisher: its place in publish, and expected_base
    cpc, todo,  \* of a collector: its place, and the victims left
    kpc, listed, khead, valid,   \* one check
    moved,      \* HEAD moved between its listing and its reading of HEAD
    condemned,  \* generations a collector recorded, not published again since
    acked,      \* the newest generation whose publish returned
    faults, outages

diskVars == <<dir, may>>
pubVars == <<ppc, base>>
colVars == <<cpc, todo>>
checkVars == <<kpc, listed, khead, valid, moved>>
hist == <<condemned, acked>>
counts == <<faults, outages>>
vars == <<level, diskVars, tmps, lock, pubVars, colVars, checkVars, hist, counts>>

AtLeast(l) == level \in (CASE l = "L1" -> {"L1", "L2", "L3"} [] l = "L2" -> {"L2", "L3"}
                           [] l = "L3" -> {"L3"})

Init ==
    /\ level \in Levels
    /\ dir = [n \in Names |-> IF n = Journal THEN {} ELSE None]
    /\ may = [n \in Names |-> {dir[n]}]
    /\ tmps = {}
    /\ lock = None
    /\ ppc = [p \in Publishers |-> "idle"] /\ base = [p \in Publishers |-> None]
    /\ cpc = [c \in Collectors |-> "idle"] /\ todo = [c \in Collectors |-> {}]
    /\ kpc = "idle" /\ listed = {} /\ khead = None /\ valid = {}
    /\ moved = FALSE
    /\ condemned = {} /\ acked = None
    /\ faults = 0 /\ outages = 0

-----------------------------------------------------------------------------
(* The disk *)

(* os.replace of a staging file, synced before (L1) or not, onto a name.   *)
Rename(n, value) ==
    /\ dir' = [dir EXCEPT ![n] = value]
    /\ may' = [may EXCEPT ![n] = @ \cup {value} \cup (IF AtLeast("L1") THEN {} ELSE {Torn})]

Unlink(n) ==
    /\ dir' = [dir EXCEPT ![n] = None]
    /\ may' = [may EXCEPT ![n] = @ \cup {None}]

(* _fsync_dir, where the level asks for it. *)
SyncDir ==
    /\ may' = IF AtLeast("L2") THEN [n \in Names |-> {dir[n]}] ELSE may
    /\ UNCHANGED dir

\* Fault: the barrier is not issued.
NoSync == UNCHANGED <<dir, may>>

\* Fault: a torn journal hides every gap.
ReadReclaimedTrusting == IF dir[Journal] = Torn THEN Gen ELSE dir[Journal]

(* A torn or missing journal reads as empty. *)
ReadReclaimed == IF dir[Journal] = Torn THEN {} ELSE dir[Journal]

-----------------------------------------------------------------------------
(* publish *)

Goto(p, at) == ppc' = [ppc EXCEPT ![p] = at]

(* The caller reads HEAD, which must not be malformed, and publish stages  *)
(* the generation that follows it.                                         *)
Stage(p) ==
    /\ ppc[p] = "idle"
    /\ dir[HEAD] # Torn /\ (dir[HEAD] # None => dir[HEAD] < MaxGen)
    /\ base' = [base EXCEPT ![p] = dir[HEAD]]
    /\ tmps' = tmps \cup {GenTmp(p)}
    /\ Goto(p, "staged")
    /\ UNCHANGED <<level, diskVars, lock, colVars, checkVars, hist, counts>>

Next1(b) == IF b = None THEN 0 ELSE b + 1

LockForPublish(p) ==
    /\ ppc[p] = "staged" /\ lock = None
    /\ IF dir[HEAD] = base[p]
       THEN lock' = p /\ Goto(p, "locked") /\ UNCHANGED tmps
       ELSE tmps' = tmps \ {GenTmp(p)} /\ Goto(p, "idle") /\ UNCHANGED lock
    /\ UNCHANGED <<level, diskVars, base, colVars, checkVars, hist, counts>>

RenameGeneration(p) ==
    /\ ppc[p] = "locked" /\ GenTmp(p) \in tmps
    /\ Rename(File(Next1(base[p])), Whole)
    /\ tmps' = tmps \ {GenTmp(p)}
    /\ Goto(p, "renamed")
    /\ condemned' = condemned \ {Next1(base[p])}
    /\ UNCHANGED <<level, lock, base, colVars, checkVars, acked, counts>>

\* Fault: the directory is synced once, at the end.
SyncGenerationLater(p) ==
    /\ ppc[p] = "renamed"
    /\ NoSync
    /\ tmps' = tmps \cup {HeadTmp}
    /\ Goto(p, "headstaged")
    /\ UNCHANGED <<level, lock, base, colVars, checkVars, hist, counts>>

(* Sync the directory, then stage HEAD. *)
SyncGeneration(p) ==
    /\ ppc[p] = "renamed"
    /\ SyncDir
    /\ tmps' = tmps \cup {HeadTmp}
    /\ Goto(p, "headstaged")
    /\ UNCHANGED <<level, lock, base, colVars, checkVars, hist, counts>>

RenameHead(p) ==
    /\ ppc[p] = "headstaged" /\ HeadTmp \in tmps
    /\ Rename(HEAD, Next1(base[p]))
    /\ tmps' = tmps \ {HeadTmp}
    /\ Goto(p, "headrenamed")
    /\ moved' = (kpc = "listed" \/ moved)
    /\ UNCHANGED <<level, lock, base, colVars, kpc, listed, khead, valid, hist, counts>>

\* Fault: the commit is acknowledged without the last barrier.
SyncHeadSkipped(p) ==
    /\ ppc[p] = "headrenamed"
    /\ NoSync
    /\ Goto(p, "synced")
    /\ UNCHANGED <<level, tmps, lock, base, colVars, checkVars, hist, counts>>

SyncHead(p) ==
    /\ ppc[p] = "headrenamed"
    /\ SyncDir
    /\ Goto(p, "synced")
    /\ UNCHANGED <<level, tmps, lock, base, colVars, checkVars, hist, counts>>

(* The re-read of L3, and the return. *)
Acknowledge(p) ==
    /\ ppc[p] = "synced"
    /\ AtLeast("L3") => dir[HEAD] = Next1(base[p]) /\ dir[File(Next1(base[p]))] = Whole
    /\ acked' = Next1(base[p])
    /\ lock' = None
    /\ Goto(p, "idle")
    /\ UNCHANGED <<level, diskVars, tmps, base, colVars, checkVars, condemned, counts>>

(* An operation fails, a staging file is gone, or the process dies; only a *)
(* death leaves the staging file of the generation.                        *)
PublishFails(p) ==
    /\ ppc[p] # "idle"
    /\ \/ /\ \/ ppc[p] = "locked" /\ GenTmp(p) \notin tmps
             \/ ppc[p] = "headstaged" /\ HeadTmp \notin tmps
          /\ UNCHANGED faults
          /\ tmps' = tmps \ {GenTmp(p)}
       \/ /\ faults < MaxFaults
          /\ faults' = faults + 1
          /\ tmps' \in {tmps, tmps \ {GenTmp(p)}}
    /\ lock' = IF lock = p THEN None ELSE lock
    /\ Goto(p, "idle")
    /\ UNCHANGED <<level, diskVars, base, colVars, checkVars, hist, outages>>

-----------------------------------------------------------------------------
(* reclaim and compact *)

Step(c, at) == cpc' = [cpc EXCEPT ![c] = at]

\* Fault: HEAD itself may be a victim.
BelowOrHead == {g \in Gen : dir[File(g)] # None /\ g <= dir[HEAD]}

Below == {g \in Gen : dir[File(g)] # None /\ g < dir[HEAD]}

LockForCollect(c) ==
    /\ cpc[c] = "idle" /\ lock = None
    /\ dir[HEAD] \notin {None, Torn}
    /\ \E victims \in (SUBSET Below) \ {{}} : todo' = [todo EXCEPT ![c] = victims]
    /\ lock' = c
    /\ Step(c, "record")
    /\ UNCHANGED <<level, diskVars, tmps, pubVars, checkVars, hist, counts>>

Smallest(S) == {g \in S : \A h \in S : g <= h}
Victim(c) == Smallest(todo[c])

StageJournal(c) ==
    /\ cpc[c] = "record" /\ todo[c] # {}
    /\ tmps' = tmps \cup {JournalTmp}
    /\ Step(c, "journal")
    /\ UNCHANGED <<level, diskVars, lock, pubVars, todo, checkVars, hist, counts>>

\* Fault: the victim is deleted and never recorded.
RenameJournalForgotten(c) ==
    /\ cpc[c] = "journal" /\ JournalTmp \in tmps
    /\ tmps' = tmps \ {JournalTmp}
    /\ Step(c, "recorded")
    /\ condemned' = condemned \cup Victim(c)
    /\ UNCHANGED <<level, diskVars, lock, pubVars, todo, checkVars, acked, counts>>

RenameJournal(c) ==
    /\ cpc[c] = "journal" /\ JournalTmp \in tmps
    /\ Rename(Journal, ReadReclaimed \cup Victim(c))
    /\ tmps' = tmps \ {JournalTmp}
    /\ Step(c, "recorded")
    /\ condemned' = condemned \cup Victim(c)
    /\ UNCHANGED <<level, lock, pubVars, todo, checkVars, acked, counts>>

\* Fault: no barrier between the record and the deletion.
SyncJournalSkipped(c) ==
    /\ cpc[c] = "recorded"
    /\ NoSync
    /\ Step(c, "unlink")
    /\ UNCHANGED <<level, tmps, lock, pubVars, todo, checkVars, hist, counts>>

SyncJournal(c) ==
    /\ cpc[c] = "recorded"
    /\ SyncDir
    /\ Step(c, "unlink")
    /\ UNCHANGED <<level, tmps, lock, pubVars, todo, checkVars, hist, counts>>

UnlinkVictim(c) ==
    /\ cpc[c] = "unlink"
    /\ \E g \in Victim(c) : Unlink(File(g))
    /\ Step(c, "unlinked")
    /\ UNCHANGED <<level, tmps, lock, pubVars, todo, checkVars, hist, counts>>

SyncUnlink(c) ==
    /\ cpc[c] = "unlinked"
    /\ SyncDir
    /\ todo' = [todo EXCEPT ![c] = @ \ Victim(c)]
    /\ Step(c, "record")
    /\ UNCHANGED <<level, tmps, lock, pubVars, checkVars, hist, counts>>

CollectEnds(c) ==
    /\ cpc[c] = "record" /\ todo[c] = {}
    /\ lock' = None
    /\ Step(c, "idle")
    /\ UNCHANGED <<level, diskVars, tmps, pubVars, todo, checkVars, hist, counts>>

CollectFails(c) ==
    /\ cpc[c] # "idle"
    /\ \/ cpc[c] = "journal" /\ JournalTmp \notin tmps /\ UNCHANGED faults
       \/ faults < MaxFaults /\ faults' = faults + 1
    /\ lock' = None
    /\ todo' = [todo EXCEPT ![c] = {}]
    /\ Step(c, "idle")
    /\ UNCHANGED <<level, diskVars, tmps, pubVars, checkVars, hist, outages>>

-----------------------------------------------------------------------------
(* check and repair take no lock. *)

ListStore ==
    /\ kpc = "idle"
    /\ listed' = {g \in Gen : dir[File(g)] # None}
    /\ moved' = FALSE
    /\ kpc' = "listed"
    /\ UNCHANGED <<level, diskVars, tmps, lock, pubVars, colVars, khead, valid, hist, counts>>

(* HEAD missing or malformed is reported and ends the comparison. *)
ReadHead ==
    /\ kpc = "listed"
    /\ khead' = dir[HEAD]
    /\ kpc' = "head"
    /\ UNCHANGED <<level, diskVars, tmps, lock, pubVars, colVars, listed, valid, moved, hist, counts>>

OpenGenerations ==
    /\ kpc = "head"
    /\ valid' = {g \in listed : dir[File(g)] = Whole}
    /\ kpc' = "opened"
    /\ UNCHANGED <<level, diskVars, tmps, lock, pubVars, colVars, listed, khead, moved, hist, counts>>

(* What check says of a HEAD h, generations listed and valid, a journal.   *)
Report(h, seen, good, reclaimed) ==
    LET upto == IF h \in {None, Torn} THEN {} ELSE 0..h
    IN  [dangling |-> upto # {} /\ h \notin seen,
         gaps |-> {n \in upto : n \notin reclaimed \cup seen},
         quiet |-> h \in good /\ good = seen /\ \A n \in upto : n \in reclaimed \cup seen]

(* The report it returns depends on the journal as it is now. *)
Issues == Report(khead, listed, valid, ReadReclaimed)

ReportIssues ==
    /\ kpc = "opened"
    /\ kpc' = "idle"
    /\ listed' = {} /\ khead' = None /\ valid' = {} /\ moved' = FALSE
    /\ UNCHANGED <<level, diskVars, tmps, lock, pubVars, colVars, hist, counts>>

(* repair unlinks staging files, whoever they belong to. *)
Repair(t) ==
    /\ t \in tmps
    /\ tmps' = tmps \ {t}
    /\ UNCHANGED <<level, diskVars, lock, pubVars, colVars, checkVars, hist, counts>>

-----------------------------------------------------------------------------
(* The operating system goes down: every process dies, and the directory   *)
(* comes back with one of the values each name may have.                   *)
Outage ==
    /\ outages < MaxOutages
    /\ outages' = outages + 1
    /\ \E h \in may[HEAD], j \in may[Journal], gs \in [Gen -> {None, Torn, Whole}] :
          /\ \A g \in Gen : gs[g] \in may[File(g)]
          /\ dir' = [n \in Names |-> CASE n = HEAD -> h [] n = Journal -> j [] OTHER -> gs[n[2]]]
    /\ may' = [n \in Names |-> {dir'[n]}]
    /\ tmps' \in {tmps, {}}
    /\ lock' = None
    /\ ppc' = [p \in Publishers |-> "idle"] /\ base' = [p \in Publishers |-> None]
    /\ cpc' = [c \in Collectors |-> "idle"] /\ todo' = [c \in Collectors |-> {}]
    /\ kpc' = "idle" /\ listed' = {} /\ khead' = None /\ valid' = {}
    /\ moved' = FALSE
    /\ UNCHANGED <<level, hist, faults>>

Next ==
    \/ \E p \in Publishers :
          \/ Stage(p) \/ LockForPublish(p) \/ RenameGeneration(p) \/ SyncGeneration(p)
          \/ RenameHead(p) \/ SyncHead(p) \/ Acknowledge(p) \/ PublishFails(p)
    \/ \E c \in Collectors :
          \/ LockForCollect(c) \/ StageJournal(c) \/ RenameJournal(c) \/ SyncJournal(c)
          \/ UnlinkVictim(c) \/ SyncUnlink(c) \/ CollectEnds(c) \/ CollectFails(c)
    \/ ListStore \/ ReadHead \/ OpenGenerations \/ ReportIssues
    \/ \E t \in tmps : Repair(t)
    \/ Outage

Spec == Init /\ [][Next]_vars

-----------------------------------------------------------------------------
(* Properties *)

Values(n) ==
    CASE n = HEAD -> Gen \cup {None, Torn}
      [] n = Journal -> {Torn} \cup SUBSET Gen
      [] OTHER -> {None, Torn, Whole}

TypeOK ==
    /\ level \in Levels
    /\ DOMAIN dir = Names /\ DOMAIN may = Names
    /\ \A n \in Names : dir[n] \in may[n] /\ may[n] \subseteq Values(n)
    /\ tmps \subseteq {HeadTmp, JournalTmp} \cup {GenTmp(p) : p \in Publishers}
    /\ lock \in Publishers \cup Collectors \cup {None}
    /\ ppc \in [Publishers -> {"idle", "staged", "locked", "renamed", "headstaged",
                               "headrenamed", "synced"}]
    /\ base \in [Publishers -> Gen \cup {None}]
    /\ cpc \in [Collectors -> {"idle", "record", "journal", "recorded", "unlink", "unlinked"}]
    /\ todo \in [Collectors -> SUBSET Gen]
    /\ kpc \in {"idle", "listed", "head", "opened"}
    /\ listed \subseteq Gen /\ khead \in Gen \cup {None, Torn} /\ valid \subseteq listed
    /\ moved \in BOOLEAN
    /\ condemned \subseteq Gen /\ acked \in Gen \cup {None}
    /\ faults \in 0..MaxFaults /\ outages \in 0..MaxOutages

(* Whatever processes die, at every level, HEAD names a whole generation:  *)
(* the two renames are ordered.                                            *)
HeadWhole ==
    outages = 0 /\ dir[HEAD] # None => dir[File(dir[HEAD])] = Whole

(* Durable after acknowledgement: at L2 and L3, whatever an outage takes,  *)
(* HEAD comes back at the generation publish returned or at a newer one,   *)
(* and it is whole.                                                        *)
AckDurable ==
    AtLeast("L2") =>
        \A h \in may[HEAD] :
            /\ acked # None => h \notin {None, Torn} /\ h >= acked
            /\ h # None => may[File(h)] = {Whole}

(* At L2 and L3 no outage turns a reclaimed generation into a gap: every   *)
(* generation up to the HEAD that comes back is there or in the journal    *)
(* that comes back, whichever of their values the names take.              *)
NoGapAfterOutage ==
    AtLeast("L2") =>
        \A h \in may[HEAD], j \in may[Journal] :
            h # None => \A n \in 0..h : n \in j \/ may[File(n)] = {Whole}

(* A check reports HEAD_DANGLING or a GEN_GAP of a store that lost nothing *)
(* only when a publication moved HEAD between its listing of the directory *)
(* and its reading of HEAD; a collector at work never makes it report one. *)
CheckHonest ==
    kpc = "opened" /\ (AtLeast("L2") \/ outages = 0) =>
        (Issues.dangling \/ Issues.gaps # {} => moved)

(* Below L2 an outage may lose generations, but not silently: when a check *)
(* of what came back finds nothing, every generation up to HEAD is whole   *)
(* or was recorded by a collector.                                         *)
FailClosed ==
    LET present == {g \in Gen : dir[File(g)] # None}
        whole == {g \in Gen : dir[File(g)] = Whole}
    IN  outages <= 1 /\ Report(dir[HEAD], present, whole, ReadReclaimed).quiet =>
            \A n \in 0..dir[HEAD] : n \in whole \cup condemned

=============================================================================

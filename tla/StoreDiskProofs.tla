--------------------------- MODULE StoreDiskProofs ---------------------------
(***************************************************************************)
(* What the durability levels of StoreDisk promise, for every number of    *)
(* processes and generations, and any number of outages: what survives at  *)
(* L2 and L3, what an outage below them may not hide, and what a check may  *)
(* say of a store others are using.                                        *)
(***************************************************************************)
EXTENDS StoreDisk, TLAPS

PubLocked == {"locked", "renamed", "headstaged", "headrenamed", "synced"}
Succ(p) == Next1(base[p])

\* A publication under way has room for its generation.
RoomInv == \A p \in Publishers : ppc[p] # "idle" => Succ(p) \in Gen

\* A check has validated nothing before it opens the generations it listed.
FreshInv == kpc # "opened" => valid = {}

TypeInv == TypeOK /\ RoomInv /\ FreshInv

-----------------------------------------------------------------------------
(* Names and levels. *)

LEMMA NamesDiffer ==
  /\ HEAD \in Names /\ Journal \in Names /\ HEAD # Journal
  /\ \A g \in Gen : File(g) \in Names /\ File(g) # HEAD /\ File(g) # Journal /\ File(g)[2] = g
  /\ \A g, h : File(g) = File(h) => g = h
  /\ \A n \in Names : n = HEAD \/ n = Journal \/ \E g \in Gen : n = File(g)
BY DEF Names, HEAD, Journal, File

LEMMA ValuesOf ==
  /\ Values(HEAD) = Gen \cup {None, Torn}
  /\ Values(Journal) = {Torn} \cup SUBSET Gen
  /\ \A g \in Gen : Values(File(g)) = {None, Torn, Whole}
BY NamesDiffer DEF Values

\* What the types say of the three kinds of names.
LEMMA NameTypes ==
  ASSUME TypeOK
  PROVE  /\ dir[HEAD] \in Gen \cup {None, Torn} /\ may[HEAD] \subseteq Gen \cup {None, Torn}
         /\ dir[HEAD] \in may[HEAD] /\ dir[Journal] \in may[Journal]
         /\ dir[Journal] \in {Torn} \cup SUBSET Gen /\ may[Journal] \subseteq {Torn} \cup SUBSET Gen
         /\ \A g \in Gen : /\ dir[File(g)] \in may[File(g)]
                           /\ may[File(g)] \subseteq {None, Torn, Whole}
<1>1. \A n \in Names : dir[n] \in may[n] /\ may[n] \subseteq Values(n)
  BY DEF TypeOK
<1>2. dir[HEAD] \in may[HEAD] /\ may[HEAD] \subseteq Gen \cup {None, Torn}
  BY <1>1, NamesDiffer, ValuesOf
<1>3. dir[Journal] \in may[Journal] /\ may[Journal] \subseteq {Torn} \cup SUBSET Gen
  BY <1>1, NamesDiffer, ValuesOf
<1>4. \A g \in Gen : dir[File(g)] \in may[File(g)] /\ may[File(g)] \subseteq {None, Torn, Whole}
  BY <1>1, NamesDiffer, ValuesOf
<1>5. QED
  BY <1>2, <1>3, <1>4

LEMMA Barriers ==
  ASSUME TypeOK
  PROVE  /\ AtLeast("L2") <=> level \in {"L2", "L3"}
         /\ AtLeast("L2") => AtLeast("L1")
BY DiskAssumption DEF TypeOK, AtLeast

LEMMA Numbers ==
  /\ Gen \subseteq Nat /\ MaxGen \in Nat
  /\ None \notin Gen /\ Torn \notin Gen /\ None # Torn /\ Torn # Whole /\ Whole # None
  /\ \A S \in SUBSET Gen : S # Torn
  /\ \A h \in Gen : Next1(h) = h + 1 /\ \A n \in 0..h : n \in Gen
  /\ Next1(None) = 0 /\ 0 \in Gen
BY DiskAssumption DEF Gen, Next1

LEMMA FirstOf ==
  ASSUME NEW S \in SUBSET Gen, NEW g \in Smallest(S)
  PROVE  g \in S /\ \A h \in Smallest(S) : h = g
BY Numbers DEF Smallest

-----------------------------------------------------------------------------
(* What a step does to the disk. *)

GenerationPlaced(p) ==
    /\ ppc[p] = "locked" /\ ppc'[p] = "renamed"
    /\ Rename(File(Succ(p)), Whole)
    /\ condemned' = condemned \ {Succ(p)}
    /\ UNCHANGED <<acked, outages, cpc, todo, checkVars>>

HeadPlaced(p) ==
    /\ ppc[p] = "headstaged" /\ ppc'[p] = "headrenamed"
    /\ Rename(HEAD, Succ(p))
    /\ UNCHANGED <<acked, condemned, outages, cpc, todo>>
    /\ moved' = (kpc = "listed" \/ moved) /\ UNCHANGED <<kpc, listed, khead, valid>>

JournalPlaced(c) ==
    /\ cpc[c] = "journal" /\ cpc'[c] = "recorded"
    /\ Rename(Journal, ReadReclaimed \cup Victim(c))
    /\ condemned' = condemned \cup Victim(c)
    /\ UNCHANGED <<acked, outages, ppc, base, todo, checkVars>>

VictimGone(c) ==
    /\ cpc[c] = "unlink" /\ cpc'[c] = "unlinked"
    /\ \E g \in Victim(c) : Unlink(File(g))
    /\ UNCHANGED <<acked, condemned, outages, ppc, base, todo, checkVars>>

\* A barrier, or nothing.
Quiet ==
    /\ diskVars' = diskVars \/ SyncDir
    /\ UNCHANGED <<condemned, outages>>
    /\ acked' = acked \/ \E p \in Publishers : Acknowledge(p)

LEMMA DiskSteps ==
  ASSUME TypeOK, [Next]_vars
  PROVE  /\ level' = level
         /\ \/ \E p \in Publishers : GenerationPlaced(p) \/ HeadPlaced(p)
            \/ \E c \in Collectors : JournalPlaced(c) \/ VictimGone(c)
            \/ Outage
            \/ Quiet
<1>1. ASSUME NEW p \in Publishers, RenameGeneration(p) PROVE GenerationPlaced(p)
  BY <1>1 DEF TypeOK, RenameGeneration, GenerationPlaced, Goto, Succ, counts, colVars
<1>2. ASSUME NEW p \in Publishers, RenameHead(p) PROVE HeadPlaced(p)
  BY <1>2 DEF TypeOK, RenameHead, HeadPlaced, Goto, Succ, counts, colVars, hist
<1>3. ASSUME NEW c \in Collectors, RenameJournal(c) PROVE JournalPlaced(c)
  BY <1>3 DEF TypeOK, RenameJournal, JournalPlaced, Step, counts, pubVars
<1>4. ASSUME NEW c \in Collectors, UnlinkVictim(c) PROVE VictimGone(c)
  BY <1>4 DEF TypeOK, UnlinkVictim, VictimGone, Step, counts, pubVars, hist
<1>5. ASSUME NEW p \in Publishers,
             \/ Stage(p) \/ LockForPublish(p) \/ SyncGeneration(p) \/ SyncHead(p)
             \/ Acknowledge(p) \/ PublishFails(p)
      PROVE  Quiet
  BY <1>5 DEF Quiet, Stage, LockForPublish, SyncGeneration, SyncHead, Acknowledge, PublishFails,
              hist, counts
<1>6. ASSUME NEW c \in Collectors,
             \/ LockForCollect(c) \/ StageJournal(c) \/ SyncJournal(c) \/ SyncUnlink(c)
             \/ CollectEnds(c) \/ CollectFails(c)
      PROVE  Quiet
  BY <1>6 DEF Quiet, LockForCollect, StageJournal, SyncJournal, SyncUnlink, CollectEnds,
              CollectFails, hist, counts
<1>7. CASE ListStore \/ ReadHead \/ OpenGenerations \/ ReportIssues \/ UNCHANGED vars
           \/ \E t \in tmps : Repair(t)
  BY <1>7 DEF Quiet, ListStore, ReadHead, OpenGenerations, ReportIssues, Repair, vars, hist, counts
<1>8. level' = level
  BY DEF Next, Stage, LockForPublish, RenameGeneration, SyncGeneration, RenameHead, SyncHead,
         Acknowledge, PublishFails, LockForCollect, StageJournal, RenameJournal, SyncJournal,
         UnlinkVictim, SyncUnlink, CollectEnds, CollectFails, ListStore, ReadHead,
         OpenGenerations, ReportIssues, Repair, Outage, vars
<1>9. QED
  BY <1>1, <1>2, <1>3, <1>4, <1>5, <1>6, <1>7, <1>8 DEF Next

-----------------------------------------------------------------------------
(* Types. *)

DiskTypes ==
    /\ DOMAIN dir = Names /\ DOMAIN may = Names
    /\ \A n \in Names : dir[n] \in may[n] /\ may[n] \subseteq Values(n)

LEMMA RenameTypes ==
  ASSUME DiskTypes, NEW n \in Names, NEW v \in Values(n), Rename(n, v)
  PROVE  DiskTypes'
<1>1. Torn \in Values(n)
  BY NamesDiffer, ValuesOf
<1>2. QED
  BY <1>1 DEF DiskTypes, Rename

LEMMA UnlinkTypes ==
  ASSUME DiskTypes, NEW g \in Gen, Unlink(File(g))
  PROVE  DiskTypes'
BY NamesDiffer, ValuesOf DEF DiskTypes, Unlink

LEMMA SyncTypes ==
  ASSUME DiskTypes, SyncDir
  PROVE  DiskTypes'
BY DEF DiskTypes, SyncDir

LEMMA OutageTypes ==
  ASSUME DiskTypes, Outage
  PROVE  /\ DiskTypes' /\ \A n \in Names : may'[n] = {dir'[n]} /\ dir'[n] \in may[n]
<1>1. PICK h \in may[HEAD], j \in may[Journal], gs \in [Gen -> {None, Torn, Whole}] :
          /\ \A g \in Gen : gs[g] \in may[File(g)]
          /\ dir' = [n \in Names |-> CASE n = HEAD -> h [] n = Journal -> j [] OTHER -> gs[n[2]]]
  BY DEF Outage
<1>2. may' = [n \in Names |-> {dir'[n]}]
  BY DEF Outage
<1>3. dir'[HEAD] = h /\ dir'[Journal] = j /\ \A g \in Gen : dir'[File(g)] = gs[g]
  BY <1>1, NamesDiffer
<1>4. \A n \in Names : dir'[n] \in may[n]
  BY <1>1, <1>3, NamesDiffer
<1>5. QED
  BY <1>1, <1>2, <1>4 DEF DiskTypes

LEMMA DiskTypeStep ==
  ASSUME TypeInv, [Next]_vars
  PROVE  DiskTypes'
<1>0. DiskTypes /\ TypeOK
  BY DEF TypeInv, TypeOK, DiskTypes
<1>1. ASSUME NEW p \in Publishers, GenerationPlaced(p) PROVE DiskTypes'
  <2>1. Succ(p) \in Gen
    BY <1>1 DEF TypeInv, RoomInv, GenerationPlaced
  <2>2. File(Succ(p)) \in Names /\ Whole \in Values(File(Succ(p)))
    BY <2>1, NamesDiffer, ValuesOf
  <2>3. QED
    BY <1>0, <1>1, <2>2, RenameTypes DEF GenerationPlaced
<1>2. ASSUME NEW p \in Publishers, HeadPlaced(p) PROVE DiskTypes'
  <2>1. Succ(p) \in Gen
    BY <1>2 DEF TypeInv, RoomInv, HeadPlaced
  <2>2. Succ(p) \in Values(HEAD) /\ HEAD \in Names
    BY <2>1, NamesDiffer, ValuesOf
  <2>3. QED
    BY <1>0, <1>2, <2>2, RenameTypes DEF HeadPlaced
<1>3. ASSUME NEW c \in Collectors, JournalPlaced(c) PROVE DiskTypes'
  <2>1. Victim(c) \subseteq Gen
    BY <1>0 DEF TypeOK, Victim, Smallest
  <2>2. ReadReclaimed \subseteq Gen
    BY <1>0, NameTypes DEF ReadReclaimed
  <2>3. ReadReclaimed \cup Victim(c) \in Values(Journal) /\ Journal \in Names
    BY <2>1, <2>2, NamesDiffer, ValuesOf
  <2>4. QED
    BY <1>0, <1>3, <2>3, RenameTypes DEF JournalPlaced
<1>4. ASSUME NEW c \in Collectors, VictimGone(c) PROVE DiskTypes'
  <2>1. Victim(c) \subseteq Gen
    BY <1>0 DEF TypeOK, Victim, Smallest
  <2>2. QED
    BY <1>0, <1>4, <2>1, UnlinkTypes DEF VictimGone
<1>5. CASE Outage
  BY <1>0, <1>5, OutageTypes
<1>6. CASE Quiet
  <2>1. CASE diskVars' = diskVars
    BY <1>0, <2>1 DEF DiskTypes, diskVars
  <2>2. CASE SyncDir
    BY <1>0, <2>2, SyncTypes
  <2>3. QED
    BY <1>6, <2>1, <2>2 DEF Quiet
<1>7. QED
  BY <1>0, <1>1, <1>2, <1>3, <1>4, <1>5, <1>6, DiskSteps

ProcTypes ==
    /\ level \in Levels
    /\ tmps \subseteq {HeadTmp, JournalTmp} \cup {GenTmp(p) : p \in Publishers}
    /\ lock \in Publishers \cup Collectors \cup {None}
    /\ ppc \in [Publishers -> {"idle", "staged", "locked", "renamed", "headstaged",
                               "headrenamed", "synced"}]
    /\ base \in [Publishers -> Gen \cup {None}]
    /\ cpc \in [Collectors -> {"idle", "record", "journal", "recorded", "unlink", "unlinked"}]
    /\ todo \in [Collectors -> SUBSET Gen]
    /\ kpc \in {"idle", "listed", "head", "opened"}
    /\ listed \subseteq Gen /\ khead \in Gen \cup {None, Torn} /\ valid \subseteq listed
    /\ moved \in BOOLEAN
    /\ condemned \subseteq Gen /\ acked \in Gen \cup {None}
    /\ faults \in 0..MaxFaults /\ outages \in 0..MaxOutages
    /\ RoomInv /\ FreshInv

LEMMA PublisherTypes ==
  ASSUME TypeInv, NEW p \in Publishers,
         \/ Stage(p) \/ LockForPublish(p) \/ RenameGeneration(p) \/ SyncGeneration(p)
         \/ RenameHead(p) \/ SyncHead(p) \/ Acknowledge(p) \/ PublishFails(p)
  PROVE  ProcTypes'
<1>0. ProcTypes /\ dir[HEAD] \in Gen \cup {None, Torn}
  BY NameTypes DEF TypeInv, TypeOK, ProcTypes
<1>a. ppc[p] # "idle" => Succ(p) \in Gen
  BY <1>0 DEF ProcTypes, FreshInv, RoomInv
<1> USE <1>0, DiskAssumption
    DEF ProcTypes, FreshInv, RoomInv, Succ, Goto, pubVars, colVars, checkVars, hist, counts
<1>1. CASE Stage(p)
  <2>1. dir[HEAD] \in Gen \cup {None} /\ Next1(dir[HEAD]) \in Gen
    BY <1>1, Numbers DEF Stage, Gen
  <2>2. QED
    BY <1>1, <2>1 DEF Stage
<1>2. CASE LockForPublish(p)
  BY <1>2 DEF LockForPublish
<1>3. CASE RenameGeneration(p)
  BY <1>3 DEF RenameGeneration
<1>4. CASE SyncGeneration(p)
  BY <1>4 DEF SyncGeneration
<1>5. CASE RenameHead(p)
  BY <1>5 DEF RenameHead
<1>6. CASE SyncHead(p)
  BY <1>6 DEF SyncHead
<1>7. CASE Acknowledge(p)
  BY <1>7, <1>a DEF Acknowledge
<1>8. CASE PublishFails(p)
  BY <1>8 DEF PublishFails
<1>9. QED
  BY <1>1, <1>2, <1>3, <1>4, <1>5, <1>6, <1>7, <1>8

LEMMA CollectorTypes ==
  ASSUME TypeInv, NEW c \in Collectors,
         \/ LockForCollect(c) \/ StageJournal(c) \/ RenameJournal(c) \/ SyncJournal(c)
         \/ UnlinkVictim(c) \/ SyncUnlink(c) \/ CollectEnds(c) \/ CollectFails(c)
  PROVE  ProcTypes'
<1>0. ProcTypes
  BY DEF TypeInv, TypeOK, ProcTypes
<1> USE <1>0, DiskAssumption
    DEF ProcTypes, FreshInv, RoomInv, Succ, Step, pubVars, colVars, checkVars, hist, counts
<1>1. CASE LockForCollect(c)
  <2>1. PICK victims \in SUBSET Below : todo' = [todo EXCEPT ![c] = victims]
    BY <1>1 DEF LockForCollect
  <2>2. victims \subseteq Gen
    BY DEF Below
  <2>3. QED
    BY <1>1, <2>1, <2>2 DEF LockForCollect
<1>2. CASE StageJournal(c)
  BY <1>2 DEF StageJournal
<1>3. CASE RenameJournal(c)
  BY <1>3 DEF RenameJournal, Victim, Smallest
<1>4. CASE SyncJournal(c)
  BY <1>4 DEF SyncJournal
<1>5. CASE UnlinkVictim(c)
  BY <1>5 DEF UnlinkVictim
<1>6. CASE SyncUnlink(c)
  BY <1>6 DEF SyncUnlink
<1>7. CASE CollectEnds(c)
  BY <1>7 DEF CollectEnds
<1>8. CASE CollectFails(c)
  BY <1>8 DEF CollectFails
<1>9. QED
  BY <1>1, <1>2, <1>3, <1>4, <1>5, <1>6, <1>7, <1>8

LEMMA TypeStep == TypeInv /\ [Next]_vars => TypeInv'
<1> SUFFICES ASSUME TypeInv, [Next]_vars PROVE TypeInv'
  OBVIOUS
<1>0. ProcTypes /\ dir[HEAD] \in Gen \cup {None, Torn}
  BY NameTypes DEF TypeInv, TypeOK, ProcTypes
<1>1. ProcTypes'
  <2>1. CASE ListStore
    BY <1>0, <2>1 DEF ProcTypes, FreshInv, RoomInv, Succ, ListStore, diskVars, pubVars, colVars, hist, counts
  <2>2. CASE ReadHead
    BY <1>0, <2>2 DEF ProcTypes, FreshInv, RoomInv, Succ, ReadHead, diskVars, pubVars, colVars, hist, counts
  <2>3. CASE OpenGenerations
    BY <1>0, <2>3 DEF ProcTypes, FreshInv, RoomInv, Succ, OpenGenerations, diskVars, pubVars, colVars,
       hist, counts
  <2>4. CASE ReportIssues
    BY <1>0, <2>4 DEF ProcTypes, FreshInv, RoomInv, Succ, ReportIssues, diskVars, pubVars, colVars,
       hist, counts
  <2>5. CASE \E t \in tmps : Repair(t)
    BY <1>0, <2>5 DEF ProcTypes, FreshInv, RoomInv, Succ, Repair, diskVars, pubVars, colVars, checkVars,
       hist, counts
  <2>6. CASE UNCHANGED vars
    BY <1>0, <2>6 DEF ProcTypes, FreshInv, RoomInv, Succ, vars, diskVars, pubVars, colVars, checkVars,
       hist, counts
  <2>7. CASE Outage
    <3>1. tmps' \subseteq tmps /\ outages' \in 0..MaxOutages /\ faults' = faults
      BY <1>0, <2>7, DiskAssumption DEF Outage, ProcTypes
    <3>2. /\ ppc' \in [Publishers -> {"idle"}] /\ base' \in [Publishers -> {None}]
          /\ cpc' \in [Collectors -> {"idle"}] /\ todo' \in [Collectors -> {{}}]
      BY <2>7 DEF Outage
    <3>3. RoomInv'
      BY <3>2 DEF RoomInv
    <3>4. lock' = None /\ kpc' = "idle" /\ listed' = {} /\ khead' = None /\ valid' = {}
          /\ moved' = FALSE /\ level' = level /\ condemned' = condemned /\ acked' = acked
      BY <2>7 DEF Outage, hist
    <3>5. tmps' \subseteq {HeadTmp, JournalTmp} \cup {GenTmp(p) : p \in Publishers}
      BY <1>0, <3>1 DEF ProcTypes
    <3>6. /\ ppc' \in [Publishers -> {"idle", "staged", "locked", "renamed", "headstaged",
                                      "headrenamed", "synced"}]
          /\ base' \in [Publishers -> Gen \cup {None}]
          /\ cpc' \in [Collectors -> {"idle", "record", "journal", "recorded", "unlink", "unlinked"}]
          /\ todo' \in [Collectors -> SUBSET Gen]
      BY <3>2
    <3>7. QED
      BY <1>0, <3>1, <3>3, <3>4, <3>5, <3>6 DEF ProcTypes, FreshInv
  <2>8. QED
    BY <2>1, <2>2, <2>3, <2>4, <2>5, <2>6, <2>7, PublisherTypes, CollectorTypes DEF Next
<1>2. QED
  BY <1>1, DiskTypeStep DEF ProcTypes, DiskTypes, TypeInv, TypeOK

LEMMA TypeInit == Init => TypeInv
<1> SUFFICES ASSUME Init PROVE TypeInv
  OBVIOUS
<1>1. ProcTypes
  <2>1. RoomInv
    BY DEF Init, RoomInv
  <2>2. ppc \in [Publishers -> {"idle"}] /\ base \in [Publishers -> {None}]
        /\ cpc \in [Collectors -> {"idle"}] /\ todo \in [Collectors -> {{}}]
    BY DEF Init
  <2>3. /\ ppc \in [Publishers -> {"idle", "staged", "locked", "renamed", "headstaged",
                                    "headrenamed", "synced"}]
        /\ base \in [Publishers -> Gen \cup {None}]
        /\ cpc \in [Collectors -> {"idle", "record", "journal", "recorded", "unlink", "unlinked"}]
        /\ todo \in [Collectors -> SUBSET Gen]
    BY <2>2
  <2>4. tmps = {} /\ lock = None /\ kpc = "idle" /\ listed = {} /\ khead = None /\ valid = {}
        /\ moved = FALSE /\ condemned = {} /\ acked = None /\ level \in Levels
    BY DEF Init
  <2>5. faults \in 0..MaxFaults /\ outages \in 0..MaxOutages
    BY DiskAssumption DEF Init
  <2>6. FreshInv
    BY <2>4 DEF FreshInv
  <2>7. QED
    BY <2>1, <2>3, <2>4, <2>5, <2>6 DEF ProcTypes
<1>2. dir[HEAD] = None /\ dir[Journal] = {} /\ \A g \in Gen : dir[File(g)] = None
  BY NamesDiffer DEF Init
<1>3. DiskTypes
  <2>1. \A n \in Names : dir[n] \in Values(n)
    BY <1>2, NamesDiffer, ValuesOf
  <2>2. QED
    BY <2>1 DEF Init, DiskTypes
<1>4. QED
  BY <1>1, <1>3 DEF ProcTypes, DiskTypes, TypeInv, TypeOK

(* Every name of the directory keeps values of its kind, and every process *)
(* its place, through any number of outages.                               *)
THEOREM TypeCorrect == Spec => []TypeOK
<1>1. TypeInv => TypeOK
  BY DEF TypeInv
<1>2. QED
  BY <1>1, TypeInit, TypeStep, PTL DEF Spec

-----------------------------------------------------------------------------
(* Who holds the lock, and what it guards. *)

LockInv ==
    /\ \A p \in Publishers : lock = p <=> ppc[p] \in PubLocked
    /\ \A c \in Collectors : lock = c <=> cpc[c] # "idle"

\* While its publisher works, HEAD and the generation are where it put them.
PubOk(p) ==
    /\ ppc[p] \in {"locked", "renamed", "headstaged"} => dir[HEAD] = base[p]
    /\ ppc[p] \in {"renamed", "headstaged", "headrenamed", "synced"} => dir[File(Succ(p))] = Whole
    /\ ppc[p] \in {"headrenamed", "synced"} => dir[HEAD] = Succ(p)

\* The victims are below HEAD, and one about to go is in the journal.
ColOk(c) ==
    /\ cpc[c] # "idle" => dir[HEAD] \in Gen /\ \A n \in todo[c] : n < dir[HEAD]
    /\ cpc[c] \in {"recorded", "unlink", "unlinked"} =>
          Victim(c) \subseteq condemned /\ dir[Journal] # Torn /\ Victim(c) \subseteq dir[Journal]

WorkInv ==
    /\ LockInv
    /\ \A p \in Publishers : PubOk(p)
    /\ \A c \in Collectors : ColOk(c)

LEMMA PublisherAlone ==
  ASSUME LockInv, NEW p \in Publishers, ppc[p] \in PubLocked
  PROVE  /\ \A q \in Publishers : q # p => ppc[q] \notin PubLocked
         /\ \A c \in Collectors : cpc[c] = "idle"
BY RolesAssumption DEF LockInv

LEMMA CollectorAlone ==
  ASSUME LockInv, NEW c \in Collectors, cpc[c] # "idle"
  PROVE  /\ \A p \in Publishers : ppc[p] \notin PubLocked
         /\ \A d \in Collectors : d # c => cpc[d] = "idle"
BY RolesAssumption DEF LockInv

LEMMA PublisherLock ==
  ASSUME TypeInv, LockInv, NEW p \in Publishers,
         \/ Stage(p) \/ LockForPublish(p) \/ RenameGeneration(p) \/ SyncGeneration(p)
         \/ RenameHead(p) \/ SyncHead(p) \/ Acknowledge(p) \/ PublishFails(p)
  PROVE  LockInv'
<1> USE RolesAssumption DEF TypeInv, TypeOK, LockInv, Goto, PubLocked, pubVars, colVars
<1>1. CASE Stage(p)
  BY <1>1 DEF Stage
<1>2. CASE LockForPublish(p)
  BY <1>2 DEF LockForPublish
<1>3. CASE RenameGeneration(p)
  BY <1>3 DEF RenameGeneration
<1>4. CASE SyncGeneration(p)
  BY <1>4 DEF SyncGeneration
<1>5. CASE RenameHead(p)
  BY <1>5 DEF RenameHead
<1>6. CASE SyncHead(p)
  BY <1>6 DEF SyncHead
<1>7. CASE Acknowledge(p)
  BY <1>7 DEF Acknowledge
<1>8. CASE PublishFails(p)
  BY <1>8 DEF PublishFails
<1>9. QED
  BY <1>1, <1>2, <1>3, <1>4, <1>5, <1>6, <1>7, <1>8

LEMMA CollectorLock ==
  ASSUME TypeInv, LockInv, NEW c \in Collectors,
         \/ LockForCollect(c) \/ StageJournal(c) \/ RenameJournal(c) \/ SyncJournal(c)
         \/ UnlinkVictim(c) \/ SyncUnlink(c) \/ CollectEnds(c) \/ CollectFails(c)
  PROVE  LockInv'
<1> USE RolesAssumption DEF TypeInv, TypeOK, LockInv, Step, PubLocked, pubVars, colVars
<1>1. CASE LockForCollect(c)
  BY <1>1 DEF LockForCollect
<1>2. CASE StageJournal(c)
  BY <1>2 DEF StageJournal
<1>3. CASE RenameJournal(c)
  BY <1>3 DEF RenameJournal
<1>4. CASE SyncJournal(c)
  BY <1>4 DEF SyncJournal
<1>5. CASE UnlinkVictim(c)
  BY <1>5 DEF UnlinkVictim
<1>6. CASE SyncUnlink(c)
  BY <1>6 DEF SyncUnlink
<1>7. CASE CollectEnds(c)
  BY <1>7 DEF CollectEnds
<1>8. CASE CollectFails(c)
  BY <1>8 DEF CollectFails
<1>9. QED
  BY <1>1, <1>2, <1>3, <1>4, <1>5, <1>6, <1>7, <1>8

LEMMA WaitingOk ==
  /\ \A p \in Publishers : ppc'[p] \notin PubLocked => PubOk(p)'
  /\ \A c \in Collectors : cpc'[c] = "idle" => ColOk(c)'
BY DEF PubOk, ColOk, PubLocked

LEMMA PublisherWork ==
  ASSUME TypeInv, WorkInv, NEW p \in Publishers,
         \/ Stage(p) \/ LockForPublish(p) \/ RenameGeneration(p) \/ SyncGeneration(p)
         \/ RenameHead(p) \/ SyncHead(p) \/ Acknowledge(p) \/ PublishFails(p)
  PROVE  WorkInv'
<1>0. /\ TypeOK /\ LockInv
      /\ ppc \in [Publishers -> {"idle", "staged", "locked", "renamed", "headstaged",
                                 "headrenamed", "synced"}]
      /\ base \in [Publishers -> Gen \cup {None}]
      /\ ppc[p] # "idle" => Succ(p) \in Gen
      /\ DOMAIN dir = Names
  BY DEF TypeInv, TypeOK, RoomInv, WorkInv
<1>1. LockInv'
  BY <1>0, PublisherLock
<1>2. \A q \in Publishers : q # p => ppc'[q] = ppc[q] /\ base'[q] = base[q]
  BY <1>0 DEF Stage, LockForPublish, RenameGeneration, SyncGeneration, RenameHead, SyncHead,
         Acknowledge, PublishFails, Goto, pubVars
<1>3. UNCHANGED <<cpc, todo>>
  BY DEF Stage, LockForPublish, RenameGeneration, SyncGeneration, RenameHead, SyncHead,
         Acknowledge, PublishFails, colVars
<1>4. CASE RenameGeneration(p) \/ RenameHead(p)
  <2>1. ppc[p] \in PubLocked /\ PubOk(p)
    BY <1>4 DEF RenameGeneration, RenameHead, PubLocked, WorkInv
  <2>2. \A q \in Publishers : q # p => PubOk(q)'
    BY <1>0, <1>2, <2>1, PublisherAlone, WaitingOk
  <2>3. \A c \in Collectors : ColOk(c)'
    BY <1>0, <1>3, <2>1, PublisherAlone, WaitingOk
  <2>4. CASE RenameGeneration(p)
    <3>1. Succ(p) \in Gen /\ File(Succ(p)) \in Names /\ HEAD # File(Succ(p)) /\ HEAD \in Names
      BY <1>0, <2>4, NamesDiffer DEF RenameGeneration
    <3>2. base' = base /\ ppc'[p] = "renamed"
      BY <1>0, <2>4 DEF RenameGeneration, Goto
    <3>3. dir'[File(Succ(p))] = Whole /\ dir'[HEAD] = dir[HEAD]
      BY <1>0, <2>4, <3>1 DEF RenameGeneration, Rename, Succ
    <3>4. dir[HEAD] = base[p]
      BY <2>1, <2>4 DEF PubOk, RenameGeneration
    <3>5. PubOk(p)'
      BY <3>2, <3>3, <3>4 DEF PubOk, Succ
    <3>6. QED
      BY <1>1, <2>2, <2>3, <3>5 DEF WorkInv
  <2>5. CASE RenameHead(p)
    <3>1. Succ(p) \in Gen /\ File(Succ(p)) \in Names /\ HEAD # File(Succ(p)) /\ HEAD \in Names
      BY <1>0, <2>5, NamesDiffer DEF RenameHead
    <3>2. base' = base /\ ppc'[p] = "headrenamed"
      BY <1>0, <2>5 DEF RenameHead, Goto
    <3>3. dir'[HEAD] = Succ(p) /\ dir'[File(Succ(p))] = dir[File(Succ(p))]
      BY <1>0, <2>5, <3>1 DEF RenameHead, Rename, Succ
    <3>4. dir[File(Succ(p))] = Whole
      BY <2>1, <2>5 DEF PubOk, RenameHead
    <3>5. PubOk(p)'
      BY <3>2, <3>3, <3>4 DEF PubOk, Succ
    <3>6. QED
      BY <1>1, <2>2, <2>3, <3>5 DEF WorkInv
  <2>6. QED
    BY <1>4, <2>4, <2>5
<1>5. CASE ~(RenameGeneration(p) \/ RenameHead(p))
  <2>1. UNCHANGED <<dir, condemned>>
    BY <1>5 DEF Stage, LockForPublish, SyncGeneration, SyncHead, SyncDir, Acknowledge,
           PublishFails, diskVars, hist
  <2>2. \A q \in Publishers : q # p => PubOk(q)'
    BY <1>2, <2>1 DEF WorkInv, PubOk, Succ
  <2>3. \A c \in Collectors : ColOk(c)'
    BY <1>3, <2>1 DEF WorkInv, ColOk, Victim
  <2>4. PubOk(p)'
    <3>0. PubOk(p)
      BY DEF WorkInv
    <3>1. CASE Stage(p) \/ Acknowledge(p) \/ PublishFails(p)
      BY <1>0, <3>1, WaitingOk DEF Stage, Acknowledge, PublishFails, Goto, PubLocked
    <3>2. CASE LockForPublish(p)
      BY <1>0, <2>1, <3>2 DEF LockForPublish, Goto, PubOk
    <3>3. CASE SyncGeneration(p)
      BY <1>0, <2>1, <3>0, <3>3 DEF SyncGeneration, Goto, PubOk, Succ
    <3>4. CASE SyncHead(p)
      BY <1>0, <2>1, <3>0, <3>4 DEF SyncHead, Goto, PubOk, Succ, pubVars
    <3>5. QED
      BY <1>5, <3>1, <3>2, <3>3, <3>4
  <2>5. QED
    BY <1>1, <2>2, <2>3, <2>4 DEF WorkInv
<1>6. QED
  BY <1>4, <1>5

LEMMA CollectorWork ==
  ASSUME TypeInv, WorkInv, NEW c \in Collectors,
         \/ LockForCollect(c) \/ StageJournal(c) \/ RenameJournal(c) \/ SyncJournal(c)
         \/ UnlinkVictim(c) \/ SyncUnlink(c) \/ CollectEnds(c) \/ CollectFails(c)
  PROVE  WorkInv'
<1>0. /\ TypeOK /\ LockInv
      /\ cpc \in [Collectors -> {"idle", "record", "journal", "recorded", "unlink", "unlinked"}]
      /\ todo \in [Collectors -> SUBSET Gen]
      /\ DOMAIN dir = Names
  BY DEF TypeInv, TypeOK, WorkInv
<1>1. LockInv'
  BY <1>0, CollectorLock
<1>2. \A d \in Collectors : d # c => cpc'[d] = cpc[d]
  BY <1>0 DEF LockForCollect, StageJournal, RenameJournal, SyncJournal, UnlinkVictim, SyncUnlink,
         CollectEnds, CollectFails, Step
<1>3. UNCHANGED <<ppc, base>>
  BY DEF LockForCollect, StageJournal, RenameJournal, SyncJournal, UnlinkVictim, SyncUnlink,
         CollectEnds, CollectFails, pubVars
<1>4. \A d \in Collectors : cpc'[d] = "idle" \/ d = c
  <2>1. CASE LockForCollect(c)
    BY <1>0, <1>2, <2>1, RolesAssumption DEF LockForCollect, LockInv
  <2>2. CASE ~LockForCollect(c)
    <3>1. cpc[c] # "idle"
      BY <2>2 DEF StageJournal, RenameJournal, SyncJournal, UnlinkVictim, SyncUnlink,
             CollectEnds, CollectFails
    <3>2. QED
      BY <1>0, <1>2, <3>1, CollectorAlone
  <2>3. QED
    BY <2>1, <2>2
<1>5. \A p \in Publishers : PubOk(p)'
  <2>1. \A p \in Publishers : ppc[p] \notin PubLocked
    <3>1. CASE LockForCollect(c)
      BY <1>0, <3>1, RolesAssumption DEF LockForCollect, LockInv
    <3>2. CASE ~LockForCollect(c)
      <4>1. cpc[c] # "idle"
        BY <3>2 DEF StageJournal, RenameJournal, SyncJournal, UnlinkVictim, SyncUnlink,
               CollectEnds, CollectFails
      <4>2. QED
        BY <1>0, <4>1, CollectorAlone
    <3>3. QED
      BY <3>1, <3>2
  <2>2. QED
    BY <1>3, <2>1, WaitingOk
<1>6. ColOk(c)'
  <2>0. ColOk(c)
    BY DEF WorkInv
  <2>n. Journal \in Names /\ HEAD \in Names /\ HEAD # Journal
    BY NamesDiffer
  <2>1. CASE LockForCollect(c)
    <3>1. PICK victims \in SUBSET Below : todo' = [todo EXCEPT ![c] = victims]
      BY <2>1 DEF LockForCollect
    <3>2. dir' = dir /\ cpc'[c] = "record" /\ todo'[c] = victims
      BY <1>0, <2>1, <3>1 DEF LockForCollect, Step, diskVars
    <3>3. dir[HEAD] \in Gen
      BY <1>0, <2>1, NameTypes DEF LockForCollect
    <3>4. \A n \in victims : n < dir[HEAD]
      BY DEF Below
    <3>5. QED
      BY <3>2, <3>3, <3>4 DEF ColOk
  <2>2. CASE StageJournal(c)
    BY <1>0, <2>0, <2>2 DEF StageJournal, Step, ColOk, diskVars
  <2>3. CASE RenameJournal(c)
    <3>1. dir'[HEAD] = dir[HEAD] /\ dir'[Journal] = ReadReclaimed \cup Victim(c)
      BY <1>0, <2>n, <2>3 DEF RenameJournal, Rename
    <3>2. todo' = todo /\ Victim(c)' = Victim(c) /\ condemned' = condemned \cup Victim(c)
      BY <2>3 DEF RenameJournal, Victim
    <3>3. ReadReclaimed \cup Victim(c) # Torn
      BY <1>0, NameTypes, Numbers DEF ReadReclaimed, Victim, Smallest
    <3>4. dir[HEAD] \in Gen /\ \A n \in todo[c] : n < dir[HEAD]
      BY <2>0, <2>3 DEF ColOk, RenameJournal
    <3>5. QED
      BY <3>1, <3>2, <3>3, <3>4 DEF ColOk
  <2>4. CASE SyncJournal(c)
    BY <1>0, <2>0, <2>4 DEF SyncJournal, SyncDir, Step, ColOk, Victim, hist
  <2>5. CASE UnlinkVictim(c)
    <3>1. Victim(c) \subseteq Gen
      BY <1>0 DEF Victim, Smallest
    <3>2. dir'[HEAD] = dir[HEAD] /\ dir'[Journal] = dir[Journal]
      BY <1>0, <2>5, <3>1, NamesDiffer DEF UnlinkVictim, Unlink
    <3>3. QED
      BY <1>0, <2>0, <2>5, <3>2 DEF UnlinkVictim, Step, ColOk, Victim, hist
  <2>6. CASE SyncUnlink(c)
    BY <1>0, <2>0, <2>6 DEF SyncUnlink, SyncDir, Step, ColOk
  <2>7. CASE CollectEnds(c) \/ CollectFails(c)
    BY <1>0, <2>7, WaitingOk DEF CollectEnds, CollectFails, Step
  <2>8. QED
    BY <2>1, <2>2, <2>3, <2>4, <2>5, <2>6, <2>7
<1>7. QED
  BY <1>1, <1>4, <1>5, <1>6, WaitingOk DEF WorkInv

LEMMA WorkStep == TypeInv /\ WorkInv /\ [Next]_vars => WorkInv'
<1> SUFFICES ASSUME TypeInv, WorkInv, [Next]_vars PROVE WorkInv'
  OBVIOUS
<1>1. ASSUME \/ ListStore \/ ReadHead \/ OpenGenerations \/ ReportIssues \/ UNCHANGED vars
             \/ \E t \in tmps : Repair(t)
      PROVE  WorkInv'
  <2>1. UNCHANGED <<dir, lock, ppc, base, cpc, todo, condemned>>
    BY <1>1 DEF ListStore, ReadHead, OpenGenerations, ReportIssues, Repair, vars, diskVars,
           pubVars, colVars, hist
  <2>2. QED
    BY <2>1 DEF WorkInv, LockInv, PubOk, ColOk, Succ, Victim
<1>2. CASE Outage
  <2>1. /\ lock' = None /\ \A p \in Publishers : ppc'[p] = "idle"
        /\ \A c \in Collectors : cpc'[c] = "idle"
    BY <1>2 DEF Outage
  <2>2. LockInv'
    BY <2>1, RolesAssumption DEF LockInv, PubLocked
  <2>3. QED
    BY <2>1, <2>2, WaitingOk DEF WorkInv, PubLocked
<1>3. QED
  BY <1>1, <1>2, PublisherWork, CollectorWork DEF Next

LEMMA WorkInit == Init => WorkInv
BY RolesAssumption DEF Init, WorkInv, LockInv, PubOk, ColOk, PubLocked

-----------------------------------------------------------------------------
(* What an outage would leave, where the directory is synced. *)

Survives ==
    /\ \A n \in Names : Torn \notin may[n]
    /\ \A h \in may[HEAD] : acked # None => h # None /\ h >= acked
    /\ \A h \in may[HEAD] : h # None => /\ may[File(h)] = {Whole}
                                        /\ dir[HEAD] # None /\ h <= dir[HEAD]
    /\ \A h \in may[HEAD], j \in may[Journal] :
          h # None => \A n \in 0..h : n \in j \/ may[File(n)] = {Whole}

\* What each barrier has settled by the time it is relied on.
Settled ==
    /\ \A p \in Publishers : ppc[p] = "headstaged" => may[File(Succ(p))] = {Whole}
    /\ \A p \in Publishers : ppc[p] = "synced" => may[HEAD] = {Succ(p)}
    /\ \A c \in Collectors :
          cpc[c] = "unlink" => may[Journal] = {dir[Journal]} /\ may[HEAD] = {dir[HEAD]}

DurInv == AtLeast("L2") => Survives /\ Settled

LEMMA SettledPublisher ==
  ASSUME TypeInv, WorkInv, AtLeast("L2"), Settled, NEW p \in Publishers,
         \/ Stage(p) \/ LockForPublish(p) \/ RenameGeneration(p) \/ SyncGeneration(p)
         \/ RenameHead(p) \/ SyncHead(p) \/ Acknowledge(p) \/ PublishFails(p)
  PROVE  Settled'
<1>0. /\ TypeOK /\ LockInv
      /\ ppc \in [Publishers -> {"idle", "staged", "locked", "renamed", "headstaged",
                                 "headrenamed", "synced"}]
      /\ base \in [Publishers -> Gen \cup {None}]
      /\ ppc[p] # "idle" => Succ(p) \in Gen
      /\ PubOk(p)
  BY DEF TypeInv, TypeOK, RoomInv, WorkInv
<1>1. /\ \A q \in Publishers : q # p => ppc'[q] = ppc[q] /\ base'[q] = base[q]
      /\ UNCHANGED <<cpc, todo>>
  BY <1>0 DEF Stage, LockForPublish, RenameGeneration, SyncGeneration, RenameHead, SyncHead,
         Acknowledge, PublishFails, Goto, pubVars, colVars
<1>2. CASE RenameGeneration(p) \/ SyncGeneration(p) \/ RenameHead(p) \/ SyncHead(p)
  <2>1. ppc[p] \in PubLocked
    BY <1>2 DEF RenameGeneration, SyncGeneration, RenameHead, SyncHead, PubLocked
  <2>2. /\ \A q \in Publishers : q # p => ppc'[q] \notin PubLocked
        /\ \A c \in Collectors : cpc'[c] = "idle"
    BY <1>0, <1>1, <2>1, PublisherAlone
  <2>3. base' = base
    BY <1>2 DEF RenameGeneration, SyncGeneration, RenameHead, SyncHead, pubVars
  <2>4. ppc'[p] = "headstaged" => may'[File(Succ(p))] = {Whole}
    <3>1. SUFFICES ASSUME SyncGeneration(p) PROVE may'[File(Succ(p))] = {Whole}
      BY <1>0, <1>2 DEF RenameGeneration, RenameHead, SyncHead, Goto
    <3>2. dir[File(Succ(p))] = Whole /\ File(Succ(p)) \in Names
      BY <1>0, <3>1, NamesDiffer DEF SyncGeneration, PubOk
    <3>3. QED
      BY <3>1, <3>2 DEF SyncGeneration, SyncDir
  <2>5. ppc'[p] = "synced" => may'[HEAD] = {Succ(p)}
    <3>1. SUFFICES ASSUME SyncHead(p) PROVE may'[HEAD] = {Succ(p)}
      BY <1>0, <1>2 DEF RenameGeneration, SyncGeneration, RenameHead, Goto
    <3>2. dir[HEAD] = Succ(p) /\ HEAD \in Names
      BY <1>0, <3>1, NamesDiffer DEF SyncHead, PubOk
    <3>3. QED
      BY <3>1, <3>2 DEF SyncHead, SyncDir
  <2>6. QED
    BY <2>2, <2>3, <2>4, <2>5 DEF Settled, Succ, PubLocked
<1>3. CASE Stage(p) \/ LockForPublish(p) \/ Acknowledge(p) \/ PublishFails(p)
  <2>1. ppc'[p] \in {"idle", "staged", "locked"} /\ UNCHANGED <<dir, may>>
    BY <1>0, <1>3 DEF Stage, LockForPublish, Acknowledge, PublishFails, Goto, diskVars
  <2>2. QED
    BY <1>1, <2>1 DEF Settled, Succ
<1>4. QED
  BY <1>2, <1>3

LEMMA SettledCollector ==
  ASSUME TypeInv, WorkInv, AtLeast("L2"), Settled, NEW c \in Collectors,
         \/ LockForCollect(c) \/ StageJournal(c) \/ RenameJournal(c) \/ SyncJournal(c)
         \/ UnlinkVictim(c) \/ SyncUnlink(c) \/ CollectEnds(c) \/ CollectFails(c)
  PROVE  Settled'
<1>0. /\ TypeOK /\ LockInv
      /\ cpc \in [Collectors -> {"idle", "record", "journal", "recorded", "unlink", "unlinked"}]
  BY DEF TypeInv, TypeOK, WorkInv
<1>1. /\ \A d \in Collectors : d # c => cpc'[d] = cpc[d]
      /\ UNCHANGED <<ppc, base>>
  BY <1>0 DEF LockForCollect, StageJournal, RenameJournal, SyncJournal, UnlinkVictim, SyncUnlink,
         CollectEnds, CollectFails, Step, pubVars
<1>2. CASE RenameJournal(c) \/ SyncJournal(c) \/ UnlinkVictim(c) \/ SyncUnlink(c)
  <2>1. cpc[c] # "idle"
    BY <1>2 DEF RenameJournal, SyncJournal, UnlinkVictim, SyncUnlink
  <2>2. /\ \A p \in Publishers : ppc'[p] \notin PubLocked
        /\ \A d \in Collectors : d # c => cpc'[d] = "idle"
    BY <1>0, <1>1, <2>1, CollectorAlone
  <2>3. cpc'[c] = "unlink" => may'[Journal] = {dir'[Journal]} /\ may'[HEAD] = {dir'[HEAD]}
    <3>1. SUFFICES ASSUME SyncJournal(c)
                   PROVE  may'[Journal] = {dir'[Journal]} /\ may'[HEAD] = {dir'[HEAD]}
      BY <1>0, <1>2 DEF RenameJournal, UnlinkVictim, SyncUnlink, Step
    <3>2. QED
      BY <3>1, NamesDiffer DEF SyncJournal, SyncDir
  <2>4. QED
    BY <2>2, <2>3 DEF Settled, PubLocked
<1>3. CASE LockForCollect(c) \/ StageJournal(c) \/ CollectEnds(c) \/ CollectFails(c)
  <2>1. cpc'[c] \in {"idle", "record", "journal"} /\ UNCHANGED <<dir, may>>
    BY <1>0, <1>3 DEF LockForCollect, StageJournal, CollectEnds, CollectFails, Step, diskVars
  <2>2. QED
    BY <1>1, <2>1 DEF Settled, Succ
<1>4. QED
  BY <1>2, <1>3

LEMMA SettledStep ==
  ASSUME TypeInv, WorkInv, AtLeast("L2"), Settled, [Next]_vars
  PROVE  Settled'
<1>1. ASSUME \/ ListStore \/ ReadHead \/ OpenGenerations \/ ReportIssues \/ UNCHANGED vars
             \/ \E t \in tmps : Repair(t)
      PROVE  Settled'
  <2>1. UNCHANGED <<dir, may, ppc, base, cpc>>
    BY <1>1 DEF ListStore, ReadHead, OpenGenerations, ReportIssues, Repair, vars, diskVars,
           pubVars, colVars
  <2>2. QED
    BY <2>1 DEF Settled, Succ
<1>2. CASE Outage
  BY <1>2 DEF Outage, Settled
<1>3. QED
  BY <1>1, <1>2, SettledPublisher, SettledCollector DEF Next

\* The generations an outage may bring HEAD back to.
LEMMA HeadMay ==
  ASSUME TypeOK, Survives, NEW h \in may[HEAD], h # None
  PROVE  h \in Gen /\ dir[HEAD] \in Gen /\ h <= dir[HEAD] /\ \A n \in 0..h : n \in Gen
<1>1. h \in Gen
  BY NameTypes, NamesDiffer DEF Survives
<1>2. dir[HEAD] \in Gen
  BY NameTypes, NamesDiffer DEF Survives
<1>3. QED
  BY <1>1, <1>2, Numbers DEF Survives

LEMMA SurvivesGeneration ==
  ASSUME TypeInv, WorkInv, AtLeast("L2"), Survives, NEW p \in Publishers, GenerationPlaced(p)
  PROVE  Survives'
<1>0. TypeOK /\ AtLeast("L1") /\ DOMAIN may = Names /\ DOMAIN dir = Names
  BY Barriers DEF TypeInv, TypeOK
<1>1. Succ(p) \in Gen /\ dir[HEAD] = base[p] /\ base[p] \in Gen \cup {None}
  BY <1>0 DEF TypeInv, TypeOK, RoomInv, WorkInv, PubOk, GenerationPlaced
<1>2. /\ \A n \in Names : n # File(Succ(p)) => may'[n] = may[n] /\ dir'[n] = dir[n]
      /\ may'[File(Succ(p))] = may[File(Succ(p))] \cup {Whole}
      /\ acked' = acked
  BY <1>0, <1>1, NamesDiffer DEF GenerationPlaced, Rename
<1>3. may'[HEAD] = may[HEAD] /\ may'[Journal] = may[Journal] /\ dir'[HEAD] = dir[HEAD]
  BY <1>1, <1>2, NamesDiffer
<1>4. ASSUME NEW h \in may[HEAD], h # None, NEW n \in 0..h
      PROVE  may'[File(n)] = may[File(n)]
  <2>1. h \in Gen /\ base[p] \in Gen /\ h <= base[p] /\ n \in Gen
    BY <1>0, <1>1, <1>4, HeadMay
  <2>2. Succ(p) = base[p] + 1
    BY <2>1, Numbers DEF Succ
  <2>3. n # Succ(p)
    BY <2>1, <2>2, DiskAssumption DEF Gen
  <2>4. QED
    BY <1>1, <1>2, <2>1, <2>3, NamesDiffer
<1>5. \A n \in Names : Torn \notin may'[n]
  BY <1>1, <1>2, NamesDiffer, Numbers DEF Survives
<1>6. \A h \in may'[HEAD] : acked' # None => h # None /\ h >= acked'
  BY <1>2, <1>3 DEF Survives
<1>7. ASSUME NEW h \in may[HEAD], h # None
      PROVE  may'[File(h)] = {Whole} /\ dir'[HEAD] # None /\ h <= dir'[HEAD]
  <2>1. h \in 0..h
    <3>1. h \in Gen
      BY <1>0, <1>7, HeadMay
    <3>2. QED
      BY <3>1, DiskAssumption DEF Gen
  <2>2. QED
    BY <1>3, <1>4, <1>7, <2>1 DEF Survives
<1>8. ASSUME NEW h \in may[HEAD], NEW j \in may[Journal], h # None, NEW n \in 0..h
      PROVE  n \in j \/ may'[File(n)] = {Whole}
  BY <1>4, <1>8 DEF Survives
<1>9. QED
  BY <1>3, <1>5, <1>6, <1>7, <1>8 DEF Survives

LEMMA SurvivesHead ==
  ASSUME TypeInv, WorkInv, AtLeast("L2"), Survives, Settled, NEW p \in Publishers, HeadPlaced(p)
  PROVE  Survives'
<1>0. TypeOK /\ AtLeast("L1") /\ DOMAIN may = Names /\ DOMAIN dir = Names
  BY Barriers DEF TypeInv, TypeOK
<1>1. /\ Succ(p) \in Gen /\ dir[HEAD] = base[p] /\ base[p] \in Gen \cup {None}
      /\ may[File(Succ(p))] = {Whole}
  BY <1>0 DEF TypeInv, TypeOK, RoomInv, WorkInv, PubOk, HeadPlaced, Settled
<1>2. /\ \A n \in Names : n # HEAD => may'[n] = may[n]
      /\ may'[HEAD] = may[HEAD] \cup {Succ(p)} /\ dir'[HEAD] = Succ(p)
      /\ acked' = acked /\ may'[Journal] = may[Journal]
      /\ \A n \in Gen : may'[File(n)] = may[File(n)]
  BY <1>0, <1>1, NamesDiffer DEF HeadPlaced, Rename
<1>3. Succ(p) # None /\ Succ(p) # Torn /\ Succ(p) \in Nat
  BY <1>1, Numbers
<1>4. ASSUME base[p] # None PROVE Succ(p) = base[p] + 1 /\ base[p] \in Gen /\ base[p] \in may[HEAD]
  BY <1>0, <1>1, <1>4, Numbers, NameTypes DEF Succ
<1>5. ASSUME NEW h \in may[HEAD], h # None PROVE h \in Gen /\ h <= base[p] /\ base[p] # None
  BY <1>0, <1>1, <1>5, HeadMay, Numbers
<1>6. \A n \in Names : Torn \notin may'[n]
  BY <1>2, <1>3, NamesDiffer DEF Survives
<1>7. ASSUME NEW h \in may'[HEAD], acked # None PROVE h # None /\ h >= acked
  <2>1. CASE h \in may[HEAD]
    BY <1>7, <2>1 DEF Survives
  <2>2. CASE h = Succ(p)
    <3>1. dir[HEAD] # None /\ dir[HEAD] >= acked /\ acked \in Gen
      BY <1>0, <1>7, NameTypes DEF Survives, TypeOK
    <3>2. Succ(p) = base[p] + 1 /\ base[p] \in Gen
      BY <1>1, <1>4, <3>1
    <3>3. QED
      BY <1>1, <1>3, <2>2, <3>1, <3>2, DiskAssumption DEF Gen
  <2>3. QED
    BY <1>2, <2>1, <2>2
<1>8. ASSUME NEW h \in may'[HEAD], h # None
      PROVE  may'[File(h)] = {Whole} /\ dir'[HEAD] # None /\ h <= dir'[HEAD]
  <2>1. CASE h \in may[HEAD]
    <3>1. h \in Gen /\ h <= base[p] /\ Succ(p) = base[p] + 1 /\ base[p] \in Gen
      BY <1>4, <1>5, <1>8, <2>1
    <3>2. may'[File(h)] = {Whole}
      BY <1>2, <1>8, <2>1, <3>1 DEF Survives
    <3>3. QED
      BY <1>2, <1>3, <3>1, <3>2, DiskAssumption DEF Gen
  <2>2. CASE h = Succ(p)
    BY <1>1, <1>2, <1>3, <2>2
  <2>3. QED
    BY <1>2, <2>1, <2>2
<1>9. ASSUME NEW h \in may'[HEAD], NEW j \in may[Journal], h # None, NEW n \in 0..h
      PROVE  n \in j \/ may'[File(n)] = {Whole}
  <2>1. CASE h \in may[HEAD]
    <3>1. n \in Gen
      BY <1>0, <1>9, <2>1, HeadMay
    <3>2. n \in j \/ may[File(n)] = {Whole}
      BY <1>9, <2>1 DEF Survives
    <3>3. QED
      BY <1>2, <3>1, <3>2
  <2>2. CASE h = Succ(p) /\ n = Succ(p)
    BY <1>1, <1>2, <2>2
  <2>3. CASE h = Succ(p) /\ n # Succ(p)
    <3>1. base[p] # None
      <4>1. SUFFICES ASSUME base[p] = None PROVE FALSE
        OBVIOUS
      <4>2. Succ(p) = 0
        BY <4>1, Numbers DEF Succ
      <4>3. QED
        BY <1>9, <2>3, <4>2
    <3>2. Succ(p) = base[p] + 1 /\ base[p] \in Gen /\ base[p] \in may[HEAD]
      BY <1>4, <3>1
    <3>3. n \in 0..base[p]
      BY <1>9, <2>3, <3>2, DiskAssumption DEF Gen
    <3>4. n \in j \/ may[File(n)] = {Whole}
      BY <1>9, <3>1, <3>2, <3>3 DEF Survives
    <3>5. n \in Gen
      BY <3>2, <3>3, Numbers
    <3>6. QED
      BY <1>2, <3>4, <3>5
  <2>4. QED
    BY <1>2, <2>1, <2>2, <2>3
<1>10. QED
  BY <1>2, <1>6, <1>7, <1>8, <1>9 DEF Survives

LEMMA SurvivesJournal ==
  ASSUME TypeInv, AtLeast("L2"), Survives, NEW c \in Collectors, JournalPlaced(c)
  PROVE  Survives'
<1>0. TypeOK /\ AtLeast("L1") /\ DOMAIN may = Names /\ DOMAIN dir = Names
  BY Barriers DEF TypeInv, TypeOK
<1>1. dir[Journal] \in may[Journal] /\ dir[Journal] # Torn /\ dir[Journal] \subseteq Gen
  BY <1>0, NameTypes, NamesDiffer DEF Survives
<1>2. Victim(c) \subseteq Gen
  BY <1>0 DEF TypeOK, Victim, Smallest
<1>d. DEFINE J == dir[Journal] \cup Victim(c)
<1>3. /\ \A n \in Names : n # Journal => may'[n] = may[n] /\ dir'[n] = dir[n]
      /\ may'[Journal] = may[Journal] \cup {J}
      /\ acked' = acked
  BY <1>0, <1>1, NamesDiffer DEF JournalPlaced, Rename, ReadReclaimed
<1>4. may'[HEAD] = may[HEAD] /\ dir'[HEAD] = dir[HEAD] /\ \A n \in Gen : may'[File(n)] = may[File(n)]
  BY <1>3, NamesDiffer
<1>5. J # Torn
  BY <1>1, <1>2, Numbers
<1>6. \A n \in Names : Torn \notin may'[n]
  BY <1>3, <1>5, NamesDiffer DEF Survives
<1>7. \A h \in may'[HEAD] : acked' # None => h # None /\ h >= acked'
  BY <1>3, <1>4 DEF Survives
<1>8. ASSUME NEW h \in may[HEAD], h # None
      PROVE  may'[File(h)] = {Whole} /\ dir'[HEAD] # None /\ h <= dir'[HEAD]
  <2>1. h \in Gen
    BY <1>0, <1>8, HeadMay
  <2>2. QED
    BY <1>4, <1>8, <2>1 DEF Survives
<1>9. ASSUME NEW h \in may[HEAD], NEW j \in may'[Journal], h # None, NEW n \in 0..h
      PROVE  n \in j \/ may'[File(n)] = {Whole}
  <2>1. n \in Gen
    BY <1>0, <1>9, HeadMay
  <2>2. CASE j \in may[Journal]
    <3>1. n \in j \/ may[File(n)] = {Whole}
      BY <1>9, <2>2 DEF Survives
    <3>2. QED
      BY <1>4, <2>1, <3>1
  <2>3. CASE j = J
    <3>1. n \in dir[Journal] \/ may[File(n)] = {Whole}
      BY <1>1, <1>9 DEF Survives
    <3>2. QED
      BY <1>4, <2>1, <2>3, <3>1
  <2>4. QED
    BY <1>3, <2>2, <2>3
<1>10. QED
  BY <1>4, <1>6, <1>7, <1>8, <1>9 DEF Survives

LEMMA SurvivesVictim ==
  ASSUME TypeInv, WorkInv, AtLeast("L2"), Survives, Settled, NEW c \in Collectors, VictimGone(c)
  PROVE  Survives'
<1>0. TypeOK /\ AtLeast("L1") /\ DOMAIN may = Names /\ DOMAIN dir = Names
  BY Barriers DEF TypeInv, TypeOK
<1>1. PICK g \in Victim(c) : Unlink(File(g))
  BY DEF VictimGone
<1>2. /\ g \in Gen /\ dir[HEAD] \in Gen /\ g < dir[HEAD] /\ g \in dir[Journal]
      /\ may[Journal] = {dir[Journal]} /\ may[HEAD] = {dir[HEAD]}
  <2>1. g \in todo[c] /\ todo[c] \subseteq Gen
    BY <1>0 DEF TypeOK, Victim, Smallest
  <2>2. cpc[c] = "unlink"
    BY DEF VictimGone
  <2>3. dir[HEAD] \in Gen /\ g < dir[HEAD] /\ g \in dir[Journal]
    BY <2>1, <2>2 DEF WorkInv, ColOk
  <2>4. may[Journal] = {dir[Journal]} /\ may[HEAD] = {dir[HEAD]}
    BY <2>2 DEF Settled
  <2>5. QED
    BY <2>1, <2>3, <2>4
<1>3. /\ \A n \in Names : n # File(g) => may'[n] = may[n] /\ dir'[n] = dir[n]
      /\ may'[File(g)] = may[File(g)] \cup {None}
      /\ acked' = acked
  BY <1>0, <1>1, <1>2, NamesDiffer DEF VictimGone, Unlink
<1>4. may'[HEAD] = may[HEAD] /\ may'[Journal] = may[Journal] /\ dir'[HEAD] = dir[HEAD]
  BY <1>2, <1>3, NamesDiffer
<1>5. \A n \in Gen : n # g => may'[File(n)] = may[File(n)]
  BY <1>2, <1>3, NamesDiffer
<1>6. \A n \in Names : Torn \notin may'[n]
  BY <1>2, <1>3, NamesDiffer, Numbers DEF Survives
<1>7. \A h \in may'[HEAD] : acked' # None => h # None /\ h >= acked'
  BY <1>3, <1>4 DEF Survives
<1>8. ASSUME NEW h \in may[HEAD], h # None
      PROVE  may'[File(h)] = {Whole} /\ dir'[HEAD] # None /\ h <= dir'[HEAD]
  <2>1. h = dir[HEAD] /\ h # g
    BY <1>2, <1>8, Numbers
  <2>2. QED
    BY <1>2, <1>4, <1>5, <1>8, <2>1 DEF Survives
<1>9. ASSUME NEW h \in may[HEAD], NEW j \in may[Journal], h # None, NEW n \in 0..h
      PROVE  n \in j \/ may'[File(n)] = {Whole}
  <2>1. n \in Gen
    BY <1>0, <1>9, HeadMay
  <2>2. CASE n = g
    BY <1>2, <1>9, <2>2
  <2>3. CASE n # g
    BY <1>5, <1>9, <2>1, <2>3 DEF Survives
  <2>4. QED
    BY <2>2, <2>3
<1>10. QED
  BY <1>4, <1>6, <1>7, <1>8, <1>9 DEF Survives

LEMMA SurvivesOutage ==
  ASSUME TypeInv, Survives, Outage
  PROVE  Survives'
<1>0. TypeOK /\ DiskTypes
  BY DEF TypeInv, TypeOK, DiskTypes
<1>1. \A n \in Names : may'[n] = {dir'[n]} /\ dir'[n] \in may[n]
  BY <1>0, OutageTypes
<1>2. acked' = acked
  BY DEF Outage, hist
<1>d. DEFINE h == dir'[HEAD]
             j == dir'[Journal]
<1>3. /\ may'[HEAD] = {h} /\ h \in may[HEAD] /\ may'[Journal] = {j} /\ j \in may[Journal]
      /\ \A n \in Gen : may'[File(n)] = {dir'[File(n)]} /\ dir'[File(n)] \in may[File(n)]
  BY <1>1, NamesDiffer
<1>4. \A n \in Names : Torn \notin may'[n]
  BY <1>1 DEF Survives
<1>5. acked # None => h # None /\ h >= acked
  BY <1>3 DEF Survives
<1>6. h # None => h \in Gen /\ h <= h /\ \A n \in 0..h : n \in Gen
  BY <1>0, <1>3, HeadMay, DiskAssumption DEF Gen
<1>7. h # None => may'[File(h)] = {Whole}
  BY <1>3, <1>6 DEF Survives
<1>8. h # None => \A n \in 0..h : n \in j \/ may'[File(n)] = {Whole}
  BY <1>3, <1>6 DEF Survives
<1>9. QED
  BY <1>2, <1>3, <1>4, <1>5, <1>6, <1>7, <1>8 DEF Survives

LEMMA SurvivesQuiet ==
  ASSUME TypeInv, AtLeast("L2"), Survives, Settled, [Next]_vars, Quiet
  PROVE  Survives'
<1>0. TypeOK /\ DiskTypes
  BY DEF TypeInv, TypeOK, DiskTypes
<1>1. \A n \in Names : may'[n] \subseteq may[n]
  BY <1>0 DEF Quiet, diskVars, SyncDir, DiskTypes
<1>2. dir' = dir
  BY DEF Quiet, diskVars, SyncDir
<1>3. may'[HEAD] \subseteq may[HEAD] /\ may'[Journal] \subseteq may[Journal]
  BY <1>1, NamesDiffer
<1>4. \A n \in Gen : may[File(n)] = {Whole} => may'[File(n)] = {Whole}
  <2>1. \A n \in Gen : may'[File(n)] \subseteq may[File(n)] /\ dir'[File(n)] \in may'[File(n)]
    BY <1>0, <1>1, <1>2, NamesDiffer, DiskTypeStep DEF DiskTypes
  <2>2. QED
    BY <2>1
<1>5. ASSUME NEW h \in may'[HEAD], acked' # None PROVE h # None /\ h >= acked'
  <2>1. CASE acked' = acked
    BY <1>3, <1>5, <2>1 DEF Survives
  <2>2. CASE \E p \in Publishers : Acknowledge(p)
    <3>1. PICK p \in Publishers : Acknowledge(p)
      BY <2>2
    <3>2. may[HEAD] = {Succ(p)} /\ acked' = Succ(p) /\ Succ(p) \in Gen
      BY <3>1 DEF Acknowledge, Settled, Succ, TypeInv, RoomInv
    <3>3. QED
      BY <1>3, <1>5, <3>2, DiskAssumption DEF Gen
  <2>3. QED
    BY <2>1, <2>2 DEF Quiet
<1>6. ASSUME NEW h \in may'[HEAD], h # None
      PROVE  may'[File(h)] = {Whole} /\ dir'[HEAD] # None /\ h <= dir'[HEAD]
  BY <1>0, <1>2, <1>3, <1>4, <1>6, HeadMay DEF Survives
<1>7. ASSUME NEW h \in may'[HEAD], NEW j \in may'[Journal], h # None, NEW n \in 0..h
      PROVE  n \in j \/ may'[File(n)] = {Whole}
  <2>1. n \in Gen
    BY <1>0, <1>3, <1>7, HeadMay
  <2>2. n \in j \/ may[File(n)] = {Whole}
    BY <1>3, <1>7 DEF Survives
  <2>3. QED
    BY <1>4, <2>1, <2>2
<1>8. \A n \in Names : Torn \notin may'[n]
  BY <1>1 DEF Survives
<1>9. QED
  BY <1>5, <1>6, <1>7, <1>8 DEF Survives

LEMMA DurStep == TypeInv /\ WorkInv /\ DurInv /\ [Next]_vars => DurInv'
<1> SUFFICES ASSUME TypeInv, WorkInv, DurInv, [Next]_vars, AtLeast("L2")' PROVE (Survives /\ Settled)'
  BY DEF DurInv
<1>0. TypeOK /\ level' = level
  BY DiskSteps DEF TypeInv
<1>1. AtLeast("L2") /\ Survives /\ Settled
  BY <1>0 DEF AtLeast, DurInv
<1>2. Settled'
  BY <1>1, SettledStep
<1>3. Survives'
  BY <1>0, <1>1, DiskSteps, SurvivesGeneration, SurvivesHead, SurvivesJournal, SurvivesVictim,
     SurvivesOutage, SurvivesQuiet
<1>4. QED
  BY <1>2, <1>3

LEMMA DurInit == Init => DurInv
<1> SUFFICES ASSUME Init PROVE Survives /\ Settled
  BY DEF DurInv
<1>1. /\ may[HEAD] = {None} /\ acked = None
      /\ \A n \in Names : may[n] = IF n = Journal THEN {{}} ELSE {None}
  BY NamesDiffer DEF Init
<1>2. Survives
  BY <1>1, Numbers DEF Survives
<1>3. Settled
  BY DEF Init, Settled
<1>4. QED
  BY <1>2, <1>3

-----------------------------------------------------------------------------
(* The store as processes see it, while nothing has been lost. *)

Sound ==
    /\ dir[HEAD] # Torn /\ dir[Journal] # Torn
    /\ dir[HEAD] # None =>
          /\ dir[File(dir[HEAD])] = Whole
          /\ \A n \in 0..dir[HEAD] : n \in dir[Journal] \/ dir[File(n)] = Whole

Lossless == AtLeast("L2") \/ outages = 0

CalmInv == outages = 0 => Sound

LEMMA SoundWhenLossless ==
  ASSUME TypeOK, DurInv, CalmInv, Lossless
  PROVE  Sound
<1>1. CASE outages = 0
  BY <1>1 DEF CalmInv
<1>2. CASE AtLeast("L2")
  <2>1. Survives
    BY <1>2 DEF DurInv
  <2>2. /\ dir[HEAD] \in may[HEAD] /\ dir[Journal] \in may[Journal]
        /\ \A n \in Gen : dir[File(n)] \in may[File(n)]
    BY NameTypes
  <2>3. dir[HEAD] # Torn /\ dir[Journal] # Torn
    BY <2>1, <2>2, NamesDiffer DEF Survives
  <2>4. ASSUME dir[HEAD] # None
        PROVE  /\ dir[File(dir[HEAD])] = Whole
               /\ \A n \in 0..dir[HEAD] : n \in dir[Journal] \/ dir[File(n)] = Whole
    <3>1. dir[HEAD] \in Gen /\ \A n \in 0..dir[HEAD] : n \in Gen
      BY <2>1, <2>2, <2>4, HeadMay
    <3>2. may[File(dir[HEAD])] = {Whole}
      BY <2>1, <2>2, <2>4 DEF Survives
    <3>3. \A n \in 0..dir[HEAD] : n \in dir[Journal] \/ may[File(n)] = {Whole}
      BY <2>1, <2>2, <2>4 DEF Survives
    <3>4. QED
      BY <2>2, <3>1, <3>2, <3>3
  <2>5. QED
    BY <2>3, <2>4 DEF Sound
<1>3. QED
  BY <1>1, <1>2 DEF Lossless

LEMMA CalmStep == TypeInv /\ WorkInv /\ CalmInv /\ [Next]_vars => CalmInv'
<1> SUFFICES ASSUME TypeInv, WorkInv, CalmInv, [Next]_vars, outages' = 0 PROVE Sound'
  BY DEF CalmInv
<1>0. TypeOK /\ DOMAIN dir = Names /\ outages \in Nat
  BY DiskAssumption DEF TypeInv, TypeOK
<1>t. dir[HEAD] \in Gen \cup {None, Torn} /\ dir[Journal] \in {Torn} \cup SUBSET Gen
  BY <1>0, NameTypes
<1>1. ASSUME NEW p \in Publishers, GenerationPlaced(p) PROVE Sound'
  <2>1. Sound
    BY <1>1 DEF CalmInv, GenerationPlaced
  <2>2. Succ(p) \in Gen
    BY <1>1 DEF TypeInv, RoomInv, GenerationPlaced
  <2>3. /\ dir'[HEAD] = dir[HEAD] /\ dir'[Journal] = dir[Journal]
        /\ \A n \in Gen : dir[File(n)] = Whole => dir'[File(n)] = Whole
    BY <1>0, <1>1, <2>2, NamesDiffer DEF GenerationPlaced, Rename
  <2>4. dir[HEAD] # None => dir[HEAD] \in Gen /\ \A n \in 0..dir[HEAD] : n \in Gen
    BY <1>t, <2>1, Numbers DEF Sound
  <2>5. QED
    BY <2>1, <2>3, <2>4 DEF Sound
<1>2. ASSUME NEW p \in Publishers, HeadPlaced(p) PROVE Sound'
  <2>1. Sound
    BY <1>2 DEF CalmInv, HeadPlaced
  <2>2. /\ Succ(p) \in Gen /\ dir[HEAD] = base[p] /\ dir[File(Succ(p))] = Whole
        /\ Succ(p) # None /\ Succ(p) # Torn
    BY <1>2, Numbers DEF TypeInv, RoomInv, HeadPlaced, WorkInv, PubOk
  <2>3. /\ dir'[HEAD] = Succ(p) /\ dir'[Journal] = dir[Journal]
        /\ \A n \in Gen : dir'[File(n)] = dir[File(n)]
    BY <1>0, <1>2, NamesDiffer DEF HeadPlaced, Rename
  <2>4. ASSUME NEW n \in 0..Succ(p) PROVE n \in dir[Journal] \/ dir[File(n)] = Whole
    <3>1. CASE n = Succ(p)
      BY <2>2, <3>1
    <3>2. CASE n # Succ(p) /\ dir[HEAD] = None
      BY <2>2, <2>4, <3>2, Numbers DEF Succ
    <3>3. CASE n # Succ(p) /\ dir[HEAD] # None
      <4>1. dir[HEAD] \in Gen /\ Succ(p) = dir[HEAD] + 1
        BY <1>t, <2>1, <2>2, <3>3, Numbers DEF Sound, Succ
      <4>2. n \in 0..dir[HEAD]
        BY <2>4, <3>3, <4>1, DiskAssumption DEF Gen
      <4>3. QED
        BY <2>1, <3>3, <4>2 DEF Sound
    <3>4. QED
      BY <3>1, <3>2, <3>3
  <2>5. \A n \in 0..Succ(p) : n \in Gen
    BY <2>2, Numbers
  <2>6. QED
    BY <2>1, <2>2, <2>3, <2>4, <2>5 DEF Sound
<1>3. ASSUME NEW c \in Collectors, JournalPlaced(c) PROVE Sound'
  <2>1. Sound
    BY <1>3 DEF CalmInv, JournalPlaced
  <2>2. Victim(c) \subseteq Gen /\ dir[Journal] \subseteq Gen
    BY <1>0, <1>t, <2>1 DEF TypeOK, Victim, Smallest, Sound
  <2>3. /\ dir'[HEAD] = dir[HEAD] /\ dir'[Journal] = dir[Journal] \cup Victim(c)
        /\ \A n \in Gen : dir'[File(n)] = dir[File(n)]
    BY <1>0, <1>3, <2>1, NamesDiffer DEF JournalPlaced, Rename, ReadReclaimed, Sound
  <2>4. dir'[Journal] # Torn
    BY <2>2, <2>3, Numbers
  <2>5. dir[HEAD] # None => dir[HEAD] \in Gen /\ \A n \in 0..dir[HEAD] : n \in Gen
    BY <1>t, <2>1, Numbers DEF Sound
  <2>6. QED
    BY <2>1, <2>3, <2>4, <2>5 DEF Sound
<1>4. ASSUME NEW c \in Collectors, VictimGone(c) PROVE Sound'
  <2>1. Sound
    BY <1>4 DEF CalmInv, VictimGone
  <2>2. PICK g \in Victim(c) : Unlink(File(g))
    BY <1>4 DEF VictimGone
  <2>3. g \in Gen /\ dir[HEAD] \in Gen /\ g < dir[HEAD] /\ g \in dir[Journal]
    <3>1. g \in todo[c] /\ todo[c] \subseteq Gen
      BY <1>0 DEF TypeOK, Victim, Smallest
    <3>2. QED
      BY <1>4, <3>1 DEF WorkInv, ColOk, VictimGone
  <2>4. /\ dir'[HEAD] = dir[HEAD] /\ dir'[Journal] = dir[Journal]
        /\ \A n \in Gen : n # g => dir'[File(n)] = dir[File(n)]
    BY <1>0, <2>2, <2>3, NamesDiffer DEF Unlink
  <2>5. dir[HEAD] # g /\ dir[HEAD] \in Gen /\ \A n \in 0..dir[HEAD] : n \in Gen
    BY <2>3, Numbers, DiskAssumption DEF Gen
  <2>6. QED
    BY <2>1, <2>3, <2>4, <2>5 DEF Sound
<1>5. CASE Outage
  BY <1>0, <1>5 DEF Outage
<1>6. CASE Quiet
  <2>1. Sound /\ dir' = dir
    BY <1>6 DEF CalmInv, Quiet, diskVars, SyncDir
  <2>2. QED
    BY <2>1 DEF Sound
<1>7. QED
  BY <1>0, <1>1, <1>2, <1>3, <1>4, <1>5, <1>6, DiskSteps

LEMMA CalmInit == Init => CalmInv
<1> SUFFICES ASSUME Init PROVE Sound
  BY DEF CalmInv
<1>1. dir[HEAD] = None /\ dir[Journal] = {}
  BY NamesDiffer DEF Init
<1>2. {} # Torn
  BY Numbers
<1>3. QED
  BY <1>1, <1>2, Numbers DEF Sound

-----------------------------------------------------------------------------
(* What a check knows by the time it reads HEAD, unless HEAD moved. *)

CheckInv ==
    Lossless /\ ~moved =>
        /\ kpc = "listed" /\ dir[HEAD] \in Gen =>
              dir[HEAD] \in listed /\ \A n \in 0..dir[HEAD] : n \in listed \cup ReadReclaimed
        /\ kpc \in {"head", "opened"} /\ khead \in Gen =>
              khead \in listed /\ \A n \in 0..khead : n \in listed \cup ReadReclaimed

LEMMA CheckSteps ==
  ASSUME TypeOK, [Next]_vars
  PROVE  \/ \E p \in Publishers : GenerationPlaced(p) \/ HeadPlaced(p)
         \/ \E c \in Collectors : JournalPlaced(c) \/ VictimGone(c)
         \/ Outage \/ ListStore \/ ReadHead \/ OpenGenerations \/ ReportIssues
         \/ UNCHANGED <<dir, outages, kpc, listed, khead, moved>>
<1>1. ASSUME NEW p \in Publishers, RenameGeneration(p) PROVE GenerationPlaced(p)
  BY <1>1 DEF TypeOK, RenameGeneration, GenerationPlaced, Goto, Succ, counts, colVars
<1>2. ASSUME NEW p \in Publishers, RenameHead(p) PROVE HeadPlaced(p)
  BY <1>2 DEF TypeOK, RenameHead, HeadPlaced, Goto, Succ, counts, colVars, hist
<1>3. ASSUME NEW c \in Collectors, RenameJournal(c) PROVE JournalPlaced(c)
  BY <1>3 DEF TypeOK, RenameJournal, JournalPlaced, Step, counts, pubVars
<1>4. ASSUME NEW c \in Collectors, UnlinkVictim(c) PROVE VictimGone(c)
  BY <1>4 DEF TypeOK, UnlinkVictim, VictimGone, Step, counts, pubVars, hist
<1>5. ASSUME NEW p \in Publishers,
             \/ Stage(p) \/ LockForPublish(p) \/ SyncGeneration(p) \/ SyncHead(p)
             \/ Acknowledge(p) \/ PublishFails(p)
      PROVE  UNCHANGED <<dir, outages, kpc, listed, khead, moved>>
  BY <1>5 DEF Stage, LockForPublish, SyncGeneration, SyncHead, SyncDir, Acknowledge, PublishFails,
              diskVars, checkVars, counts
<1>6. ASSUME NEW c \in Collectors,
             \/ LockForCollect(c) \/ StageJournal(c) \/ SyncJournal(c) \/ SyncUnlink(c)
             \/ CollectEnds(c) \/ CollectFails(c)
      PROVE  UNCHANGED <<dir, outages, kpc, listed, khead, moved>>
  BY <1>6 DEF LockForCollect, StageJournal, SyncJournal, SyncUnlink, SyncDir, CollectEnds,
              CollectFails, diskVars, checkVars, counts
<1>7. ASSUME UNCHANGED vars \/ \E t \in tmps : Repair(t)
      PROVE  UNCHANGED <<dir, outages, kpc, listed, khead, moved>>
  BY <1>7 DEF Repair, vars, diskVars, checkVars, counts
<1>8. QED
  BY <1>1, <1>2, <1>3, <1>4, <1>5, <1>6, <1>7 DEF Next

LEMMA CheckStep ==
  ASSUME TypeInv, WorkInv, DurInv, CalmInv, CheckInv, [Next]_vars
  PROVE  CheckInv'
<1>0. TypeOK /\ DOMAIN dir = Names /\ level' = level /\ outages \in Nat
  BY DiskSteps, DiskAssumption DEF TypeInv, TypeOK
<1>t. dir[HEAD] \in Gen \cup {None, Torn} /\ dir[Journal] \in {Torn} \cup SUBSET Gen
  BY <1>0, NameTypes
<1>1. ASSUME NEW p \in Publishers, GenerationPlaced(p) PROVE CheckInv'
  <2>1. Succ(p) \in Gen
    BY <1>1 DEF TypeInv, RoomInv, GenerationPlaced
  <2>2. dir'[HEAD] = dir[HEAD] /\ dir'[Journal] = dir[Journal]
    BY <1>0, <1>1, <2>1, NamesDiffer DEF GenerationPlaced, Rename
  <2>3. QED
    BY <1>0, <1>1, <2>2 DEF CheckInv, Lossless, AtLeast, ReadReclaimed, GenerationPlaced, checkVars
<1>2. ASSUME NEW p \in Publishers, HeadPlaced(p) PROVE CheckInv'
  <2>1. dir'[Journal] = dir[Journal]
    BY <1>0, <1>2, NamesDiffer DEF HeadPlaced, Rename
  <2>2. QED
    BY <1>0, <1>2, <2>1 DEF CheckInv, Lossless, AtLeast, ReadReclaimed, HeadPlaced
<1>3. ASSUME NEW c \in Collectors, JournalPlaced(c) PROVE CheckInv'
  <2>1. dir'[HEAD] = dir[HEAD] /\ dir'[Journal] = ReadReclaimed \cup Victim(c)
    BY <1>0, <1>3, NamesDiffer DEF JournalPlaced, Rename
  <2>2. Victim(c) \subseteq Gen /\ ReadReclaimed \subseteq Gen
    BY <1>0, <1>t DEF TypeOK, Victim, Smallest, ReadReclaimed
  <2>3. ReadReclaimed \subseteq ReadReclaimed'
    BY <2>1, <2>2, Numbers DEF ReadReclaimed
  <2>4. UNCHANGED <<kpc, listed, khead, moved, outages>>
    BY <1>3 DEF JournalPlaced, checkVars
  <2>5. QED
    BY <1>0, <2>1, <2>3, <2>4 DEF CheckInv, Lossless, AtLeast
<1>4. ASSUME NEW c \in Collectors, VictimGone(c) PROVE CheckInv'
  <2>1. PICK g \in Victim(c) : Unlink(File(g))
    BY <1>4 DEF VictimGone
  <2>2. g \in Gen
    BY <1>0 DEF TypeOK, Victim, Smallest
  <2>3. dir'[HEAD] = dir[HEAD] /\ dir'[Journal] = dir[Journal]
    BY <1>0, <2>1, <2>2, NamesDiffer DEF Unlink
  <2>4. UNCHANGED <<kpc, listed, khead, moved, outages>>
    BY <1>4 DEF VictimGone, checkVars
  <2>5. QED
    BY <1>0, <2>3, <2>4 DEF CheckInv, Lossless, AtLeast, ReadReclaimed
<1>5. CASE Outage
  BY <1>5 DEF Outage, CheckInv
<1>6. CASE ListStore
  <2>1. SUFFICES ASSUME Lossless', dir'[HEAD] \in Gen
                 PROVE  /\ dir'[HEAD] \in listed'
                        /\ \A n \in 0..dir'[HEAD] : n \in listed' \cup ReadReclaimed'
    BY <1>6 DEF ListStore, CheckInv
  <2>2. dir' = dir /\ ReadReclaimed' = ReadReclaimed /\ outages' = outages
    BY <1>6 DEF ListStore, diskVars, counts, ReadReclaimed
  <2>3. Sound
    BY <1>0, <2>1, <2>2, SoundWhenLossless DEF Lossless, AtLeast
  <2>4. listed' = {g \in Gen : dir[File(g)] # None}
    BY <1>6 DEF ListStore
  <2>5. dir[HEAD] \in Gen /\ dir[HEAD] # None /\ \A n \in 0..dir[HEAD] : n \in Gen
    BY <2>1, <2>2, Numbers
  <2>6. ReadReclaimed = dir[Journal]
    BY <2>3 DEF Sound, ReadReclaimed
  <2>7. QED
    BY <2>2, <2>3, <2>4, <2>5, <2>6, Numbers DEF Sound
<1>7. CASE ReadHead
  BY <1>0, <1>7 DEF CheckInv, Lossless, AtLeast, ReadReclaimed, ReadHead, diskVars, counts
<1>8. CASE OpenGenerations
  BY <1>0, <1>8 DEF CheckInv, Lossless, AtLeast, ReadReclaimed, OpenGenerations, diskVars, counts
<1>9. CASE ReportIssues
  BY <1>9 DEF CheckInv, ReportIssues
<1>10. CASE UNCHANGED <<dir, outages, kpc, listed, khead, moved>>
  BY <1>0, <1>10 DEF CheckInv, Lossless, AtLeast, ReadReclaimed
<1>11. QED
  BY <1>0, <1>1, <1>2, <1>3, <1>4, <1>5, <1>6, <1>7, <1>8, <1>9, <1>10, CheckSteps

-----------------------------------------------------------------------------
(* What a journal can say once, at most, it came back older than the files. *)

\* Before any outage, every value the journal may take was recorded, below HEAD.
RecordedInv ==
    outages = 0 =>
        \A j \in may[Journal] :
            j # Torn => \A n \in j : n \in condemned /\ dir[HEAD] \in Gen /\ n < dir[HEAD]

\* Through the first outage, what reads as reclaimed was, or is there again.
TruthInv ==
    outages <= 1 => \A n \in ReadReclaimed : n \in condemned \/ dir[File(n)] = Whole

FailInv == RecordedInv /\ TruthInv

LEMMA FailStep == TypeInv /\ WorkInv /\ FailInv /\ [Next]_vars => FailInv'
<1> SUFFICES ASSUME TypeInv, WorkInv, FailInv, [Next]_vars PROVE FailInv'
  OBVIOUS
<1>0. /\ TypeOK /\ DiskTypes /\ DOMAIN dir = Names /\ DOMAIN may = Names
      /\ outages \in Nat /\ condemned \subseteq Gen
  BY DiskAssumption DEF TypeInv, TypeOK, DiskTypes
<1>t. /\ dir[HEAD] \in Gen \cup {None, Torn} /\ dir[Journal] \in {Torn} \cup SUBSET Gen
      /\ dir[Journal] \in may[Journal] /\ may[Journal] \subseteq {Torn} \cup SUBSET Gen
      /\ ReadReclaimed \subseteq Gen
  BY <1>0, NameTypes DEF ReadReclaimed
<1>1. ASSUME NEW p \in Publishers, GenerationPlaced(p) PROVE FailInv'
  <2>1. Succ(p) \in Gen /\ dir[HEAD] = base[p]
    BY <1>1 DEF TypeInv, RoomInv, GenerationPlaced, WorkInv, PubOk
  <2>2. /\ dir'[HEAD] = dir[HEAD] /\ dir'[Journal] = dir[Journal] /\ may'[Journal] = may[Journal]
        /\ dir'[File(Succ(p))] = Whole
        /\ \A n \in Gen : n # Succ(p) => dir'[File(n)] = dir[File(n)]
    BY <1>0, <1>1, <2>1, NamesDiffer DEF GenerationPlaced, Rename
  <2>3. condemned' = condemned \ {Succ(p)} /\ outages' = outages
    BY <1>1 DEF GenerationPlaced
  <2>4. dir[HEAD] \in Gen => Succ(p) = dir[HEAD] + 1
    BY <2>1, Numbers DEF Succ
  <2>5. RecordedInv'
    <3>1. SUFFICES ASSUME outages = 0, NEW j \in may[Journal], j # Torn, NEW n \in j
                   PROVE  n \in condemned' /\ dir'[HEAD] \in Gen /\ n < dir'[HEAD]
      BY <2>2, <2>3 DEF RecordedInv
    <3>2. n \in condemned /\ dir[HEAD] \in Gen /\ n < dir[HEAD] /\ n \in Gen
      BY <1>0, <3>1 DEF FailInv, RecordedInv
    <3>3. n # Succ(p)
      BY <2>4, <3>2, DiskAssumption DEF Gen
    <3>4. QED
      BY <2>2, <2>3, <3>2, <3>3
  <2>6. TruthInv'
    <3>1. ReadReclaimed' = ReadReclaimed
      BY <2>2 DEF ReadReclaimed
    <3>2. QED
      BY <1>t, <2>2, <2>3, <3>1 DEF FailInv, TruthInv
  <2>7. QED
    BY <2>5, <2>6 DEF FailInv
<1>2. ASSUME NEW p \in Publishers, HeadPlaced(p) PROVE FailInv'
  <2>1. Succ(p) \in Gen /\ dir[HEAD] = base[p]
    BY <1>2 DEF TypeInv, RoomInv, HeadPlaced, WorkInv, PubOk
  <2>2. /\ dir'[HEAD] = Succ(p) /\ dir'[Journal] = dir[Journal] /\ may'[Journal] = may[Journal]
        /\ \A n \in Gen : dir'[File(n)] = dir[File(n)]
        /\ condemned' = condemned /\ outages' = outages
    BY <1>0, <1>2, NamesDiffer DEF HeadPlaced, Rename
  <2>3. dir[HEAD] \in Gen => Succ(p) = dir[HEAD] + 1
    BY <2>1, Numbers DEF Succ
  <2>4. RecordedInv'
    <3>1. SUFFICES ASSUME outages = 0, NEW j \in may[Journal], j # Torn, NEW n \in j
                   PROVE  n \in condemned /\ Succ(p) \in Gen /\ n < Succ(p)
      BY <2>2 DEF RecordedInv
    <3>2. n \in condemned /\ dir[HEAD] \in Gen /\ n < dir[HEAD] /\ n \in Gen
      BY <1>0, <3>1 DEF FailInv, RecordedInv
    <3>3. QED
      BY <2>1, <2>3, <3>2, DiskAssumption DEF Gen
  <2>5. TruthInv'
    <3>1. ReadReclaimed' = ReadReclaimed
      BY <2>2 DEF ReadReclaimed
    <3>2. QED
      BY <1>t, <2>2, <3>1 DEF FailInv, TruthInv
  <2>6. QED
    BY <2>4, <2>5 DEF FailInv
<1>3. ASSUME NEW c \in Collectors, JournalPlaced(c) PROVE FailInv'
  <2>1. Victim(c) \subseteq Gen
    BY <1>0 DEF TypeOK, Victim, Smallest
  <2>v. dir[HEAD] \in Gen /\ \A n \in Victim(c) : n < dir[HEAD]
    <3>1. Victim(c) \subseteq todo[c]
      BY DEF Victim, Smallest
    <3>2. QED
      BY <1>3, <3>1 DEF WorkInv, ColOk, JournalPlaced
  <2>2. /\ dir'[HEAD] = dir[HEAD] /\ dir'[Journal] = ReadReclaimed \cup Victim(c)
        /\ \A n \in Gen : dir'[File(n)] = dir[File(n)]
        /\ \A j \in may'[Journal] : j \in may[Journal] \/ j = ReadReclaimed \cup Victim(c) \/ j = Torn
        /\ condemned' = condemned \cup Victim(c) /\ outages' = outages
    BY <1>0, <1>3, NamesDiffer DEF JournalPlaced, Rename
  <2>3. RecordedInv'
    <3>1. SUFFICES ASSUME outages = 0, NEW j \in may'[Journal], j # Torn, NEW n \in j
                   PROVE  n \in condemned' /\ dir[HEAD] \in Gen /\ n < dir[HEAD]
      BY <2>2 DEF RecordedInv
    <3>2. CASE j \in may[Journal]
      BY <2>2, <3>1, <3>2 DEF FailInv, RecordedInv
    <3>3. CASE j = ReadReclaimed \cup Victim(c)
      <4>1. CASE n \in Victim(c)
        BY <2>2, <2>v, <4>1
      <4>2. CASE n \in ReadReclaimed
        BY <1>t, <2>2, <3>1, <4>2 DEF FailInv, RecordedInv, ReadReclaimed
      <4>3. QED
        BY <3>1, <3>3, <4>1, <4>2
    <3>4. QED
      BY <2>2, <3>1, <3>2, <3>3
  <2>4. TruthInv'
    <3>1. ReadReclaimed' = ReadReclaimed \cup Victim(c)
      BY <1>t, <2>1, <2>2, Numbers DEF ReadReclaimed
    <3>2. QED
      BY <1>t, <2>1, <2>2, <3>1 DEF FailInv, TruthInv
  <2>5. QED
    BY <2>3, <2>4 DEF FailInv
<1>4. ASSUME NEW c \in Collectors, VictimGone(c) PROVE FailInv'
  <2>1. PICK g \in Victim(c) : Unlink(File(g))
    BY <1>4 DEF VictimGone
  <2>2. g \in Gen /\ g \in condemned
    BY <1>0, <1>4 DEF TypeOK, Victim, Smallest, WorkInv, ColOk, VictimGone
  <2>3. /\ dir'[HEAD] = dir[HEAD] /\ dir'[Journal] = dir[Journal] /\ may'[Journal] = may[Journal]
        /\ \A n \in Gen : n # g => dir'[File(n)] = dir[File(n)]
        /\ condemned' = condemned /\ outages' = outages
    BY <1>0, <1>4, <2>1, <2>2, NamesDiffer DEF Unlink, VictimGone
  <2>4. RecordedInv'
    BY <2>3 DEF FailInv, RecordedInv
  <2>5. TruthInv'
    <3>1. ReadReclaimed' = ReadReclaimed
      BY <2>3 DEF ReadReclaimed
    <3>2. QED
      BY <1>t, <2>2, <2>3, <3>1 DEF FailInv, TruthInv
  <2>6. QED
    BY <2>4, <2>5 DEF FailInv
<1>5. CASE Outage
  <2>1. outages' = outages + 1 /\ condemned' = condemned
    BY <1>5 DEF Outage, hist
  <2>2. dir'[Journal] \in may[Journal]
    BY <1>0, <1>5, OutageTypes, NamesDiffer
  <2>3. RecordedInv'
    BY <1>0, <2>1 DEF RecordedInv
  <2>4. TruthInv'
    <3>1. SUFFICES ASSUME outages = 0, NEW n \in ReadReclaimed' PROVE n \in condemned'
      BY <1>0, <2>1 DEF TruthInv
    <3>2. dir'[Journal] # Torn /\ n \in dir'[Journal]
      BY <3>1 DEF ReadReclaimed
    <3>3. QED
      BY <2>1, <2>2, <3>1, <3>2 DEF FailInv, RecordedInv
  <2>5. QED
    BY <2>3, <2>4 DEF FailInv
<1>6. CASE Quiet
  <2>1. dir' = dir /\ condemned' = condemned /\ outages' = outages
    BY <1>6 DEF Quiet, diskVars, SyncDir
  <2>2. may'[Journal] \subseteq may[Journal]
    BY <1>0, <1>6, NamesDiffer DEF Quiet, diskVars, SyncDir, DiskTypes
  <2>3. QED
    BY <2>1, <2>2 DEF FailInv, RecordedInv, TruthInv, ReadReclaimed
<1>7. QED
  BY <1>0, <1>1, <1>2, <1>3, <1>4, <1>5, <1>6, DiskSteps

LEMMA FailInit == Init => FailInv
<1> SUFFICES ASSUME Init PROVE FailInv
  OBVIOUS
<1>1. dir[Journal] = {} /\ may[Journal] = {{}}
  BY NamesDiffer DEF Init
<1>2. ReadReclaimed = {}
  BY <1>1 DEF ReadReclaimed
<1>3. QED
  BY <1>1, <1>2 DEF FailInv, RecordedInv, TruthInv

-----------------------------------------------------------------------------
(* The theorems. *)

DiskInv == TypeInv /\ WorkInv /\ DurInv /\ CalmInv /\ CheckInv /\ FailInv

LEMMA DiskInvariant == Spec => []DiskInv
<1>1. Init => DiskInv
  BY TypeInit, WorkInit, DurInit, CalmInit, FailInit DEF DiskInv, CheckInv, Init
<1>2. DiskInv /\ [Next]_vars => DiskInv'
  BY TypeStep, WorkStep, DurStep, CalmStep, CheckStep, FailStep DEF DiskInv
<1>3. QED
  BY <1>1, <1>2, PTL DEF Spec

(* Whatever processes die, at every level, HEAD names a whole generation.  *)
THEOREM HeadIsWhole == Spec => []HeadWhole
<1>1. DiskInv => HeadWhole
  BY DEF DiskInv, CalmInv, Sound, HeadWhole
<1>2. QED
  BY <1>1, DiskInvariant, PTL

(* At L2 and L3 what publish acknowledged survives any number of outages.  *)
THEOREM Durable == Spec => []AckDurable
<1>1. DiskInv => AckDurable
  <2>1. SUFFICES ASSUME DiskInv, AtLeast("L2"), NEW h \in may[HEAD]
                 PROVE  /\ acked # None => h \notin {None, Torn} /\ h >= acked
                        /\ h # None => may[File(h)] = {Whole}
    BY DEF AckDurable
  <2>2. Survives
    BY <2>1 DEF DiskInv, DurInv
  <2>3. QED
    BY <2>2, NamesDiffer DEF Survives
<1>2. QED
  BY <1>1, DiskInvariant, PTL

(* At L2 and L3 a reclaimed generation never comes back as a gap.          *)
THEOREM NoGapEver == Spec => []NoGapAfterOutage
<1>1. DiskInv => NoGapAfterOutage
  BY DEF DiskInv, DurInv, Survives, NoGapAfterOutage
<1>2. QED
  BY <1>1, DiskInvariant, PTL

(* A check of a store that lost nothing names a dangling HEAD or a gap     *)
(* only when HEAD moved under it.                                          *)
THEOREM CheckIsHonest == Spec => []CheckHonest
<1>1. DiskInv => CheckHonest
  <2>1. SUFFICES ASSUME DiskInv, kpc = "opened", Lossless, ~moved
                 PROVE  ~Issues.dangling /\ Issues.gaps = {}
    BY DEF CheckHonest, Lossless
  <2>2. khead \in Gen \cup {None, Torn}
    BY <2>1 DEF DiskInv, TypeInv, TypeOK
  <2>3. khead \in Gen => khead \in listed /\ \A n \in 0..khead : n \in listed \cup ReadReclaimed
    BY <2>1 DEF DiskInv, CheckInv
  <2>4. CASE khead \in {None, Torn}
    BY <2>4 DEF Issues, Report
  <2>5. CASE khead \in Gen
    BY <2>3, <2>5, Numbers DEF Issues, Report
  <2>6. QED
    BY <2>2, <2>4, <2>5
<1>2. QED
  BY <1>1, DiskInvariant, PTL

(* Through the first outage, at every level, a check that finds nothing is *)
(* right: nothing was lost that no collector had recorded.                 *)
THEOREM NeverSilent == Spec => []FailClosed
<1>1. DiskInv => FailClosed
  <2>d. DEFINE present == {g \in Gen : dir[File(g)] # None}
               whole == {g \in Gen : dir[File(g)] = Whole}
  <2>1. SUFFICES ASSUME DiskInv, outages <= 1,
                        Report(dir[HEAD], present, whole, ReadReclaimed).quiet,
                        NEW n \in 0..dir[HEAD]
                 PROVE  n \in whole \cup condemned
    BY DEF FailClosed
  <2>2. dir[HEAD] \in whole /\ whole = present
    BY <2>1 DEF Report
  <2>3. dir[HEAD] \in Gen /\ dir[HEAD] \notin {None, Torn}
    BY <2>2, Numbers
  <2>4. n \in ReadReclaimed \cup present
    BY <2>1, <2>3 DEF Report
  <2>5. n \in Gen
    BY <2>1, <2>3, Numbers
  <2>6. QED
    BY <2>1, <2>2, <2>4, <2>5 DEF DiskInv, FailInv, TruthInv
<1>2. QED
  BY <1>1, DiskInvariant, PTL
=============================================================================

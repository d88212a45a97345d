---------------------------- MODULE StoreProofs ----------------------------
(***************************************************************************)
(* Theorems about Store for every set of writers, readers and collectors,  *)
(* every set of jobs and every bound: its types, its safety invariants and *)
(* action properties, and its refinement of GenStore.                      *)
(***************************************************************************)
EXTENDS Store, SequenceTheorems, TLAPS

-----------------------------------------------------------------------------
(* Type correctness.  TypeOK alone is not inductive: a program counter has  *)
(* to tell which generation numbers are real ones.                          *)

WriterTyped ==
    \A w \in Writers :
        /\ wpc[w] # "idle" => wbase[w] < MaxGen
        /\ wpc[w] \in {"reload", "load"} => head # NoGen
        /\ wpc[w] = "load" => wsrc[w] # NoGen

ReaderTyped ==
    \A r \in Readers :
        /\ rpc[r] \in {"pin", "load", "open"} => rgen[r] # NoGen
        /\ rpc[r] = "retry" => head # NoGen
        /\ (rpc[r] \in {"pin", "load"} /\ rmode[r] = "head")
              => head # NoGen

TypeInv == TypeOK /\ WriterTyped /\ ReaderTyped

LEMMA TypeInit == Init => TypeInv
<1> USE MaxGenNat DEF Init, Gen, NoGen
<1> SUFFICES ASSUME Init PROVE TypeInv
  OBVIOUS
<1>1. DirTypeOK
  BY MaxFaultsNat DEF DirTypeOK, Absent
<1>2. WriterTypeOK /\ WriterTyped
  BY DEF WriterTypeOK, WriterTyped, WriterStates
<1>3. ReaderTypeOK /\ ReaderTyped
  BY RetriesPositive DEF ReaderTypeOK, ReaderTyped, ReaderStates
<1>4. CollectorTypeOK
  BY DEF CollectorTypeOK, CollectorStates
<1>5. QED
  BY <1>1, <1>2, <1>3, <1>4 DEF TypeInv, TypeOK

\* The definitions that say what a writer's step is.
LEMMA WriterFrame ==
  ASSUME NEW w \in Writers, WriterNext(w)
  PROVE  /\ UNCHANGED <<readerVars, collVars>>
         /\ UNCHANGED <<sideTmps, reclaimed, manifest, stalePins>>
         /\ \/ tmps' = tmps
            \/ \E live \in BOOLEAN : tmps' = tmps \cup {<<w, live>>}
            \/ tmps' = tmps \ {<<w, TRUE>>}
            \/ tmps' = (tmps \ {<<w, TRUE>>}) \cup {<<w, FALSE>>}
         /\ head' = head \/ (head' = headTmp /\ headTmp # NoGen)
         /\ lock' \in {lock, w, NoProc}
         /\ \/ headTmp' = headTmp
            \/ headTmp' = NoGen
            \/ headTmp' = wbase[w] + 1 /\ wpc[w] # "idle"
         /\ faults' = faults \/ (faults < MaxFaults /\ faults' = faults + 1)
         /\ \/ gens' = gens
            \/ gens' = [gens EXCEPT ![wbase[w] + 1] = wout[w]]
  BY DEF WriterNext, WriterStep, BuildFull, BuildIncremental, ReloadHead, LoadBase, LoadBaseMissing,
           StageGeneration, LockForPublish, CheckBase, RenameGeneration,
           StageHead, RenameHead, VerifyHead, UnlockPublish, StageFails, PublishFails, Cleanup,
           CrashWriter, Fault,
           dirVars

LEMMA TypeWriter ==
  ASSUME TypeInv, NEW w \in Writers, WriterNext(w)
  PROVE  TypeInv'
<1>1. ReaderTypeOK' /\ CollectorTypeOK'
  BY WriterFrame DEF TypeInv, TypeOK, ReaderTypeOK, CollectorTypeOK,
                     readerVars, collVars
<1>2. head' = head \/ head' \in Gen
  BY WriterFrame DEF TypeInv, TypeOK, DirTypeOK
<1>3. ReaderTyped'
  BY <1>2, WriterFrame, MaxGenNat
     DEF TypeInv, ReaderTyped, readerVars, Gen, NoGen
<1>4. DirTypeOK'
  <2>1. tmps' \subseteq Writers \X BOOLEAN
    <3>1. /\ <<w, TRUE>> \in Writers \X BOOLEAN
          /\ <<w, FALSE>> \in Writers \X BOOLEAN
          /\ tmps \subseteq Writers \X BOOLEAN
      BY DEF TypeInv, TypeOK, DirTypeOK
    <3>2. QED
      BY <3>1, WriterFrame
  <2>2. head' \in Gen \cup {NoGen}
    BY <1>2 DEF TypeInv, TypeOK, DirTypeOK
  <2>3. headTmp' \in Gen \cup {NoGen}
    <3>1. wpc[w] # "idle" => wbase[w] + 1 \in Gen
      <4>1. wbase[w] \in Gen \cup {NoGen} /\ (wpc[w] # "idle" => wbase[w] < MaxGen)
        BY DEF TypeInv, TypeOK, WriterTypeOK, WriterTyped
      <4>2. QED
        BY <4>1, MaxGenNat DEF Gen, NoGen
    <3>2. QED
      BY <3>1, WriterFrame DEF TypeInv, TypeOK, DirTypeOK
  <2>4. gens' \in [Gen -> Seq(Writers)]
    <3>1. gens \in [Gen -> Seq(Writers)] /\ wout[w] \in Seq(Writers)
      BY DEF TypeInv, TypeOK, DirTypeOK, WriterTypeOK
    <3>2. QED
      BY <3>1, WriterFrame
  <2>5. lock' \in Writers \cup Collectors \cup {NoProc}
    BY WriterFrame DEF TypeInv, TypeOK, DirTypeOK
  <2>6. faults' \in 0 .. MaxFaults
    <3>1. faults \in 0 .. MaxFaults
      BY DEF TypeInv, TypeOK, DirTypeOK
    <3>2. faults' = faults \/ (faults < MaxFaults /\ faults' = faults + 1)
      BY WriterFrame
    <3>3. QED
      BY <3>1, <3>2, MaxFaultsNat
  <2>7. QED
    BY <2>1, <2>2, <2>3, <2>4, <2>5, <2>6, WriterFrame
       DEF TypeInv, TypeOK, DirTypeOK
<1>5. WriterTypeOK' /\ WriterTyped'
  <2>a. WriterTypeOK /\ WriterTyped /\ head \in Gen \cup {NoGen}
        /\ gens \in [Gen -> Seq(Writers)]
    BY DEF TypeInv, TypeOK, DirTypeOK
  <2> USE <2>a, MaxGenNat
      DEF WriterTypeOK, WriterTyped, Gen, NoGen, Absent, dirVars, WriterReset,
          WriterStates, WriterLocked, WriterStaging
  <2>1. CASE BuildFull(w)
    BY <2>1 DEF BuildFull
  <2>2. CASE BuildIncremental(w)
    BY <2>2 DEF BuildIncremental
  <2>3. CASE ReloadHead(w)
    BY <2>3 DEF ReloadHead
  <2>4. CASE LoadBase(w)
    <3>1. Append(gens[wsrc[w]], w) \in Seq(Writers)
      BY <2>4 DEF LoadBase
    <3>2. QED
      BY <2>4, <3>1 DEF LoadBase
  <2>5. CASE LoadBaseMissing(w)
    BY <2>5 DEF LoadBaseMissing
  <2>6. CASE StageGeneration(w)
    BY <2>6 DEF StageGeneration
  <2>7. CASE LockForPublish(w)
    BY <2>7 DEF LockForPublish
  <2>8. CASE CheckBase(w)
    BY <2>8 DEF CheckBase
  <2>9. CASE RenameGeneration(w)
    BY <2>9 DEF RenameGeneration
  <2>10. CASE StageHead(w)
    BY <2>10 DEF StageHead
  <2>11. CASE RenameHead(w)
    BY <2>11, <1>2 DEF RenameHead
  <2>12. CASE VerifyHead(w)
    BY <2>12 DEF VerifyHead
  <2>13. CASE UnlockPublish(w)
    BY <2>13 DEF UnlockPublish
  <2>14. CASE Cleanup(w)
    BY <2>14 DEF Cleanup
  <2>s. CASE StageFails(w)
    BY <2>s DEF StageFails
  <2>p. CASE PublishFails(w)
    BY <2>p DEF PublishFails
  <2>15. CASE CrashWriter(w)
    BY <2>15 DEF CrashWriter
  <2>16. QED
    BY <2>1, <2>2, <2>3, <2>4, <2>5, <2>6, <2>7, <2>8, <2>9, <2>10, <2>11,
       <2>12, <2>13, <2>14, <2>15, <2>s, <2>p DEF WriterNext, WriterStep
<1>6. QED
  BY <1>1, <1>3, <1>4, <1>5 DEF TypeInv, TypeOK

LEMMA ReaderFrame ==
  ASSUME NEW r \in Readers, ReaderNext(r)
  PROVE  /\ UNCHANGED <<writerVars, collVars, lock>>
         /\ UNCHANGED <<head, gens, headTmp, tmps, sideTmps, reclaimed,
                        manifest>>
         /\ \/ stalePins' = stalePins
            \/ /\ rpc[r] \in ReaderPinned
               /\ stalePins' = stalePins \cup {rgen[r]}
         /\ faults' = faults \/ (faults < MaxFaults /\ faults' = faults + 1)
  BY DEF ReaderNext, ReaderStep, OpenHead, OpenGeneration, Pin,
         LoadGeneration, LoadMissing, RetryOpen, OpenFails, Close,
         CrashReader, Fault, dirVars

LEMMA TypeReader ==
  ASSUME TypeInv, NEW r \in Readers, ReaderNext(r)
  PROVE  TypeInv'
<1>1. WriterTypeOK' /\ WriterTyped' /\ CollectorTypeOK'
  BY ReaderFrame DEF TypeInv, TypeOK, WriterTypeOK, WriterTyped,
                     CollectorTypeOK, writerVars, collVars
<1>2. DirTypeOK'
  <2>1. stalePins' \subseteq Gen
    <3>1. stalePins \subseteq Gen /\ (rpc[r] \in ReaderPinned => rgen[r] \in Gen)
      BY DEF TypeInv, TypeOK, DirTypeOK, ReaderTypeOK, ReaderTyped, ReaderPinned
    <3>2. QED
      BY <3>1, ReaderFrame
  <2>2. faults' \in 0 .. MaxFaults
    <3>1. faults \in 0 .. MaxFaults
      BY DEF TypeInv, TypeOK, DirTypeOK
    <3>2. faults' = faults \/ (faults < MaxFaults /\ faults' = faults + 1)
      BY ReaderFrame
    <3>3. QED
      BY <3>1, <3>2, MaxFaultsNat
  <2>3. QED
    BY <2>1, <2>2, ReaderFrame DEF TypeInv, TypeOK, DirTypeOK
<1>3. ReaderTypeOK' /\ ReaderTyped'
  <2>a. ReaderTypeOK /\ ReaderTyped /\ head \in Gen \cup {NoGen}
        /\ gens \in [Gen -> Seq(Writers)] /\ head' = head
    BY ReaderFrame DEF TypeInv, TypeOK, DirTypeOK
  <2> USE <2>a, MaxGenNat, RetriesPositive
      DEF ReaderTypeOK, ReaderTyped, Gen, NoGen, Absent, ReaderReset,
          ReaderStates, ReaderPinned
  <2>1. CASE OpenHead(r)
    BY <2>1 DEF OpenHead
  <2>2. CASE OpenGeneration(r)
    <3>1. PICK g \in Gen : rgen' = [rgen EXCEPT ![r] = g]
      BY <2>2 DEF OpenGeneration
    <3>2. QED
      BY <2>2, <3>1 DEF OpenGeneration
  <2>3. CASE Pin(r)
    BY <2>3 DEF Pin
  <2>4. CASE LoadGeneration(r)
    BY <2>4 DEF LoadGeneration
  <2>5. CASE LoadMissing(r)
    <3>1. rtries[r] + 1 \in 0 .. OpenRetries - 1
      BY <2>5 DEF LoadMissing
    <3>2. QED
      BY <2>5, <3>1 DEF LoadMissing
  <2>6. CASE RetryOpen(r)
    BY <2>6 DEF RetryOpen
  <2>7. CASE OpenFails(r)
    BY <2>7 DEF OpenFails
  <2>8. CASE Close(r)
    BY <2>8 DEF Close
  <2>9. CASE CrashReader(r)
    BY <2>9 DEF CrashReader
  <2>10. QED
    BY <2>1, <2>2, <2>3, <2>4, <2>5, <2>6, <2>7, <2>8, <2>9
       DEF ReaderNext, ReaderStep
<1>4. QED
  BY <1>1, <1>2, <1>3 DEF TypeInv, TypeOK

LEMMA CollectorFrame ==
  ASSUME NEW c \in Collectors, CollectorNext(c)
  PROVE  /\ UNCHANGED <<writerVars, readerVars, head>>
         /\ headTmp' \in {headTmp, NoGen}
         /\ \/ tmps' = tmps
            \/ \E swept \in SUBSET csweep[c] : tmps' = tmps \ swept
         /\ \/ sideTmps' = sideTmps
            \/ \E f \in {"reclaimed", "compact"} :
                  \/ sideTmps' = sideTmps \cup {f}
                  \/ sideTmps' = sideTmps \ {f}
         /\ \/ reclaimed' = reclaimed
            \/ \E g \in cplan[c] : reclaimed' = reclaimed \cup {g}
         /\ manifest' \in {manifest, cremoved[c]}
         /\ stalePins' \subseteq stalePins
         /\ lock' \in {lock, c, NoProc}
         /\ faults' = faults \/ (faults < MaxFaults /\ faults' = faults + 1)
         /\ \/ gens' = gens
            \/ \E g \in cplan[c] : gens' = [gens EXCEPT ![g] = Absent]
<1> USE DEF dirVars
<1>1. CASE LockForCollect(c)
  BY <1>1 DEF LockForCollect
<1>2. CASE ReportOnly(c)
  BY <1>2 DEF ReportOnly
<1>3. CASE ReapStalePins(c)
  BY <1>3 DEF ReapStalePins
<1>4. CASE PlanVictims(c)
  BY <1>4 DEF PlanVictims
<1>5. CASE StageJournal(c)
  BY <1>5 DEF StageJournal
<1>6. CASE RecordVictim(c)
  BY <1>6 DEF RecordVictim, Smallest
<1>7. CASE UnlinkVictim(c)
  BY <1>7 DEF UnlinkVictim, Smallest
<1>8. CASE CollectFails(c)
  BY <1>8 DEF CollectFails, Fault
<1>s. CASE SweepFails(c)
  BY <1>s DEF SweepFails, Fault
<1>9. CASE VictimsDone(c)
  BY <1>9 DEF VictimsDone
<1>10. CASE SweepStaging(c)
  BY <1>10 DEF SweepStaging
<1>11. CASE StageManifest(c)
  BY <1>11 DEF StageManifest
<1>12. CASE RenameManifest(c)
  BY <1>12 DEF RenameManifest
<1>13. CASE UnlockCollect(c)
  BY <1>13 DEF UnlockCollect
<1>14. CASE CrashCollector(c)
  BY <1>14 DEF CrashCollector, Fault
<1>15. QED
  BY <1>1, <1>2, <1>3, <1>4, <1>5, <1>6, <1>7, <1>8, <1>9, <1>10, <1>11,
     <1>12, <1>13, <1>14, <1>s DEF CollectorNext, CollectorStep

LEMMA TypeCollector ==
  ASSUME TypeInv, NEW c \in Collectors, CollectorNext(c)
  PROVE  TypeInv'
<1>1. /\ WriterTypeOK' /\ WriterTyped'
      /\ ReaderTypeOK' /\ ReaderTyped'
  BY CollectorFrame
     DEF TypeInv, TypeOK, WriterTypeOK, WriterTyped, ReaderTypeOK,
         ReaderTyped, writerVars, readerVars
<1>2. cplan[c] \subseteq Gen /\ cremoved[c] \subseteq Gen
  BY DEF TypeInv, TypeOK, CollectorTypeOK
<1>3. DirTypeOK'
  <2>a. DirTypeOK
    BY DEF TypeInv, TypeOK
  <2>1. gens' \in [Gen -> Seq(Writers)]
    <3>1. gens \in [Gen -> Seq(Writers)] /\ Absent \in Seq(Writers)
      BY <2>a DEF DirTypeOK, Absent
    <3>2. \/ gens' = gens
          \/ \E g \in cplan[c] : gens' = [gens EXCEPT ![g] = Absent]
      BY CollectorFrame
    <3>3. QED
      BY <3>1, <3>2
  <2>2. reclaimed' \subseteq Gen /\ manifest' \subseteq Gen
        /\ stalePins' \subseteq Gen
    <3>1. /\ \/ reclaimed' = reclaimed
             \/ \E g \in cplan[c] : reclaimed' = reclaimed \cup {g}
          /\ manifest' \in {manifest, cremoved[c]}
          /\ stalePins' \subseteq stalePins
      BY CollectorFrame
    <3>2. QED
      BY <2>a, <1>2, <3>1 DEF DirTypeOK
  <2>3. tmps' \subseteq Writers \X BOOLEAN
    BY <2>a, CollectorFrame DEF DirTypeOK
  <2>4. sideTmps' \subseteq {"reclaimed", "compact"}
    BY <2>a, CollectorFrame DEF DirTypeOK
  <2>5. /\ head' \in Gen \cup {NoGen}
        /\ headTmp' \in Gen \cup {NoGen}
        /\ lock' \in Writers \cup Collectors \cup {NoProc}
    BY <2>a, CollectorFrame DEF DirTypeOK
  <2>6. faults' \in 0 .. MaxFaults
    <3>1. faults' = faults \/ (faults < MaxFaults /\ faults' = faults + 1)
      BY CollectorFrame
    <3>2. QED
      BY <2>a, <3>1, MaxFaultsNat DEF DirTypeOK
  <2>7. QED
    BY <2>1, <2>2, <2>3, <2>4, <2>5, <2>6 DEF DirTypeOK
<1>4. CollectorTypeOK'
  <2>a. CollectorTypeOK
    BY DEF TypeInv, TypeOK
  <2> USE <2>a DEF CollectorTypeOK, CollectorReset, CollectorStates,
                   CollectorLocked, CollectorPlanned, CollectorDeleting
  <2>1. CASE LockForCollect(c)
    <3>1. PICK j \in Jobs : cjob' = [cjob EXCEPT ![c] = j]
      BY <2>1 DEF LockForCollect
    <3>2. QED
      BY <2>1, <3>1 DEF LockForCollect
  <2>2. CASE ReportOnly(c)
    BY <2>2 DEF ReportOnly
  <2>3. CASE ReapStalePins(c)
    BY <2>3 DEF ReapStalePins
  <2>4. CASE PlanVictims(c)
    <3>1. PICK fooled \in SUBSET stalePins :
             /\ cpinned' = [cpinned EXCEPT ![c] = LivePins \cup fooled]
             /\ cplan' = [cplan EXCEPT
                            ![c] = Victims(cjob[c], LivePins \cup fooled)]
      BY <2>4 DEF PlanVictims
    <3>2. LivePins \subseteq Gen
      <4>1. \A r \in Readers : rpc[r] \in ReaderPinned => rgen[r] \in Gen
        BY DEF ReaderPinned, TypeInv, TypeOK, ReaderTypeOK, ReaderTyped
      <4>2. ASSUME NEW g \in LivePins PROVE g \in Gen
        BY <4>1, <4>2 DEF LivePins
      <4>3. QED
        BY <4>2
    <3>3. LivePins \cup fooled \subseteq Gen
      BY <3>2 DEF TypeInv, TypeOK, DirTypeOK
    <3>4. Victims(cjob[c], LivePins \cup fooled) \subseteq Gen
      BY DEF Victims, OnDisk
    <3>5. DeadStaging \subseteq Writers \X BOOLEAN
      BY DEF DeadStaging
    <3>6. QED
      BY <2>4, <3>1, <3>3, <3>4, <3>5 DEF PlanVictims
  <2>5. CASE StageJournal(c)
    BY <2>5 DEF StageJournal
  <2>6. CASE RecordVictim(c)
    BY <2>6 DEF RecordVictim
  <2>7. CASE UnlinkVictim(c)
    <3>1. PICK g \in cplan[c] :
             /\ cremoved' = [cremoved EXCEPT ![c] = @ \cup {g}]
             /\ cplan' = [cplan EXCEPT ![c] = @ \ {g}]
      BY <2>7 DEF UnlinkVictim, Smallest
    <3>2. QED
      BY <2>7, <3>1 DEF UnlinkVictim
  <2>8. CASE CollectFails(c)
    BY <2>8 DEF CollectFails
  <2>s. CASE SweepFails(c)
    BY <2>s DEF SweepFails
  <2>9. CASE VictimsDone(c)
    BY <2>9 DEF VictimsDone
  <2>10. CASE SweepStaging(c)
    BY <2>10 DEF SweepStaging
  <2>11. CASE StageManifest(c)
    BY <2>11 DEF StageManifest
  <2>12. CASE RenameManifest(c)
    BY <2>12 DEF RenameManifest
  <2>13. CASE UnlockCollect(c)
    BY <2>13 DEF UnlockCollect
  <2>14. CASE CrashCollector(c)
    BY <2>14 DEF CrashCollector
  <2>15. QED
    BY <2>1, <2>2, <2>3, <2>4, <2>5, <2>6, <2>7, <2>8, <2>9, <2>10, <2>11,
       <2>12, <2>13, <2>14, <2>s DEF CollectorNext, CollectorStep
<1>5. QED
  BY <1>1, <1>3, <1>4 DEF TypeInv, TypeOK

LEMMA TypeStep == TypeInv /\ [Next]_vars => TypeInv'
<1> SUFFICES ASSUME TypeInv, [Next]_vars PROVE TypeInv'
  OBVIOUS
<1>1. CASE UNCHANGED vars
  <2> USE <1>1 DEF TypeInv, TypeOK, vars, dirVars, writerVars, readerVars,
                   collVars
  <2>1. DirTypeOK'
    BY DEF DirTypeOK
  <2>2. WriterTypeOK' /\ WriterTyped'
    BY DEF WriterTypeOK, WriterTyped
  <2>3. ReaderTypeOK' /\ ReaderTyped'
    BY DEF ReaderTypeOK, ReaderTyped
  <2>4. CollectorTypeOK'
    BY DEF CollectorTypeOK
  <2>5. QED
    BY <2>1, <2>2, <2>3, <2>4
<1>2. CASE Next
  BY <1>2, TypeWriter, TypeReader, TypeCollector DEF Next
<1>3. QED
  BY <1>1, <1>2

\* Every file, program counter and generation number of the model keeps its
\* type, and no count exceeds its bound.
THEOREM TypeCorrect == Spec => []TypeOK
<1>1. Spec => []TypeInv
  BY TypeInit, TypeStep, PTL DEF Spec
<1>2. TypeInv => TypeOK
  BY DEF TypeInv
<1>3. QED
  BY <1>1, <1>2, PTL

-----------------------------------------------------------------------------
(* Safety.  The inductive invariant says who may be inside .HEAD.lock, what  *)
(* a publisher knows at each step of the commit, and what a collector may    *)
(* still delete.                                                             *)

LockInv ==
    /\ \A w \in Writers : lock = w <=> wpc[w] \in WriterLocked
    /\ \A c \in Collectors : lock = c <=> cpc[c] \in CollectorLocked

\* The candidate is built from the corpus alone or on the payload at HEAD.
Current(w) == \/ wout[w] = <<w>>
              \/ head # NoGen /\ wout[w] = Append(gens[head], w)

\* A publisher's base is never ahead of HEAD; while HEAD has not moved its
\* candidate is current; inside the lock it is the only one to move it.
WriterOk(w) ==
    /\ wpc[w] # "idle" => wbase[w] <= head
    /\ wpc[w] = "load" => wbase[w] <= wsrc[w] /\ wsrc[w] <= head
    /\ (wpc[w] \in {"built", "staged", "locked", "checked", "genRenamed",
                    "headStaged"} /\ head = wbase[w]) => Current(w)
    /\ wpc[w] \in {"checked", "genRenamed", "headStaged"} => head = wbase[w]
    /\ wpc[w] \in {"genRenamed", "headStaged", "committed"}
          => gens[wbase[w] + 1] = wout[w] /\ wout[w] # Absent
    /\ wpc[w] \in {"built", "staged", "locked", "checked"}
          => wout[w] # Absent
    /\ wpc[w] = "headStaged" => headTmp = wbase[w] + 1
    /\ wpc[w] = "committed" => head = wbase[w] + 1

WriterInv == \A w \in Writers : WriterOk(w)

\* What a collector has still to delete is below HEAD and in the journal before
\* it goes; what it has deleted is gone for good.
CollectorOk(c) ==
    /\ \A g \in cplan[c] : g < head
    /\ cpc[c] = "unlink" => Smallest(cplan[c]) \subseteq reclaimed
    /\ cremoved[c] \subseteq reclaimed \ OnDisk
    /\ csweep[c] \subseteq Writers \X {FALSE}

CollectorInv == \A c \in Collectors : CollectorOk(c)

DirInv == /\ HeadComplete
          /\ NoUnrecordedGap
          /\ OneArtifact
          /\ ManifestTruthful
          /\ \A g \in reclaimed : g < head

\* A pin that was there when the pins were listed shields its generation.
ReaderOk(r) ==
    /\ (rpc[r] \in {"pin", "load", "open"} /\ rmode[r] = "head")
          => rgen[r] <= head
    /\ (rpc[r] \in ReaderPinned /\ ~rlate[r]) =>
          \A c \in Collectors :
              cpc[c] \in CollectorDeleting => rgen[r] \notin cplan[c]

ReaderInv == \A r \in Readers : ReaderOk(r)

Inv == /\ TypeInv
       /\ LockInv /\ WriterInv /\ CollectorInv /\ DirInv /\ ReaderInv
       /\ StagingKept /\ BoundImmutable /\ EarlyPinProtects

-----------------------------------------------------------------------------
LEMMA AppendNonEmpty ==
  ASSUME NEW S, NEW s \in Seq(S), NEW e \in S
  PROVE  Append(s, e) # << >>
  BY AppendProperties, EmptySeq

LEMMA InvInit == Init => Inv
<1> SUFFICES ASSUME Init PROVE Inv
  OBVIOUS
<1>1. TypeInv
  BY TypeInit
<1>2. LockInv
  BY RolesDisjoint DEF Init, LockInv, WriterLocked, CollectorLocked,
                       CollectorPlanned, CollectorDeleting
<1>3. WriterInv /\ StagingKept
  BY DEF Init, WriterInv, WriterOk, StagingKept, WriterStaging
<1>4. CollectorInv
  BY DEF Init, CollectorInv, CollectorOk
<1>5. DirInv
  BY MaxGenNat DEF Init, DirInv, HeadComplete, NoUnrecordedGap, OneArtifact,
                   ManifestTruthful, OnDisk, Gen, NoGen, Absent
<1>6. ReaderInv /\ BoundImmutable /\ EarlyPinProtects
  BY DEF Init, ReaderInv, ReaderOk, BoundImmutable, EarlyPinProtects, ReaderPinned
<1>7. QED
  BY <1>1, <1>2, <1>3, <1>4, <1>5, <1>6 DEF Inv

\* Only the holder of .HEAD.lock is between taking and releasing it.
LEMMA LockWriter ==
  ASSUME TypeInv, LockInv, NEW w \in Writers, WriterNext(w)
  PROVE  LockInv'
<1>a. UNCHANGED cpc /\ wpc \in [Writers -> WriterStates]
  BY WriterFrame DEF collVars, TypeInv, TypeOK, WriterTypeOK
<1> USE <1>a, RolesDisjoint
    DEF LockInv, WriterLocked, WriterStaging, WriterReset
<1>1. CASE BuildFull(w)
  BY <1>1 DEF BuildFull
<1>2. CASE BuildIncremental(w)
  BY <1>2 DEF BuildIncremental
<1>3. CASE ReloadHead(w)
  BY <1>3 DEF ReloadHead
<1>4. CASE LoadBase(w)
  BY <1>4 DEF LoadBase
<1>5. CASE LoadBaseMissing(w)
  BY <1>5 DEF LoadBaseMissing
<1>6. CASE StageGeneration(w)
  BY <1>6 DEF StageGeneration
<1>7. CASE LockForPublish(w)
  BY <1>7 DEF LockForPublish
<1>8. CASE CheckBase(w)
  BY <1>8 DEF CheckBase
<1>9. CASE RenameGeneration(w)
  BY <1>9 DEF RenameGeneration
<1>10. CASE StageHead(w)
  BY <1>10 DEF StageHead
<1>11. CASE RenameHead(w)
  BY <1>11 DEF RenameHead
<1>12. CASE VerifyHead(w)
  BY <1>12 DEF VerifyHead
<1>13. CASE UnlockPublish(w)
  BY <1>13 DEF UnlockPublish
<1>14. CASE Cleanup(w)
  BY <1>14 DEF Cleanup
<1>s. CASE StageFails(w)
  BY <1>s DEF StageFails
<1>p. CASE PublishFails(w)
  BY <1>p DEF PublishFails
<1>15. CASE CrashWriter(w)
  BY <1>15 DEF CrashWriter
<1>16. QED
  BY <1>1, <1>2, <1>3, <1>4, <1>5, <1>6, <1>7, <1>8, <1>9, <1>10,
     <1>11, <1>12, <1>13, <1>14, <1>15, <1>s, <1>p DEF WriterNext, WriterStep

LEMMA LockCollector ==
  ASSUME TypeInv, LockInv, NEW c \in Collectors, CollectorNext(c)
  PROVE  LockInv'
<1>a. UNCHANGED wpc /\ cpc \in [Collectors -> CollectorStates]
  BY CollectorFrame DEF writerVars, TypeInv, TypeOK, CollectorTypeOK
<1> USE <1>a, RolesDisjoint
    DEF LockInv, CollectorLocked, CollectorPlanned, CollectorDeleting,
        CollectorReset
<1>1. CASE LockForCollect(c)
  BY <1>1 DEF LockForCollect
<1>2. CASE ReportOnly(c)
  BY <1>2 DEF ReportOnly
<1>3. CASE ReapStalePins(c)
  BY <1>3 DEF ReapStalePins
<1>4. CASE PlanVictims(c)
  BY <1>4 DEF PlanVictims
<1>5. CASE StageJournal(c)
  BY <1>5 DEF StageJournal
<1>6. CASE RecordVictim(c)
  BY <1>6 DEF RecordVictim
<1>7. CASE UnlinkVictim(c)
  BY <1>7 DEF UnlinkVictim
<1>8. CASE CollectFails(c)
  BY <1>8 DEF CollectFails
<1>s. CASE SweepFails(c)
  BY <1>s DEF SweepFails
<1>9. CASE VictimsDone(c)
  BY <1>9 DEF VictimsDone
<1>10. CASE SweepStaging(c)
  BY <1>10 DEF SweepStaging
<1>11. CASE StageManifest(c)
  BY <1>11 DEF StageManifest
<1>12. CASE RenameManifest(c)
  BY <1>12 DEF RenameManifest
<1>13. CASE UnlockCollect(c)
  BY <1>13 DEF UnlockCollect
<1>14. CASE CrashCollector(c)
  BY <1>14 DEF CrashCollector
<1>15. QED
  BY <1>1, <1>2, <1>3, <1>4, <1>5, <1>6, <1>7, <1>8, <1>9, <1>10,
     <1>11, <1>12, <1>13, <1>14, <1>s DEF CollectorNext, CollectorStep

\* What a writer's step does to HEAD and the generations: nothing, put its
\* candidate in place as HEAD's successor, or make that successor HEAD.
NothingMoves == head' = head /\ gens' = gens

SuccessorPlaced(w) ==
    /\ lock = w /\ wpc[w] = "checked" /\ head = wbase[w]
    /\ head + 1 \in Gen /\ wout[w] # Absent
    /\ head' = head
    /\ gens' = [gens EXCEPT ![head + 1] = wout[w]]

SuccessorCommitted(w) ==
    /\ lock = w /\ wpc[w] = "headStaged"
    /\ head + 1 \in Gen /\ head' = head + 1 /\ gens' = gens
    /\ gens[head + 1] = wout[w] /\ wout[w] # Absent /\ Current(w)

LEMMA WriterEffect ==
  ASSUME TypeInv, LockInv, WriterInv, NEW w \in Writers, WriterNext(w)
  PROVE  NothingMoves \/ SuccessorPlaced(w) \/ SuccessorCommitted(w)
<1>a. /\ head \in Gen \cup {NoGen}
      /\ wbase[w] \in Gen \cup {NoGen}
      /\ wpc[w] # "idle" => wbase[w] < MaxGen
  BY DEF TypeInv, TypeOK, DirTypeOK, WriterTypeOK, WriterTyped
<1>b. wpc[w] \in WriterLocked => lock = w
  BY DEF LockInv
<1>c. wpc[w] # "idle" => wbase[w] + 1 \in Gen
  BY <1>a, MaxGenNat DEF Gen, NoGen
<1>1. CASE RenameGeneration(w)
  <2>1. wpc[w] = "checked" /\ head = wbase[w] /\ wout[w] # Absent
    BY <1>1 DEF RenameGeneration, WriterInv, WriterOk
  <2>2. QED
    BY <1>1, <1>b, <1>c, <2>1
       DEF RenameGeneration, SuccessorPlaced, WriterLocked
<1>2. CASE RenameHead(w)
  <2>1. /\ wpc[w] = "headStaged" /\ head = wbase[w] /\ Current(w)
        /\ gens[wbase[w] + 1] = wout[w] /\ wout[w] # Absent
        /\ headTmp = wbase[w] + 1
    BY <1>2 DEF RenameHead, WriterInv, WriterOk
  <2>2. QED
    BY <1>2, <1>b, <1>c, <2>1
       DEF RenameHead, SuccessorCommitted, WriterLocked
<1>3. CASE ~RenameGeneration(w) /\ ~RenameHead(w)
  BY <1>3 DEF NothingMoves, WriterNext, WriterStep, BuildFull,
              BuildIncremental, ReloadHead, LoadBase, LoadBaseMissing,
              StageGeneration, LockForPublish, CheckBase, StageHead,
              VerifyHead, UnlockPublish, StageFails, PublishFails, Cleanup, CrashWriter, dirVars
<1>4. QED
  BY <1>1, <1>2, <1>3

\* A collector removes generations below HEAD, each one after recording it.
VictimRemoved(c) ==
    /\ cpc[c] = "unlink" /\ head' = head
    /\ \E g \in Smallest(cplan[c]) :
         /\ g < head /\ g \in reclaimed
         /\ gens' = [gens EXCEPT ![g] = Absent]

LEMMA CollectorEffect ==
  ASSUME TypeInv, CollectorInv, NEW c \in Collectors, CollectorNext(c)
  PROVE  NothingMoves \/ VictimRemoved(c)
<1>1. CASE UnlinkVictim(c)
  BY <1>1 DEF UnlinkVictim, VictimRemoved, CollectorInv, CollectorOk,
              Smallest
<1>2. CASE ~UnlinkVictim(c)
  <2>1. gens' = gens
    BY <1>2 DEF CollectorNext, CollectorStep, LockForCollect, ReportOnly,
                ReapStalePins, PlanVictims, StageJournal, RecordVictim,
                CollectFails, SweepFails, VictimsDone, SweepStaging, StageManifest,
                RenameManifest, UnlockCollect, CrashCollector, dirVars
  <2>2. QED
    BY <2>1, CollectorFrame DEF NothingMoves
<1>3. QED
  BY <1>1, <1>2

-----------------------------------------------------------------------------
(* The directory.                                                            *)

LEMMA DirWriter ==
  ASSUME TypeInv, LockInv, WriterInv, DirInv,
         NEW w \in Writers, WriterNext(w)
  PROVE  DirInv'
<1>a. /\ head \in Gen \cup {NoGen} /\ gens \in [Gen -> Seq(Writers)]
      /\ reclaimed \subseteq Gen /\ UNCHANGED <<reclaimed, manifest>>
  BY WriterFrame DEF TypeInv, TypeOK, DirTypeOK
<1> USE <1>a, MaxGenNat
    DEF DirInv, HeadComplete, NoUnrecordedGap, OneArtifact, ManifestTruthful,
        OnDisk, Gen, NoGen
<1>1. CASE NothingMoves
  BY <1>1 DEF NothingMoves
<1>2. CASE SuccessorPlaced(w)
  BY <1>2 DEF SuccessorPlaced
<1>3. CASE SuccessorCommitted(w)
  BY <1>3 DEF SuccessorCommitted
<1>4. QED
  BY <1>1, <1>2, <1>3, WriterEffect

LEMMA DirCollector ==
  ASSUME TypeInv, CollectorInv, DirInv,
         NEW c \in Collectors, CollectorNext(c)
  PROVE  DirInv'
<1>a. /\ head \in Gen \cup {NoGen} /\ gens \in [Gen -> Seq(Writers)]
      /\ reclaimed \subseteq Gen /\ head' = head
  BY CollectorFrame DEF TypeInv, TypeOK, DirTypeOK
<1>b. /\ reclaimed \subseteq reclaimed'
      /\ \A g \in reclaimed' : g \in reclaimed \/ g \in cplan[c]
  BY CollectorFrame
<1>c. \A g \in reclaimed' : g < head
  BY <1>b DEF DirInv, CollectorInv, CollectorOk
<1>d. manifest' \subseteq reclaimed \ OnDisk
  BY CollectorFrame DEF DirInv, ManifestTruthful, CollectorInv, CollectorOk
<1> USE <1>a, <1>b, <1>c, <1>d, MaxGenNat
    DEF DirInv, HeadComplete, NoUnrecordedGap, OneArtifact, ManifestTruthful,
        OnDisk, Gen, NoGen
<1>1. CASE NothingMoves
  BY <1>1 DEF NothingMoves
<1>2. CASE VictimRemoved(c)
  <2>1. PICK g \in Smallest(cplan[c]) :
           /\ g < head /\ g \in reclaimed
           /\ gens' = [gens EXCEPT ![g] = Absent]
    BY <1>2 DEF VictimRemoved
  <2>2. OnDisk' = OnDisk \ {g} /\ (head # NoGen => gens'[head] = gens[head])
    BY <2>1
  <2>3. HeadComplete' /\ OneArtifact'
    BY <2>2
  <2>4. NoUnrecordedGap' /\ ManifestTruthful'
    BY <2>1, <2>2
  <2>5. QED
    BY <2>3, <2>4
<1>3. QED
  BY <1>1, <1>2, CollectorEffect

-----------------------------------------------------------------------------
(* The writers.                                                              *)

LEMMA WritersByWriter ==
  ASSUME TypeInv, LockInv, WriterInv, DirInv,
         NEW w \in Writers, WriterNext(w)
  PROVE  WriterInv'
<1>a. /\ head \in Gen \cup {NoGen} /\ gens \in [Gen -> Seq(Writers)]
      /\ WriterTypeOK
  BY DEF TypeInv, TypeOK, DirTypeOK
<1>1. ASSUME NEW v \in Writers, v # w
      PROVE  WriterOk(v)'
  <2>1. /\ wpc'[v] = wpc[v] /\ wbase'[v] = wbase[v]
        /\ wsrc'[v] = wsrc[v] /\ wout'[v] = wout[v]
    BY <1>1, <1>a DEF WriterTypeOK, WriterNext, WriterStep, BuildFull,
           BuildIncremental, ReloadHead, LoadBase, LoadBaseMissing,
           StageGeneration, LockForPublish, CheckBase, RenameGeneration,
           StageHead, RenameHead, VerifyHead, UnlockPublish, StageFails, PublishFails, Cleanup,
           CrashWriter, WriterReset
  <2>2. WriterOk(v) /\ wbase[v] \in Gen \cup {NoGen}
        /\ wsrc[v] \in Gen \cup {NoGen}
    BY <1>a DEF WriterInv, WriterTypeOK
  <2>3. headTmp' = headTmp \/ lock = w
    BY DEF LockInv, WriterLocked, WriterNext, WriterStep, BuildFull,
           BuildIncremental, ReloadHead, LoadBase, LoadBaseMissing,
           StageGeneration, LockForPublish, CheckBase, RenameGeneration,
           StageHead, RenameHead, VerifyHead, UnlockPublish, StageFails, PublishFails, Cleanup,
           CrashWriter, dirVars
  <2>4. lock = w => wpc[v] \notin WriterLocked
    BY <1>1 DEF LockInv
  <2>5. CASE NothingMoves
    <3>1. head' = head /\ gens' = gens /\ Current(v)' = Current(v)
      BY <2>1, <2>5 DEF NothingMoves, Current
    <3>2. CASE headTmp' = headTmp
      BY <2>1, <2>2, <3>1, <3>2 DEF WriterOk
    <3>3. CASE lock = w
      BY <2>1, <2>2, <2>4, <3>1, <3>3 DEF WriterOk, WriterLocked
    <3>4. QED
      BY <2>3, <3>2, <3>3
  <2>6. CASE SuccessorPlaced(w)
    <3>1. /\ head' = head /\ lock = w
          /\ \A g \in Gen : g # head + 1 => gens'[g] = gens[g]
      BY <2>6, <1>a DEF SuccessorPlaced
    <3>2. wpc[v] \notin WriterLocked
      BY <2>4, <3>1
    <3>3. head \in Gen => gens'[head] = gens[head]
      BY <3>1, <1>a, MaxGenNat DEF Gen
    <3>4. (Current(v) /\ head = wbase[v]) => Current(v)'
      BY <2>1, <2>2, <3>1, <3>3 DEF Current, Gen, NoGen
    <3>5. QED
      BY <2>1, <2>2, <3>1, <3>2, <3>4 DEF WriterOk, WriterLocked
  <2>7. CASE SuccessorCommitted(w)
    BY <2>1, <2>2, <2>4, <2>7, <1>a, MaxGenNat
       DEF SuccessorCommitted, WriterOk, Current, WriterLocked, Gen, NoGen
  <2>8. QED
    BY <2>5, <2>6, <2>7, WriterEffect
<1>2. WriterOk(w)'
  <2>a. WriterOk(w) /\ w \in Writers
    BY DEF WriterInv
  <2>b. wpc[w] # "idle" => wbase[w] + 1 \in Gen
    <3>1. wbase[w] \in Gen \cup {NoGen} /\ (wpc[w] # "idle" => wbase[w] < MaxGen)
      BY <1>a DEF TypeInv, WriterTypeOK, WriterTyped
    <3>2. QED
      BY <3>1, MaxGenNat DEF Gen, NoGen
  <2>c. head # NoGen => gens[head] # Absent
    BY DEF DirInv, HeadComplete
  <2> USE <1>a, <2>a, <2>b, <2>c, MaxGenNat
      DEF WriterTypeOK, WriterOk, Current, WriterReset, dirVars, Gen, NoGen
  <2>1. CASE BuildFull(w)
    <3>1. <<w>> # Absent
      BY DEF Absent
    <3>2. QED
      BY <2>1, <3>1 DEF BuildFull
  <2>2. CASE BuildIncremental(w)
    BY <2>2 DEF BuildIncremental
  <2>3. CASE ReloadHead(w)
    BY <2>3 DEF ReloadHead
  <2>4. CASE LoadBase(w)
    <3>1. Append(gens[wsrc[w]], w) # Absent
      <4>1. wsrc[w] \in Gen
        BY <2>4 DEF LoadBase, TypeInv, WriterTyped
      <4>2. gens[wsrc[w]] \in Seq(Writers)
        BY <4>1
      <4>3. QED
        BY <4>2, AppendNonEmpty DEF Absent
    <3>2. head = wbase[w] => wsrc[w] = head /\ head # NoGen
      BY <2>4 DEF LoadBase, TypeInv, WriterTyped
    <3>3. /\ wpc'[w] = "built" /\ wbase'[w] = wbase[w]
          /\ wout'[w] = Append(gens[wsrc[w]], w)
          /\ head' = head /\ gens' = gens /\ wbase[w] <= head
      BY <2>4 DEF LoadBase
    <3>4. QED
      BY <3>1, <3>2, <3>3
  <2>5. CASE LoadBaseMissing(w)
    BY <2>5 DEF LoadBaseMissing
  <2>6. CASE StageGeneration(w)
    BY <2>6 DEF StageGeneration
  <2>7. CASE LockForPublish(w)
    BY <2>7 DEF LockForPublish
  <2>8. CASE CheckBase(w)
    BY <2>8 DEF CheckBase
  <2>9. CASE RenameGeneration(w)
    <3>1. head = wbase[w] /\ wout[w] # Absent /\ Current(w)
      BY <2>9 DEF RenameGeneration
    <3>2. /\ wpc'[w] = "genRenamed" /\ wbase'[w] = wbase[w]
          /\ wout'[w] = wout[w] /\ head' = head
      BY <2>9 DEF RenameGeneration
    <3>3. gens'[wbase[w] + 1] = wout[w] /\ (head # NoGen => gens'[head] = gens[head])
      BY <2>9, <3>1 DEF RenameGeneration
    <3>4. Current(w)'
      BY <3>1, <3>2, <3>3
    <3>5. /\ wbase'[w] <= head' /\ head' = wbase'[w]
          /\ gens'[wbase'[w] + 1] = wout'[w] /\ wout'[w] # Absent
      BY <3>1, <3>2, <3>3
    <3>6. QED
      BY ONLY <3>2, <3>4, <3>5 DEF WriterOk
  <2>10. CASE StageHead(w)
    BY <2>10 DEF StageHead
  <2>11. CASE RenameHead(w)
    BY <2>11 DEF RenameHead
  <2>12. CASE VerifyHead(w)
    BY <2>12 DEF VerifyHead
  <2>13. CASE UnlockPublish(w)
    BY <2>13 DEF UnlockPublish
  <2>14. CASE Cleanup(w)
    BY <2>14 DEF Cleanup
  <2>s. CASE StageFails(w)
    BY <2>s DEF StageFails
  <2>p. CASE PublishFails(w)
    BY <2>p DEF PublishFails
  <2>15. CASE CrashWriter(w)
    BY <2>15 DEF CrashWriter
  <2>16. QED
    BY <2>1, <2>2, <2>3, <2>4, <2>5, <2>6, <2>7, <2>8, <2>9, <2>10,
       <2>11, <2>12, <2>13, <2>14, <2>15, <2>s, <2>p DEF WriterNext, WriterStep
<1>3. QED
  BY <1>1, <1>2 DEF WriterInv

LEMMA WritersByCollector ==
  ASSUME TypeInv, LockInv, WriterInv, CollectorInv,
         NEW c \in Collectors, CollectorNext(c)
  PROVE  WriterInv'
<1> SUFFICES ASSUME NEW w \in Writers PROVE WriterOk(w)'
  BY DEF WriterInv
<1>1. UNCHANGED <<wpc, wbase, wsrc, wout, head>>
  BY CollectorFrame DEF writerVars
<1>2. headTmp' = headTmp \/ lock = c
  BY DEF LockInv, CollectorLocked, CollectorPlanned, CollectorNext,
         CollectorStep, LockForCollect, ReportOnly, ReapStalePins,
         PlanVictims, StageJournal, RecordVictim, UnlinkVictim, CollectFails, SweepFails,
         VictimsDone, SweepStaging, StageManifest, RenameManifest,
         UnlockCollect, CrashCollector, dirVars
<1>3. lock = c => wpc[w] \notin WriterLocked
  BY RolesDisjoint DEF LockInv
<1>4. WriterOk(w) /\ head \in Gen \cup {NoGen}
      /\ wbase[w] \in Gen \cup {NoGen} /\ gens \in [Gen -> Seq(Writers)]
  BY DEF WriterInv, TypeInv, TypeOK, DirTypeOK, WriterTypeOK
<1>5. CASE NothingMoves
  BY <1>1, <1>2, <1>3, <1>4, <1>5
     DEF NothingMoves, WriterOk, Current, WriterLocked
<1>6. CASE VictimRemoved(c)
  <2>1. lock = c
    BY <1>6 DEF VictimRemoved, LockInv, CollectorLocked, CollectorPlanned,
                CollectorDeleting
  <2>2. PICK g \in Smallest(cplan[c]) :
           g < head /\ gens' = [gens EXCEPT ![g] = Absent]
    BY <1>6 DEF VictimRemoved
  <2>3. head # NoGen => gens'[head] = gens[head]
    BY <2>2, <1>4, MaxGenNat DEF Gen, NoGen
  <2>4. QED
    BY <1>1, <1>3, <1>4, <2>1, <2>3 DEF WriterOk, Current, WriterLocked
<1>7. QED
  BY <1>5, <1>6, CollectorEffect

LEMMA StagingByWriter ==
  ASSUME TypeInv, StagingKept, NEW w \in Writers, WriterNext(w)
  PROVE  StagingKept'
<1>a. wpc \in [Writers -> WriterStates]
  BY DEF TypeInv, TypeOK, WriterTypeOK
<1>1. ASSUME NEW v \in Writers, v # w
      PROVE  wpc'[v] = wpc[v] /\ (<<v, TRUE>> \in tmps => <<v, TRUE>> \in tmps')
  <2>1. wpc'[v] = wpc[v]
    BY <1>1, <1>a DEF WriterNext, WriterStep, BuildFull,
           BuildIncremental, ReloadHead, LoadBase, LoadBaseMissing,
           StageGeneration, LockForPublish, CheckBase, RenameGeneration,
           StageHead, RenameHead, VerifyHead, UnlockPublish, StageFails, PublishFails, Cleanup,
           CrashWriter, WriterReset
  <2>2. QED
    BY <1>1, <2>1, WriterFrame
<1>2. wpc'[w] \in WriterStaging => <<w, TRUE>> \in tmps'
  <2> USE <1>a DEF WriterStaging, StagingKept, WriterReset, dirVars
  <2>1. CASE BuildFull(w)
    BY <2>1 DEF BuildFull
  <2>2. CASE BuildIncremental(w)
    BY <2>2 DEF BuildIncremental
  <2>3. CASE ReloadHead(w)
    BY <2>3 DEF ReloadHead
  <2>4. CASE LoadBase(w)
    BY <2>4 DEF LoadBase
  <2>5. CASE LoadBaseMissing(w)
    BY <2>5 DEF LoadBaseMissing
  <2>6. CASE StageGeneration(w)
    BY <2>6 DEF StageGeneration
  <2>7. CASE LockForPublish(w)
    BY <2>7 DEF LockForPublish
  <2>8. CASE CheckBase(w)
    BY <2>8 DEF CheckBase
  <2>9. CASE RenameGeneration(w)
    BY <2>9 DEF RenameGeneration
  <2>10. CASE StageHead(w)
    BY <2>10 DEF StageHead
  <2>11. CASE RenameHead(w)
    BY <2>11 DEF RenameHead
  <2>12. CASE VerifyHead(w)
    BY <2>12 DEF VerifyHead
  <2>13. CASE UnlockPublish(w)
    BY <2>13 DEF UnlockPublish
  <2>14. CASE Cleanup(w)
    BY <2>14 DEF Cleanup
  <2>s. CASE StageFails(w)
    BY <2>s DEF StageFails
  <2>p. CASE PublishFails(w)
    BY <2>p DEF PublishFails
  <2>15. CASE CrashWriter(w)
    BY <2>15 DEF CrashWriter
  <2>16. QED
    BY <2>1, <2>2, <2>3, <2>4, <2>5, <2>6, <2>7, <2>8, <2>9, <2>10,
       <2>11, <2>12, <2>13, <2>14, <2>15, <2>s, <2>p DEF WriterNext, WriterStep
<1>3. QED
  BY <1>1, <1>2 DEF StagingKept

LEMMA StagingByCollector ==
  ASSUME StagingKept, CollectorInv, NEW c \in Collectors, CollectorNext(c)
  PROVE  StagingKept'
<1>1. \A w \in Writers : <<w, TRUE>> \notin csweep[c]
  BY DEF CollectorInv, CollectorOk
<1>2. QED
  BY <1>1, CollectorFrame DEF StagingKept, writerVars

-----------------------------------------------------------------------------
(* The collectors.                                                           *)

LEMMA CollectorsByWriter ==
  ASSUME TypeInv, LockInv, WriterInv, CollectorInv, DirInv,
         NEW w \in Writers, WriterNext(w)
  PROVE  CollectorInv'
<1> SUFFICES ASSUME NEW c \in Collectors PROVE CollectorOk(c)'
  BY DEF CollectorInv
<1>1. UNCHANGED <<cpc, cplan, csweep, cremoved, reclaimed>>
  BY WriterFrame DEF collVars
<1>2. /\ head \in Gen \cup {NoGen} /\ gens \in [Gen -> Seq(Writers)]
      /\ cplan[c] \subseteq Gen /\ reclaimed \subseteq Gen
      /\ CollectorOk(c) /\ \A g \in reclaimed : g < head
  BY DEF TypeInv, TypeOK, DirTypeOK, CollectorTypeOK, CollectorInv, DirInv
<1>3. head' \in {head, head + 1} /\ \A g \in reclaimed : gens'[g] = gens[g]
  <2>1. CASE NothingMoves
    BY <2>1 DEF NothingMoves
  <2>2. CASE SuccessorPlaced(w)
    BY <1>2, <2>2, MaxGenNat DEF SuccessorPlaced, Gen, NoGen
  <2>3. CASE SuccessorCommitted(w)
    BY <2>3 DEF SuccessorCommitted
  <2>4. QED
    BY <2>1, <2>2, <2>3, WriterEffect
<1>4. \A g \in cplan'[c] : g < head'
  BY <1>1, <1>2, <1>3, MaxGenNat DEF CollectorOk, Gen, NoGen
<1>5. cremoved'[c] \subseteq reclaimed' \ OnDisk'
  BY <1>1, <1>2, <1>3 DEF CollectorOk, OnDisk
<1>6. QED
  BY <1>1, <1>2, <1>4, <1>5 DEF CollectorOk

\* The victims are below HEAD and not pinned.
LEMMA VictimsBelowHead ==
  ASSUME NEW j, NEW pinned, NEW g \in Victims(j, pinned)
  PROVE  g \in OnDisk /\ g < head /\ g \notin pinned
  BY DEF Victims

LEMMA SmallestUnique ==
  ASSUME NEW S, S \subseteq Gen, NEW g \in Smallest(S), NEW h \in Smallest(S)
  PROVE  g = h
  BY MaxGenNat DEF Smallest, Gen

LEMMA CollectorsByCollector ==
  ASSUME TypeInv, LockInv, CollectorInv, DirInv,
         NEW c \in Collectors, CollectorNext(c)
  PROVE  CollectorInv'
<1>a. CollectorTypeOK /\ head' = head /\ OnDisk' \subseteq OnDisk
      /\ reclaimed \subseteq reclaimed'
  <2>1. head' = head /\ reclaimed \subseteq reclaimed'
    BY CollectorFrame
  <2>2. gens \in [Gen -> Seq(Writers)] /\ CollectorTypeOK
    BY DEF TypeInv, TypeOK, DirTypeOK
  <2>3. gens' = gens \/ \E g \in cplan[c] : gens' = [gens EXCEPT ![g] = Absent]
    BY CollectorFrame
  <2>4. QED
    BY <2>1, <2>2, <2>3 DEF OnDisk
<1>1. ASSUME NEW d \in Collectors, d # c
      PROVE  CollectorOk(d)'
  <2>1. /\ cpc'[d] = cpc[d] /\ cplan'[d] = cplan[d]
        /\ csweep'[d] = csweep[d] /\ cremoved'[d] = cremoved[d]
    BY <1>1, <1>a DEF CollectorTypeOK, CollectorNext, CollectorStep,
         LockForCollect, ReportOnly, ReapStalePins, PlanVictims,
         StageJournal, RecordVictim, UnlinkVictim, CollectFails, SweepFails, VictimsDone,
         SweepStaging, StageManifest, RenameManifest, UnlockCollect,
         CrashCollector, CollectorReset
  <2>2. CollectorOk(d)
    BY DEF CollectorInv
  <2>3. QED
    BY <1>a, <2>1, <2>2 DEF CollectorOk
<1>2. CollectorOk(c)'
  <2>a. CollectorOk(c) /\ c \in Collectors
    BY DEF CollectorInv
  <2> USE <1>a, <2>a DEF CollectorTypeOK, CollectorOk, CollectorReset
  <2>1. CASE LockForCollect(c)
    BY <2>1 DEF LockForCollect, dirVars
  <2>2. CASE ReportOnly(c)
    BY <2>2 DEF ReportOnly, dirVars
  <2>3. CASE ReapStalePins(c)
    BY <2>3 DEF ReapStalePins
  <2>4. CASE PlanVictims(c)
    <3>1. \A g \in cplan'[c] : g < head
      BY <2>4, VictimsBelowHead DEF PlanVictims
    <3>2. csweep'[c] \subseteq Writers \X {FALSE}
      BY <2>4 DEF PlanVictims, DeadStaging
    <3>3. UNCHANGED <<reclaimed, cremoved>> /\ cpc'[c] = "next"
      BY <2>4 DEF PlanVictims, dirVars
    <3>4. QED
      BY <3>1, <3>2, <3>3
  <2>5. CASE StageJournal(c)
    BY <2>5 DEF StageJournal
  <2>6. CASE RecordVictim(c)
    <3>1. PICK g \in Smallest(cplan[c]) : reclaimed' = reclaimed \cup {g}
      BY <2>6 DEF RecordVictim
    <3>2. Smallest(cplan[c]) \subseteq reclaimed'
      BY <3>1, SmallestUnique
    <3>3. UNCHANGED <<cplan, csweep, cremoved, gens>>
      BY <2>6 DEF RecordVictim
    <3>4. QED
      BY <3>2, <3>3 DEF Smallest
  <2>7. CASE UnlinkVictim(c)
    <3>1. PICK g \in Smallest(cplan[c]) :
             /\ gens' = [gens EXCEPT ![g] = Absent]
             /\ cremoved' = [cremoved EXCEPT ![c] = @ \cup {g}]
             /\ cplan' = [cplan EXCEPT ![c] = @ \ {g}]
      BY <2>7 DEF UnlinkVictim
    <3>2. g \in reclaimed /\ g \notin OnDisk'
      <4>1. g \in reclaimed /\ g \in Gen
        BY <2>7, <3>1 DEF UnlinkVictim, Smallest
      <4>2. gens \in [Gen -> Seq(Writers)]
        BY DEF TypeInv, TypeOK, DirTypeOK
      <4>3. QED
        BY <3>1, <4>1, <4>2 DEF OnDisk
    <3>3. cremoved'[c] \subseteq reclaimed' \ OnDisk'
      BY <3>1, <3>2
    <3>4. cpc'[c] = "next" /\ csweep' = csweep /\ cplan'[c] \subseteq cplan[c]
      BY <2>7, <3>1 DEF UnlinkVictim
    <3>5. QED
      BY <3>3, <3>4
  <2>8. CASE CollectFails(c)
    BY <2>8 DEF CollectFails, dirVars
  <2>s. CASE SweepFails(c)
    BY <2>s DEF SweepFails, dirVars
  <2>9. CASE VictimsDone(c)
    BY <2>9 DEF VictimsDone, dirVars
  <2>10. CASE SweepStaging(c)
    BY <2>10 DEF SweepStaging
  <2>11. CASE StageManifest(c)
    BY <2>11 DEF StageManifest
  <2>12. CASE RenameManifest(c)
    BY <2>12 DEF RenameManifest
  <2>13. CASE UnlockCollect(c)
    BY <2>13 DEF UnlockCollect, dirVars
  <2>14. CASE CrashCollector(c)
    BY <2>14 DEF CrashCollector, dirVars
  <2>15. QED
    BY <2>1, <2>2, <2>3, <2>4, <2>5, <2>6, <2>7, <2>8, <2>9, <2>10,
       <2>11, <2>12, <2>13, <2>14, <2>s DEF CollectorNext, CollectorStep
<1>3. QED
  BY <1>1, <1>2 DEF CollectorInv

-----------------------------------------------------------------------------
(* The readers.                                                              *)

ReaderSafe == ReaderInv /\ BoundImmutable /\ EarlyPinProtects

LEMMA ReadersByWriter ==
  ASSUME TypeInv, LockInv, WriterInv, ReaderSafe,
         NEW w \in Writers, WriterNext(w)
  PROVE  ReaderSafe'
<1>1. UNCHANGED <<rpc, rmode, rgen, rsnap, rlate, cpc, cplan>>
  BY WriterFrame DEF readerVars, collVars
<1>2. /\ head \in Gen \cup {NoGen} /\ gens \in [Gen -> Seq(Writers)]
      /\ \A r \in Readers :
           /\ rgen[r] \in Gen \cup {NoGen}
           /\ rpc[r] \in {"pin", "load", "open"} => rgen[r] \in Gen
  BY DEF TypeInv, TypeOK, DirTypeOK, ReaderTypeOK, ReaderTyped
<1>3. /\ head' \in {head, head + 1}
      /\ \A g \in Gen : g <= head => gens'[g] = gens[g]
      /\ OnDisk \subseteq OnDisk'
  <2>1. CASE NothingMoves
    BY <2>1 DEF NothingMoves, OnDisk
  <2>2. CASE SuccessorPlaced(w)
    BY <1>2, <2>2, MaxGenNat DEF SuccessorPlaced, OnDisk, Gen, NoGen
  <2>3. CASE SuccessorCommitted(w)
    BY <2>3 DEF SuccessorCommitted, OnDisk
  <2>4. QED
    BY <2>1, <2>2, <2>3, WriterEffect
<1>4. ReaderInv'
  BY <1>1, <1>2, <1>3, MaxGenNat DEF ReaderSafe, ReaderInv, ReaderOk, Gen, NoGen
<1>5. BoundImmutable'
  BY <1>1, <1>2, <1>3, MaxGenNat DEF ReaderSafe, BoundImmutable, Gen, NoGen
<1>6. EarlyPinProtects'
  BY <1>1, <1>3 DEF ReaderSafe, EarlyPinProtects
<1>7. QED
  BY <1>4, <1>5, <1>6 DEF ReaderSafe

\* A collector that is deleting works off a list without the pins it listed.
LEMMA DeletingByCollector ==
  ASSUME TypeInv, ReaderInv, NEW c \in Collectors, CollectorNext(c),
         NEW r \in Readers, rpc[r] \in ReaderPinned, ~rlate[r],
         NEW d \in Collectors, cpc'[d] \in CollectorDeleting
  PROVE  rgen[r] \notin cplan'[d]
<1>a. CollectorTypeOK
  BY DEF TypeInv, TypeOK
<1>b. cpc[d] \in CollectorDeleting => rgen[r] \notin cplan[d]
  BY DEF ReaderInv, ReaderOk
<1>1. CASE d # c
  BY <1>1, <1>a, <1>b DEF CollectorTypeOK, CollectorNext, CollectorStep,
       LockForCollect, ReportOnly, ReapStalePins, PlanVictims,
       StageJournal, RecordVictim, UnlinkVictim, CollectFails, SweepFails, VictimsDone,
       SweepStaging, StageManifest, RenameManifest, UnlockCollect,
       CrashCollector, CollectorReset
<1>2. CASE d = c /\ PlanVictims(c)
  <2>1. rgen[r] \in LivePins
    BY DEF LivePins
  <2>2. PICK fooled \in SUBSET stalePins :
           cplan' = [cplan EXCEPT ![c] =
                        Victims(cjob[c], LivePins \cup fooled)]
    BY <1>2 DEF PlanVictims
  <2>3. cplan'[c] = Victims(cjob[c], LivePins \cup fooled)
    BY <1>a, <2>2 DEF CollectorTypeOK
  <2>4. QED
    BY <1>2, <2>1, <2>3, VictimsBelowHead
<1>3. CASE d = c /\ ~PlanVictims(c)
  BY <1>3, <1>a, <1>b DEF CollectorTypeOK, CollectorNext, CollectorStep,
       LockForCollect, ReportOnly, ReapStalePins,
       StageJournal, RecordVictim, UnlinkVictim, CollectFails, SweepFails, VictimsDone,
       SweepStaging, StageManifest, RenameManifest, UnlockCollect,
       CrashCollector, CollectorReset, CollectorDeleting
<1>4. QED
  BY <1>1, <1>2, <1>3

LEMMA ReadersByCollector ==
  ASSUME TypeInv, LockInv, CollectorInv, ReaderSafe,
         NEW c \in Collectors, CollectorNext(c)
  PROVE  ReaderSafe'
<1>1. UNCHANGED <<rpc, rmode, rgen, rsnap, rlate, head>>
  BY CollectorFrame DEF readerVars
<1>2. gens \in [Gen -> Seq(Writers)]
  BY DEF TypeInv, TypeOK, DirTypeOK
<1>3. ReaderInv'
  BY <1>1, DeletingByCollector DEF ReaderSafe, ReaderInv, ReaderOk
<1>4. CASE NothingMoves
  BY <1>1, <1>3, <1>4
     DEF NothingMoves, ReaderSafe, BoundImmutable, EarlyPinProtects, OnDisk
<1>5. CASE VictimRemoved(c)
  <2>1. PICK g \in Smallest(cplan[c]) : gens' = [gens EXCEPT ![g] = Absent]
    BY <1>5 DEF VictimRemoved
  <2>2. ASSUME NEW r \in Readers, rpc[r] = "open", ~rlate[r]
        PROVE  rgen[r] # g
    <3>1. rpc[r] \in ReaderPinned
      BY <2>2 DEF ReaderPinned
    <3>2. cpc[c] \in CollectorDeleting
      BY <1>5 DEF VictimRemoved, CollectorDeleting
    <3>3. rgen[r] \notin cplan[c]
      BY <2>2, <3>1, <3>2 DEF ReaderSafe, ReaderInv, ReaderOk
    <3>4. QED
      BY <3>3 DEF Smallest
  <2>3. EarlyPinProtects'
    BY <1>1, <1>2, <2>1, <2>2 DEF ReaderSafe, EarlyPinProtects, OnDisk
  <2>4. BoundImmutable'
    <3>1. ASSUME NEW r \in Readers, rpc[r] = "open"
          PROVE  gens'[rgen[r]] \in {Absent, gens[rgen[r]]}
      <4>1. rgen[r] \in Gen
        BY <3>1 DEF TypeInv, TypeOK, ReaderTypeOK, ReaderTyped
      <4>2. QED
        BY <1>2, <2>1, <4>1
    <3>2. QED
      BY <1>1, <3>1 DEF ReaderSafe, BoundImmutable
  <2>5. QED
    BY <1>3, <2>3, <2>4 DEF ReaderSafe
<1>6. QED
  BY <1>4, <1>5, CollectorEffect

LEMMA ReadersByReader ==
  ASSUME TypeInv, ReaderSafe, NEW r \in Readers, ReaderNext(r)
  PROVE  ReaderSafe'
<1>a. ReaderTypeOK
  BY DEF TypeInv, TypeOK
<1>b. UNCHANGED <<head, gens, cpc, cplan>>
  BY ReaderFrame DEF collVars
<1> DEFINE Safe(q) ==
         /\ ReaderOk(q)
         /\ (rpc[q] = "open" /\ rmode[q] = "head") =>
               /\ rgen[q] <= head
               /\ gens[rgen[q]] \in {Absent, rsnap[q]}
         /\ (rpc[q] = "open" /\ ~rlate[q]) => rgen[q] \in OnDisk
<1>c. \A q \in Readers : Safe(q)
  BY DEF ReaderSafe, ReaderInv, BoundImmutable, EarlyPinProtects
<1>1. ASSUME NEW q \in Readers, q # r
      PROVE  Safe(q)'
  <2>1. /\ rpc'[q] = rpc[q] /\ rmode'[q] = rmode[q] /\ rgen'[q] = rgen[q]
        /\ rsnap'[q] = rsnap[q] /\ rlate'[q] = rlate[q]
    BY <1>1, <1>a DEF ReaderTypeOK, ReaderNext, ReaderStep, OpenHead,
         OpenGeneration, Pin, LoadGeneration, LoadMissing, RetryOpen,
         OpenFails, Close, CrashReader, ReaderReset
  <2>2. QED
    BY <1>b, <1>c, <2>1 DEF ReaderOk, OnDisk
<1>2. Safe(r)'
  <2>a. Safe(r) /\ (rpc[r] \in {"pin", "load", "open"} => rgen[r] \in Gen)
        /\ head \in Gen \cup {NoGen}
    BY <1>a, <1>c DEF TypeInv, TypeOK, DirTypeOK, ReaderTypeOK, ReaderTyped
  <2> USE <1>a, <1>b, <2>a, MaxGenNat
      DEF ReaderTypeOK, ReaderOk, ReaderPinned, ReaderReset, OnDisk, Gen, NoGen
  <2>1. CASE OpenHead(r)
    BY <2>1 DEF OpenHead
  <2>2. CASE OpenGeneration(r)
    BY <2>2 DEF OpenGeneration
  <2>3. CASE Pin(r)
    BY <2>3 DEF Pin
  <2>4. CASE LoadGeneration(r)
    BY <2>4 DEF LoadGeneration
  <2>5. CASE LoadMissing(r)
    BY <2>5 DEF LoadMissing
  <2>6. CASE RetryOpen(r)
    BY <2>6 DEF RetryOpen
  <2>7. CASE OpenFails(r)
    BY <2>7 DEF OpenFails
  <2>8. CASE Close(r)
    BY <2>8 DEF Close
  <2>9. CASE CrashReader(r)
    BY <2>9 DEF CrashReader
  <2>10. QED
    BY <2>1, <2>2, <2>3, <2>4, <2>5, <2>6, <2>7, <2>8, <2>9 DEF ReaderNext, ReaderStep
<1>3. \A q \in Readers : Safe(q)'
  BY <1>1, <1>2
<1>4. QED
  BY <1>3 DEF ReaderSafe, ReaderInv, BoundImmutable, EarlyPinProtects

-----------------------------------------------------------------------------
(* The invariant and what follows from it.                                   *)

LEMMA OthersByReader ==
  ASSUME Inv, NEW r \in Readers, ReaderNext(r)
  PROVE  LockInv' /\ WriterInv' /\ CollectorInv' /\ DirInv' /\ StagingKept'
<1>1. UNCHANGED <<head, gens, headTmp, tmps, reclaimed, manifest, lock,
                  wpc, wbase, wsrc, wout, cpc, cplan, csweep, cremoved>>
  BY ReaderFrame DEF writerVars, collVars
<1>2. LockInv' /\ StagingKept'
  BY <1>1 DEF Inv, LockInv, StagingKept
<1>3. WriterInv'
  BY <1>1 DEF Inv, WriterInv, WriterOk, Current
<1>4. CollectorInv'
  BY <1>1 DEF Inv, CollectorInv, CollectorOk, OnDisk
<1>5. DirInv'
  BY <1>1 DEF Inv, DirInv, HeadComplete, NoUnrecordedGap, OneArtifact,
              ManifestTruthful, OnDisk
<1>6. QED
  BY <1>2, <1>3, <1>4, <1>5

LEMMA InvStep == Inv /\ [Next]_vars => Inv'
<1> SUFFICES ASSUME Inv, [Next]_vars PROVE Inv'
  OBVIOUS
<1>a. TypeInv /\ LockInv /\ WriterInv /\ CollectorInv /\ DirInv
      /\ ReaderSafe /\ StagingKept
  BY DEF Inv, ReaderSafe
<1>b. TypeInv'
  BY <1>a, TypeStep
<1>1. ASSUME NEW w \in Writers, WriterNext(w) PROVE Inv'
  <2>1. LockInv' /\ WriterInv' /\ CollectorInv' /\ DirInv'
    BY <1>a, <1>1, LockWriter, WritersByWriter, CollectorsByWriter, DirWriter
  <2>2. ReaderSafe' /\ StagingKept'
    BY <1>a, <1>1, ReadersByWriter, StagingByWriter
  <2>3. QED
    BY <1>b, <2>1, <2>2 DEF Inv, ReaderSafe
<1>2. ASSUME NEW c \in Collectors, CollectorNext(c) PROVE Inv'
  <2>1. LockInv' /\ WriterInv' /\ CollectorInv' /\ DirInv'
    BY <1>a, <1>2, LockCollector, WritersByCollector, CollectorsByCollector,
       DirCollector
  <2>2. ReaderSafe' /\ StagingKept'
    BY <1>a, <1>2, ReadersByCollector, StagingByCollector
  <2>3. QED
    BY <1>b, <2>1, <2>2 DEF Inv, ReaderSafe
<1>3. ASSUME NEW r \in Readers, ReaderNext(r) PROVE Inv'
  <2>1. ReaderSafe'
    BY <1>a, <1>3, ReadersByReader
  <2>2. QED
    BY <1>b, <1>3, <2>1, OthersByReader DEF Inv, ReaderSafe
<1>4. CASE UNCHANGED vars
  <2>1. UNCHANGED <<head, gens, headTmp, tmps, reclaimed, manifest, lock,
                    wpc, wbase, wsrc, wout, cpc, cplan, csweep, cremoved,
                    rpc, rmode, rgen, rsnap, rlate>>
    BY <1>4 DEF vars, dirVars, writerVars, readerVars, collVars
  <2>2. LockInv' /\ StagingKept'
    BY <1>a, <2>1 DEF LockInv, StagingKept
  <2>3. WriterInv'
    BY <1>a, <2>1 DEF WriterInv, WriterOk, Current
  <2>4. CollectorInv'
    BY <1>a, <2>1 DEF CollectorInv, CollectorOk, OnDisk
  <2>5. DirInv'
    BY <1>a, <2>1 DEF DirInv, HeadComplete, NoUnrecordedGap, OneArtifact,
                      ManifestTruthful, OnDisk
  <2>6. ReaderSafe'
    BY <1>a, <2>1 DEF ReaderSafe, ReaderInv, ReaderOk, BoundImmutable,
                      EarlyPinProtects, OnDisk
  <2>7. QED
    BY <1>b, <2>2, <2>3, <2>4, <2>5, <2>6 DEF Inv, ReaderSafe
<1>5. QED
  BY <1>1, <1>2, <1>3, <1>4 DEF Next

LEMMA InvAlways == Spec => []Inv
  BY InvInit, InvStep, PTL DEF Spec

\* HEAD never dangles: whatever publishers, collectors and faults do, the
\* generation HEAD names is on disk (`publish`, `reclaim`, `compact`).
THEOREM HeadNeverDangles == Spec => []HeadComplete
<1>1. Inv => HeadComplete
  BY DEF Inv, DirInv
<1>2. QED
  BY <1>1, InvAlways, PTL

\* The record-first discipline of `reclaim` and `compact` leaves no gap below
\* HEAD that the journal does not explain, at any crash point.
THEOREM GapsAreRecorded == Spec => []NoUnrecordedGap
<1>1. Inv => NoUnrecordedGap
  BY DEF Inv, DirInv
<1>2. QED
  BY <1>1, InvAlways, PTL

\* However many publishers die between their two renames, `check` finds at most
\* one generation newer than HEAD, and that one is HEAD's successor.
THEOREM OneArtifactAtMost == Spec => []OneArtifact
<1>1. Inv => OneArtifact
  BY DEF Inv, DirInv
<1>2. QED
  BY <1>1, InvAlways, PTL

\* `compact` never takes the staging file of a live `publish` away.
THEOREM LiveStagingKept == Spec => []StagingKept
<1>1. Inv => StagingKept
  BY DEF Inv
<1>2. QED
  BY <1>1, InvAlways, PTL

\* The read-back of `_verify_head` cannot fail through anything another process
\* of this program does.
THEOREM CommitsVerify == Spec => []Verified
<1>1. Inv => Verified
  BY DEF Inv, WriterInv, WriterOk, Verified
<1>2. QED
  BY <1>1, InvAlways, PTL

\* The compaction manifest names only generations that are gone and recorded.
THEOREM ManifestIsTruthful == Spec => []ManifestTruthful
<1>1. Inv => ManifestTruthful
  BY DEF Inv, DirInv
<1>2. QED
  BY <1>1, InvAlways, PTL

\* A handle `open` bound at HEAD reads the same content until it is closed: the
\* file may go away but is never rewritten.
THEOREM HandlesImmutable == Spec => []BoundImmutable
<1>1. Inv => BoundImmutable
  BY DEF Inv
<1>2. QED
  BY <1>1, InvAlways, PTL

\* The pin protocol of `open` and `list_pins` protects a generation whose pin
\* was written before a collector listed the pins.
THEOREM EarlyPinsProtect == Spec => []EarlyPinProtects
<1>1. Inv => EarlyPinProtects
  BY DEF Inv
<1>2. QED
  BY <1>1, InvAlways, PTL

-----------------------------------------------------------------------------
(* The loops of open and prune.                                              *)

\* What an open bound by HEAD has counted so far, HEAD has moved on.
RetryOk(r) ==
    /\ rpc[r] = "idle" => rtries[r] = 0
    /\ (rpc[r] \in {"pin", "load"} /\ rmode[r] = "head") => rgen[r] >= rfirst[r] + rtries[r]
    /\ rpc[r] = "retry" => rmode[r] = "head" /\ head >= rfirst[r] + rtries[r]

LEMMA RetryByReader ==
  ASSUME Inv, \A q \in Readers : RetryOk(q), NEW r \in Readers, ReaderNext(r),
         NEW q \in Readers
  PROVE  RetryOk(q)'
<1>a. ReaderTypeOK /\ UNCHANGED <<head, gens>>
  BY ReaderFrame DEF Inv, TypeInv, TypeOK
<1>1. CASE q # r
  <2>1. /\ rpc'[q] = rpc[q] /\ rmode'[q] = rmode[q] /\ rgen'[q] = rgen[q]
        /\ rtries'[q] = rtries[q] /\ rfirst'[q] = rfirst[q]
    BY <1>1, <1>a DEF ReaderTypeOK, ReaderNext, ReaderStep, OpenHead,
         OpenGeneration, Pin, LoadGeneration, LoadMissing, RetryOpen,
         OpenFails, Close, CrashReader, ReaderReset
  <2>2. QED
    BY <1>a, <2>1 DEF RetryOk
<1>2. CASE q = r
  <2>a. /\ RetryOk(r)
        /\ rpc[r] \in {"pin", "load"} => rgen[r] \in Gen
        /\ head \in Gen \cup {NoGen} /\ HeadComplete
        /\ (rpc[r] \in {"pin", "load"} /\ rmode[r] = "head") => rgen[r] <= head
        /\ rtries[r] \in Nat /\ rfirst[r] \in Int
    BY <1>a, MaxGenNat, RetriesPositive
       DEF Inv, TypeInv, TypeOK, DirTypeOK, DirInv, ReaderInv, ReaderOk, ReaderTypeOK, ReaderTyped,
           Gen, NoGen
  <2> USE <1>a, <2>a, <1>2, MaxGenNat DEF ReaderTypeOK, RetryOk, ReaderReset, Gen, NoGen
  <2>1. CASE OpenHead(r)
    BY <2>1 DEF OpenHead
  <2>2. CASE OpenGeneration(r)
    BY <2>2 DEF OpenGeneration
  <2>3. CASE Pin(r)
    BY <2>3 DEF Pin
  <2>4. CASE LoadGeneration(r)
    BY <2>4 DEF LoadGeneration
  <2>5. CASE LoadMissing(r)
    <3>1. rgen[r] # head
      BY <2>5 DEF LoadMissing, HeadComplete
    <3>2. head >= rfirst[r] + (rtries[r] + 1)
      BY <2>5, <3>1 DEF LoadMissing
    <3>3. rpc'[r] = "retry" /\ rmode'[r] = "head" /\ rtries'[r] = rtries[r] + 1 /\ rfirst'[r] = rfirst[r]
      BY <2>5 DEF LoadMissing
    <3>4. QED
      BY <3>2, <3>3
  <2>6. CASE RetryOpen(r)
    BY <2>6 DEF RetryOpen
  <2>7. CASE OpenFails(r)
    BY <2>7 DEF OpenFails
  <2>8. CASE Close(r)
    BY <2>8 DEF Close
  <2>9. CASE CrashReader(r)
    BY <2>9 DEF CrashReader
  <2>10. QED
    BY <2>1, <2>2, <2>3, <2>4, <2>5, <2>6, <2>7, <2>8, <2>9 DEF ReaderNext, ReaderStep
<1>3. QED
  BY <1>1, <1>2

LEMMA RetryStep ==
  ASSUME Inv, \A r \in Readers : RetryOk(r), [Next]_vars
  PROVE  \A r \in Readers : RetryOk(r)'
<1>1. ASSUME NEW r \in Readers, ReaderNext(r), NEW q \in Readers
      PROVE  RetryOk(q)'
  BY <1>1, RetryByReader
<1>2. CASE UNCHANGED readerVars /\ head' \in {head, head + 1}
  <2>1. UNCHANGED <<rpc, rmode, rgen, rtries, rfirst>>
    BY <1>2 DEF readerVars
  <2>2. head \in Int /\ \A r \in Readers : rtries[r] \in Nat /\ rfirst[r] \in Int
    BY MaxGenNat, RetriesPositive
       DEF Inv, TypeInv, TypeOK, DirTypeOK, ReaderTypeOK, Gen, NoGen
  <2>3. QED
    BY <1>2, <2>1, <2>2 DEF RetryOk
<1>3. ASSUME NEW w \in Writers, WriterNext(w)
      PROVE  UNCHANGED readerVars /\ head' \in {head, head + 1}
  <2>1. UNCHANGED readerVars
    BY <1>3, WriterFrame
  <2>2. head' \in {head, head + 1}
    BY <1>3, WriterEffect DEF Inv, NothingMoves, SuccessorPlaced, SuccessorCommitted
  <2>3. QED
    BY <2>1, <2>2
<1>4. ASSUME NEW c \in Collectors, CollectorNext(c)
      PROVE  UNCHANGED readerVars /\ head' \in {head, head + 1}
  BY <1>4, CollectorFrame
<1>5. CASE UNCHANGED vars
  BY <1>2, <1>5 DEF vars, dirVars
<1>6. QED
  BY <1>1, <1>2, <1>3, <1>4, <1>5 DEF Next

\* Each retry of `open` at HEAD is paid for by a publication: the generation it
\* binds has moved on at least once per retry.
THEOREM RetriesAreForward == Spec => []RetriesFollowHead
<1> DEFINE RetryInv == \A r \in Readers : RetryOk(r)
<1>1. Init => RetryInv
  BY DEF Init, RetryOk
<1>2. Inv /\ RetryInv /\ [Next]_vars => RetryInv'
  BY RetryStep
<1>3. RetryInv => RetriesFollowHead
  BY DEF RetryOk, RetriesFollowHead
<1>4. QED
  BY <1>1, <1>2, <1>3, InvAlways, PTL DEF Spec

\* What a prune has still to delete is all that is below HEAD and not pinned.
PruneOk(c) ==
    (cpc[c] \in {"next", "journal", "unlink"} /\ cjob[c].kind = "prune") =>
        \A g \in OnDisk : g < head => g \in cpinned[c] \cup cplan[c]

LEMMA PruneByCollector ==
  ASSUME Inv, \A d \in Collectors : PruneOk(d), NEW c \in Collectors, CollectorNext(c),
         NEW d \in Collectors
  PROVE  PruneOk(d)'
<1>a. CollectorTypeOK /\ head' = head /\ gens \in [Gen -> Seq(Writers)]
  BY CollectorFrame DEF Inv, TypeInv, TypeOK, DirTypeOK
<1>b. OnDisk' \subseteq OnDisk
  <2>1. gens' = gens \/ \E g \in cplan[c] : gens' = [gens EXCEPT ![g] = Absent]
    BY CollectorFrame
  <2>2. QED
    BY <1>a, <2>1 DEF OnDisk
<1>1. CASE d # c
  <2>1. /\ cpc'[d] = cpc[d] /\ cplan'[d] = cplan[d]
        /\ cjob'[d] = cjob[d] /\ cpinned'[d] = cpinned[d]
    BY <1>1, <1>a DEF CollectorTypeOK, CollectorNext, CollectorStep,
         LockForCollect, ReportOnly, ReapStalePins, PlanVictims,
         StageJournal, RecordVictim, UnlinkVictim, CollectFails, SweepFails, VictimsDone,
         SweepStaging, StageManifest, RenameManifest, UnlockCollect,
         CrashCollector, CollectorReset
  <2>2. QED
    BY <1>a, <1>b, <2>1 DEF PruneOk
<1>2. CASE d = c
  <2>a. PruneOk(c)
    OBVIOUS
  <2>1. CASE cpc'[c] \notin {"next", "journal", "unlink"}
    BY <1>2, <2>1 DEF PruneOk
  <2>2. CASE PlanVictims(c)
    <3>1. PICK fooled \in SUBSET stalePins :
             /\ cpinned' = [cpinned EXCEPT ![c] = LivePins \cup fooled]
             /\ cplan' = [cplan EXCEPT ![c] = Victims(cjob[c], LivePins \cup fooled)]
      BY <2>2 DEF PlanVictims
    <3>2. UNCHANGED <<gens, head, cjob>>
      BY <2>2 DEF PlanVictims, dirVars
    <3>3. /\ cpinned'[c] = LivePins \cup fooled
          /\ cplan'[c] = Victims(cjob[c], LivePins \cup fooled)
      BY <1>a, <3>1 DEF CollectorTypeOK
    <3>4. ASSUME cjob[c].kind = "prune", NEW g \in OnDisk, g < head
          PROVE  g \in cpinned'[c] \cup cplan'[c]
      BY <3>3, <3>4 DEF Victims
    <3>5. OnDisk' = OnDisk
      BY <3>2 DEF OnDisk
    <3>6. QED
      BY <1>2, <3>2, <3>4, <3>5 DEF PruneOk
  <2>3. CASE StageJournal(c) \/ RecordVictim(c)
    <3>1. /\ cpc[c] \in {"next", "journal"}
          /\ UNCHANGED <<gens, head, cjob, cpinned, cplan>>
      BY <2>3 DEF StageJournal, RecordVictim
    <3>2. QED
      BY <1>2, <2>a, <3>1 DEF PruneOk, OnDisk
  <2>4. CASE UnlinkVictim(c)
    <3>1. PICK g \in Smallest(cplan[c]) :
             /\ gens' = [gens EXCEPT ![g] = Absent]
             /\ cplan' = [cplan EXCEPT ![c] = @ \ {g}]
      BY <2>4 DEF UnlinkVictim
    <3>2. g \in Gen
      BY <1>a, <3>1 DEF Smallest, CollectorTypeOK
    <3>3. OnDisk' = OnDisk \ {g} /\ cplan'[c] = cplan[c] \ {g}
      BY <1>a, <3>1, <3>2 DEF OnDisk, CollectorTypeOK
    <3>4. cpc[c] = "unlink" /\ UNCHANGED <<cjob, cpinned>>
      BY <2>4 DEF UnlinkVictim
    <3>5. QED
      BY <1>2, <1>a, <2>a, <3>3, <3>4 DEF PruneOk
  <2>5. QED
    BY <1>a, <2>1, <2>2, <2>3, <2>4 DEF CollectorTypeOK, CollectorNext, CollectorStep,
       LockForCollect, ReportOnly, ReapStalePins, VictimsDone, SweepStaging, StageManifest,
       RenameManifest, UnlockCollect, SweepFails, CollectFails, CrashCollector, CollectorReset
<1>3. QED
  BY <1>1, <1>2

LEMMA PruneStep ==
  ASSUME Inv, \A c \in Collectors : PruneOk(c), [Next]_vars
  PROVE  \A c \in Collectors : PruneOk(c)'
<1>1. ASSUME NEW c \in Collectors, CollectorNext(c), NEW d \in Collectors
      PROVE  PruneOk(d)'
  BY <1>1, PruneByCollector
<1>2. ASSUME NEW w \in Writers, WriterNext(w), NEW c \in Collectors
      PROVE  PruneOk(c)'
  <2>1. UNCHANGED <<cpc, cjob, cpinned, cplan>>
    BY <1>2, WriterFrame DEF collVars
  <2>2. CASE cpc[c] \in {"next", "journal", "unlink"}
    <3>1. lock = c
      BY <2>2 DEF Inv, LockInv, CollectorLocked, CollectorPlanned, CollectorDeleting
    <3>2. lock # w
      BY <3>1, RolesDisjoint
    <3>3. UNCHANGED <<head, gens>>
      BY <1>2, <3>2, WriterEffect DEF Inv, NothingMoves, SuccessorPlaced, SuccessorCommitted
    <3>4. QED
      BY <2>1, <3>3 DEF PruneOk, OnDisk
  <2>3. CASE cpc[c] \notin {"next", "journal", "unlink"}
    BY <2>1, <2>3 DEF PruneOk
  <2>4. QED
    BY <2>2, <2>3
<1>3. CASE UNCHANGED <<head, gens, collVars>>
  BY <1>3 DEF PruneOk, OnDisk, collVars
<1>4. ASSUME NEW r \in Readers, ReaderNext(r)
      PROVE  UNCHANGED <<head, gens, collVars>>
  BY <1>4, ReaderFrame
<1>5. CASE UNCHANGED vars
  BY <1>3, <1>5 DEF vars, dirVars
<1>6. QED
  BY <1>1, <1>2, <1>3, <1>4, <1>5 DEF Next

\* A prune deletes everything below HEAD that nothing pins, however the runs
\* before it ended.
THEOREM PruneFinishes == Spec => []PruneConverges
<1> DEFINE PruneInv == \A c \in Collectors : PruneOk(c)
<1>1. Init => PruneInv
  BY DEF Init, PruneOk
<1>2. Inv /\ PruneInv /\ [Next]_vars => PruneInv'
  BY PruneStep
<1>3. PruneInv => PruneConverges
  BY DEF PruneOk, PruneConverges
<1>4. QED
  BY <1>1, <1>2, <1>3, InvAlways, PTL DEF Spec

-----------------------------------------------------------------------------
(* Store implements GenStore.                                                *)

LEMMA WriterImplements ==
  ASSUME Inv, NEW w \in Writers, WriterNext(w)
  PROVE  Abstract!Publish(w) \/ UNCHANGED <<head, Committed>>
<1>a. /\ head \in Gen \cup {NoGen} /\ gens \in [Gen -> Seq(Writers)]
      /\ wout[w] \in Seq(Writers)
  BY DEF Inv, TypeInv, TypeOK, DirTypeOK, WriterTypeOK
<1>1. CASE NothingMoves
  BY <1>1 DEF NothingMoves, Committed
<1>2. CASE SuccessorPlaced(w)
  <2>1. \A g \in Gen : g <= head => gens'[g] = gens[g]
    BY <1>a, <1>2, MaxGenNat DEF SuccessorPlaced, Gen, NoGen
  <2>2. head' = head
    BY <1>2 DEF SuccessorPlaced
  <2>3. QED
    BY <2>1, <2>2 DEF Committed
<1>3. CASE SuccessorCommitted(w)
  <2>1. /\ head + 1 \in Gen /\ head' = head + 1 /\ gens' = gens
        /\ gens[head + 1] = wout[w] /\ Current(w)
    BY <1>3 DEF SuccessorCommitted
  <2>2. head < MaxGen
    BY <1>a, <2>1, MaxGenNat DEF Gen, NoGen
  <2>3. head # NoGen => Committed[head] = gens[head]
    BY <1>a, MaxGenNat DEF Committed, Gen, NoGen
  <2>4. wout[w] \in Abstract!Candidates(w)
    BY <2>1, <2>3 DEF Current, Abstract!Candidates, NoGen, Abstract!NoGen
  <2>5. Committed' = [Committed EXCEPT ![head + 1] = wout[w]]
    <3>1. \A g \in Gen : g <= head + 1 <=> g <= head \/ g = head + 1
      BY <1>a, MaxGenNat DEF Gen, NoGen
    <3>2. ~(head + 1 <= head)
      BY <1>a, MaxGenNat DEF Gen, NoGen
    <3>3. Committed' = [g \in Gen |-> IF g <= head + 1 THEN gens[g] ELSE Absent]
      BY <2>1 DEF Committed
    <3>4. QED
      BY <2>1, <3>1, <3>2, <3>3 DEF Committed
  <2>6. QED
    BY <2>1, <2>2, <2>4, <2>5 DEF Abstract!Publish
<1>4. QED
  BY <1>1, <1>2, <1>3, WriterEffect DEF Inv

LEMMA CollectorImplements ==
  ASSUME Inv, NEW c \in Collectors, CollectorNext(c)
  PROVE  \/ \E g \in Gen : Abstract!Reclaim(g)
         \/ UNCHANGED <<head, Committed>>
<1>a. /\ head \in Gen \cup {NoGen} /\ gens \in [Gen -> Seq(Writers)]
      /\ cplan[c] \subseteq Gen
  BY DEF Inv, TypeInv, TypeOK, DirTypeOK, CollectorTypeOK
<1>1. CASE NothingMoves
  BY <1>1 DEF NothingMoves, Committed
<1>2. CASE VictimRemoved(c)
  <2>1. PICK g \in Smallest(cplan[c]) :
           g < head /\ gens' = [gens EXCEPT ![g] = Absent]
    BY <1>2 DEF VictimRemoved
  <2>2. g \in Gen /\ head' = head
    BY <1>a, <1>2, <2>1 DEF VictimRemoved, Smallest
  <2>3. Committed' = [Committed EXCEPT ![g] = Absent]
    BY <1>a, <2>1, <2>2, MaxGenNat DEF Committed, Gen, NoGen
  <2>4. CASE Committed[g] = Absent
    BY <2>2, <2>3, <2>4 DEF Committed
  <2>5. CASE Committed[g] # Absent
    BY <2>1, <2>2, <2>3, <2>5
       DEF Abstract!Reclaim, Absent, Abstract!Absent
  <2>6. QED
    BY <2>4, <2>5
<1>3. QED
  BY <1>1, <1>2, CollectorEffect DEF Inv

\* Seen through HEAD, the store is GenStore: generations are published one at a
\* time on the current HEAD, never altered, and reclaimed only below HEAD.
THEOREM StoreImplements == Spec => Implements
<1>1. Init => Abstract!Init
  BY MaxGenNat DEF Init, Abstract!Init, Committed, Gen, NoGen, Absent,
                   Abstract!Gen, Abstract!NoGen, Abstract!Absent
<1>2. Inv /\ [Next]_vars => [Abstract!Next]_(Abstract!vars)
  <2> SUFFICES ASSUME Inv, [Next]_vars
               PROVE  Abstract!Next \/ UNCHANGED <<head, Committed>>
    BY DEF Abstract!vars
  <2>1. ASSUME NEW w \in Writers, WriterNext(w)
        PROVE  Abstract!Next \/ UNCHANGED <<head, Committed>>
    BY <2>1, WriterImplements DEF Abstract!Next
  <2>2. ASSUME NEW c \in Collectors, CollectorNext(c)
        PROVE  Abstract!Next \/ UNCHANGED <<head, Committed>>
    BY <2>2, CollectorImplements DEF Abstract!Next, Abstract!Gen, Gen
  <2>3. ASSUME NEW r \in Readers, ReaderNext(r)
        PROVE  UNCHANGED <<head, Committed>>
    BY <2>3, ReaderFrame DEF Committed
  <2>4. CASE UNCHANGED vars
    BY <2>4 DEF vars, dirVars, Committed
  <2>5. QED
    BY <2>1, <2>2, <2>3, <2>4 DEF Next
<1>3. QED
  BY <1>1, <1>2, InvAlways, PTL DEF Spec, Implements, Abstract!Spec
=============================================================================

------------------------ MODULE ConcurrentReadProofs ------------------------
(***************************************************************************)
(* The drain protocol of discovery, for any number of readers and files    *)
(* and any size of the queue: the count of unfinished tasks is exact, a    *)
(* snapshot that is returned is complete, an error that is raised is the   *)
(* cause of the failure, and no reader outlives the call.                  *)
(***************************************************************************)
EXTENDS ConcurrentRead, FiniteSetTheorems, SequenceTheorems, TLAPS

\* The call is past the point where it could still feed a file.
Fed    == {"fed", "wake", "join", "leave", "threads", "returned"}
Past   == {"threads", "returned", "raised"}
Before == {"start", "feed", "put", "failing", "fed"}

Holders == {r \in Readers : rpc[r] \in Holding}

InQueue(x) == \E i \in 1 .. Len(queue) : queue[i] = x
InHand(x)  == \E r \in Readers :
                 /\ ritem[r] = x
                 /\ rpc[r] \in {"item", "begin", "reading", "read", "fail"}

\* An error is recorded or about to be.
Failing == error # "none" \/ \E r \in Readers : rpc[r] = "fail"

Types == TypeOK

\* What a reader has in hand is a file unless it is a sentinel it gives back.
HandInv ==
    \A r \in Readers :
        /\ rpc[r] \in {"begin", "reading", "read", "fail", "stopping"}
              => ritem[r] \in Files
        /\ rpc[r] = "read" => rdata[r] # NotRead
        /\ rpc[r] = "fail" => rerr[r] # "none"
        /\ rpc[r] = "stopping" => error # "none"
        /\ (rpc[r] = "fail" /\ rerr[r] = "cancelled")
              => cancel \/ error # "none"

\* Whoever sets stop has a reason that is or will be recorded.
StopInv ==
    /\ (stop /\ mpc \notin Past) => Failing
    /\ (stop /\ mpc \notin Past /\ error = "none") => cancel
    /\ mpc = "failing" => error # "none"
    /\ mpc = "returned" => error = "none"
    /\ CauseReported

\* No file that was fed gets lost without an error.
FileInv ==
    /\ \A f \in 1 .. fed :
          InQueue(f) \/ InHand(f) \/ results[f] # NotRead \/ Failing
    /\ mpc \in Fed => fed = NumFiles \/ Failing

\* Sentinels come last, and readers leave only after them or after a mark.
PhaseInv ==
    /\ mpc = "start" => /\ queue = << >>
                        /\ \A r \in Readers : rpc[r] = "exit"
    /\ mpc \in Before => /\ ~feederDone
                         /\ ~InQueue(Sentinel)
                         /\ \A r \in Readers :
                               rpc[r] \in Holding => ritem[r] \in Files
    /\ mpc = "put" => fed < NumFiles
    /\ mpc \in {"leave", "threads", "returned", "raised"} => unfinished = 0
    /\ ReadersJoined

Inv == Types /\ DrainAccounts /\ HandInv /\ StopInv /\ FileInv /\ PhaseInv

-----------------------------------------------------------------------------
LEMMA Enqueued ==
  ASSUME Types, NEW x \in Files \cup {Sentinel}, Enqueue(x)
  PROVE  /\ queue' \in Seq(Files \cup {Sentinel})
         /\ Len(queue') = Len(queue) + 1 /\ Len(queue') <= QueueSize
         /\ unfinished' = unfinished + 1
         /\ \A y : InQueue(y)' <=> (InQueue(y) \/ y = x)
<1> USE DEF Types, TypeOK, Enqueue
<1>1. /\ queue' \in Seq(Files \cup {Sentinel})
      /\ Len(queue') = Len(queue) + 1
      /\ \A i \in 1 .. Len(queue) : queue'[i] = queue[i]
      /\ queue'[Len(queue) + 1] = x
  BY AppendProperties
<1>2. Len(queue) \in Nat /\ Len(queue') <= QueueSize
  BY <1>1, QueueSizePositive, LenProperties
<1>3. \A y : InQueue(y)' <=> (InQueue(y) \/ y = x)
  BY <1>1, <1>2 DEF InQueue
<1>4. QED
  BY <1>1, <1>2, <1>3

LEMMA Dequeued ==
  ASSUME Types, queue # << >>, queue' = Tail(queue)
  PROVE  /\ queue' \in Seq(Files \cup {Sentinel})
         /\ Len(queue') = Len(queue) - 1 /\ Len(queue') <= QueueSize
         /\ Head(queue) \in Files \cup {Sentinel} /\ InQueue(Head(queue))
         /\ \A y : InQueue(y) => y = Head(queue) \/ InQueue(y)'
         /\ \A y : InQueue(y)' => InQueue(y)
<1> USE DEF Types, TypeOK
<1>1. /\ queue' \in Seq(Files \cup {Sentinel})
      /\ Len(queue') = Len(queue) - 1
      /\ \A i \in 1 .. Len(queue') : queue'[i] = queue[i + 1]
      /\ Head(queue) = queue[1] /\ Head(queue) \in Files \cup {Sentinel}
  BY HeadTailProperties
<1>2. Len(queue) \in Nat \ {0}
  BY EmptySeq, LenProperties
<1>3. InQueue(Head(queue))
  BY <1>1, <1>2 DEF InQueue
<1>4. ASSUME NEW y, InQueue(y)
      PROVE  y = Head(queue) \/ InQueue(y)'
  <2>1. PICK i \in 1 .. Len(queue) : queue[i] = y
    BY <1>4 DEF InQueue
  <2>2. CASE i = 1
    BY <1>1, <2>1, <2>2
  <2>3. CASE i # 1
    <3>1. i - 1 \in 1 .. Len(queue') /\ (i - 1) + 1 = i
      BY <1>1, <1>2, <2>3
    <3>2. queue'[i - 1] = y
      BY <1>1, <2>1, <3>1
    <3>3. QED
      BY <3>1, <3>2 DEF InQueue
  <2>4. QED
    BY <2>2, <2>3
<1>5. ASSUME NEW y, InQueue(y)'
      PROVE  InQueue(y)
  <2>1. PICK i \in 1 .. Len(queue') : queue'[i] = y
    BY <1>5 DEF InQueue
  <2>2. i + 1 \in 1 .. Len(queue) /\ queue[i + 1] = y
    BY <1>1, <1>2, <2>1
  <2>3. QED
    BY <2>2 DEF InQueue
<1>6. Len(queue') <= QueueSize
  BY <1>1, <1>2, QueueSizePositive
<1>7. QED
  BY <1>1, <1>3, <1>4, <1>5, <1>6

LEMMA HoldersFinite == IsFiniteSet(Holders) /\ Cardinality(Holders) \in Nat
<1>1. Holders \subseteq Readers
  BY DEF Holders
<1>2. QED
  BY <1>1, ReadersFinite, FS_Subset, FS_CardinalityType

\* Nothing unfinished: nothing is queued and no reader has anything in hand.
LEMMA NothingLeft ==
  ASSUME Types, DrainAccounts, unfinished = 0
  PROVE  queue = << >> /\ \A r \in Readers : rpc[r] \notin Holding
<1>1. unfinished = Len(queue) + Cardinality(Holders)
  BY DEF DrainAccounts, Holders
<1>2. Len(queue) \in Nat /\ Cardinality(Holders) \in Nat
  BY HoldersFinite, LenProperties DEF Types, TypeOK
<1>3. Len(queue) = 0 /\ Cardinality(Holders) = 0
  BY <1>1, <1>2
<1>4. Holders = {}
  BY <1>3, HoldersFinite, FS_EmptySet
<1>5. queue = << >>
  BY <1>3, EmptySeq DEF Types, TypeOK
<1>6. QED
  BY <1>4, <1>5 DEF Holders

-----------------------------------------------------------------------------
(* The drain protocol.                                                     *)

LEMMA DrainStep ==
  ASSUME Types, DrainAccounts, PhaseInv, [Next]_vars
  PROVE  DrainAccounts' /\ unfinished' \in Nat
<1>a. /\ unfinished = Len(queue) + Cardinality(Holders)
      /\ Len(queue) \in Nat /\ Cardinality(Holders) \in Nat
      /\ IsFiniteSet(Holders) /\ unfinished \in Nat
  BY HoldersFinite, LenProperties DEF Types, TypeOK, DrainAccounts, Holders
<1>b. rpc \in [Readers -> {"get", "empty", "exit"} \cup Holding]
  BY DEF Types, TypeOK
<1>c. SUFFICES unfinished' = Len(queue') + Cardinality(Holders')
               /\ unfinished' \in Nat
  BY DEF DrainAccounts, Holders
<1>1. CASE UNCHANGED <<queue, unfinished>> /\ Holders' = Holders
  BY <1>1, <1>a
<1>2. CASE UNCHANGED vars \/ Cancel \/ \E f \in Files : Edit(f)
  <2>1. UNCHANGED <<queue, unfinished, rpc>>
    BY <1>2 DEF vars, sharedVars, readerVars, Cancel, Edit
  <2>2. QED
    BY <1>1, <2>1 DEF Holders
<1>3. CASE MainStep
  <2>1. CASE FeedPut \/ Wake
    <3>1. PICK x \in Files \cup {Sentinel} : Enqueue(x) /\ rpc' = rpc
      <4>1. CASE FeedPut
        <5>1. fed \in 0 .. NumFiles /\ (fed < NumFiles => fed + 1 \in Files)
          BY NumFilesPositive DEF Types, TypeOK, Files
        <5>2. fed < NumFiles
          BY <4>1, <5>1 DEF FeedPut, PhaseInv
        <5>3. QED
          BY <4>1, <5>1, <5>2 DEF FeedPut, readerVars
      <4>2. CASE Wake
        BY <4>2 DEF Wake, readerVars
      <4>3. QED
        BY <2>1, <4>1, <4>2
    <3>2. Holders' = Holders
      BY <3>1 DEF Holders
    <3>3. QED
      BY <1>a, <3>1, <3>2, Enqueued
  <2>2. CASE StartReaders
    <3>1. Holders' = Holders
      BY <2>2 DEF StartReaders, PhaseInv, Holders, Holding
    <3>2. QED
      BY <1>1, <2>2, <3>1 DEF StartReaders, sharedVars
  <2>3. CASE ~(FeedPut \/ Wake \/ StartReaders)
    <3>1. UNCHANGED <<queue, unfinished, rpc>>
      BY <1>3, <2>3 DEF MainStep, EnumerateFails, FeedCheck, FeedStops,
             FeedFull, FeedEnds, FeederDone, WakeEnds, JoinQueue, Leave,
             JoinThreads, sharedVars, readerVars
    <3>2. QED
      BY <1>1, <3>1 DEF Holders
  <2>4. QED
    BY <2>1, <2>2, <2>3
<1>4. ASSUME NEW r \in Readers, ReaderStep(r)
      PROVE  unfinished' = Len(queue') + Cardinality(Holders')
             /\ unfinished' \in Nat
  <2>1. CASE Get(r)
    <3>1. Holders' = Holders \cup {r} /\ r \notin Holders
      BY <2>1, <1>b DEF Get, Holders, Holding
    <3>2. Cardinality(Holders') = Cardinality(Holders) + 1
      BY <1>a, <3>1, FS_AddElement
    <3>3. QED
      BY <1>a, <2>1, <3>2, Dequeued DEF Get
  <2>2. CASE TaskDone(r)
    <3>1. Holders' = Holders \ {r} /\ r \in Holders
      BY <2>2, <1>b DEF TaskDone, Holders, Holding
    <3>2. Cardinality(Holders') = Cardinality(Holders) - 1
          /\ Cardinality(Holders') \in Nat
      BY <1>a, <3>1, FS_RemoveElement, FS_Subset, FS_CardinalityType
    <3>3. QED
      BY <1>a, <2>2, <3>2 DEF TaskDone
  <2>3. CASE ~(Get(r) \/ TaskDone(r))
    <3>1. UNCHANGED <<queue, unfinished>> /\ Holders' = Holders
      BY <1>4, <1>b, <2>3 DEF ReaderStep, GetTimesOut, LeaveOrWait, TakeItem,
             CheckCancel, BeginRead, ReadFile, ReadFails, StoreResult,
             RecordError, SetStop, Raise, sharedVars, Holders, Holding
    <3>2. QED
      BY <1>1, <3>1
  <2>4. QED
    BY <2>1, <2>2, <2>3
<1>5. QED
  BY <1>2, <1>3, <1>4 DEF Next

-----------------------------------------------------------------------------
(* The types.                                                              *)

LEMMA TypeStep ==
  ASSUME Types, HandInv, PhaseInv, unfinished' \in Nat, [Next]_vars
  PROVE  Types'
<1> USE NumFilesPositive, MaxEditsNat DEF Types, TypeOK, Errors
<1>a. Cardinality(Readers) \in Nat /\ Readers \subseteq Readers
  BY ReadersFinite, FS_CardinalityType
<1>1. CASE UNCHANGED vars
  BY <1>1 DEF vars, sharedVars, mainVars, readerVars
<1>2. CASE Cancel
  BY <1>2 DEF Cancel, sharedVars, mainVars, readerVars
<1>3. ASSUME NEW f \in Files, Edit(f) PROVE Types'
  <2>1. content' \in [Files -> 0 .. MaxEdits]
    BY <1>3 DEF Edit
  <2>2. QED
    BY <1>3, <2>1 DEF Edit, sharedVars, mainVars, readerVars
<1>4. CASE MainStep
  <2>1. CASE EnumerateFails
    BY <2>1 DEF EnumerateFails, sharedVars, readerVars, RecordFirst
  <2>2. CASE StartReaders
    BY <2>2 DEF StartReaders, sharedVars, readerVars, RecordFirst
  <2>3. CASE FeedCheck
    BY <2>3 DEF FeedCheck, sharedVars, readerVars, RecordFirst
  <2>4. CASE FeedStops
    BY <2>4 DEF FeedStops, sharedVars, readerVars, RecordFirst
  <2>5. CASE FeedPut
    <3>1. fed < NumFiles /\ fed + 1 \in 0 .. NumFiles /\ fed + 1 \in Files
      BY <2>5 DEF FeedPut, PhaseInv, Files
    <3>2. /\ queue' \in Seq(Files \cup {Sentinel})
          /\ Len(queue') <= QueueSize
      BY <2>5, <3>1, Enqueued DEF FeedPut
    <3>3. QED
      BY <2>5, <3>1, <3>2 DEF FeedPut, readerVars
  <2>6. CASE FeedFull
    BY <2>6 DEF FeedFull, sharedVars, readerVars, RecordFirst
  <2>7. CASE FeedEnds
    BY <2>7 DEF FeedEnds, sharedVars, readerVars, RecordFirst
  <2>8. CASE FeederDone
    BY <2>8 DEF FeederDone, sharedVars, readerVars, RecordFirst
  <2>9. CASE Wake
    <3>1. /\ queue' \in Seq(Files \cup {Sentinel})
          /\ Len(queue') <= QueueSize
      BY <2>9, Enqueued DEF Wake
    <3>2. woken' \in 0 .. Cardinality(Readers)
      BY <2>9, <1>a DEF Wake
    <3>3. QED
      BY <2>9, <3>1, <3>2 DEF Wake, readerVars
  <2>10. CASE WakeEnds
    BY <2>10 DEF WakeEnds, sharedVars, readerVars, RecordFirst
  <2>11. CASE JoinQueue
    BY <2>11 DEF JoinQueue, sharedVars, readerVars, RecordFirst
  <2>12. CASE Leave
    BY <2>12 DEF Leave, sharedVars, readerVars, RecordFirst
  <2>13. CASE JoinThreads
    BY <2>13 DEF JoinThreads, sharedVars, readerVars, RecordFirst
  <2>14. QED
    BY <1>4, <2>1, <2>2, <2>3, <2>4, <2>5, <2>6, <2>7, <2>8, <2>9, <2>10,
       <2>11, <2>12, <2>13 DEF MainStep
<1>5. ASSUME NEW r \in Readers, ReaderStep(r) PROVE Types'
  <2>1. CASE Get(r)
    <3>1. /\ queue' \in Seq(Files \cup {Sentinel})
          /\ Len(queue') <= QueueSize
          /\ Head(queue) \in Files \cup {Sentinel}
      BY <2>1, Dequeued DEF Get
    <3>2. QED
      BY <2>1, <3>1 DEF Get, mainVars, Holding
  <2>2. CASE GetTimesOut(r)
    BY <2>2 DEF GetTimesOut, sharedVars, mainVars, Raise, RecordFirst, Holding
  <2>3. CASE LeaveOrWait(r)
    BY <2>3 DEF LeaveOrWait, sharedVars, mainVars, Raise, RecordFirst, Holding
  <2>4. CASE TakeItem(r)
    BY <2>4 DEF TakeItem, sharedVars, mainVars, Raise, RecordFirst, Holding
  <2>5. CASE CheckCancel(r)
    BY <2>5 DEF CheckCancel, sharedVars, mainVars, Raise, RecordFirst, Holding
  <2>6. CASE BeginRead(r)
    BY <2>6 DEF BeginRead, sharedVars, mainVars, Raise, RecordFirst, Holding
  <2>7. CASE ReadFile(r)
    <3>1. content[ritem[r]] \in 0 .. MaxEdits
      BY <2>7 DEF ReadFile, HandInv
    <3>2. QED
      BY <2>7, <3>1 DEF ReadFile, sharedVars, mainVars, Holding
  <2>8. CASE ReadFails(r)
    BY <2>8 DEF ReadFails, sharedVars, mainVars, Raise, RecordFirst, Holding
  <2>9. CASE StoreResult(r)
    BY <2>9 DEF StoreResult, sharedVars, mainVars, Raise, RecordFirst, Holding
  <2>10. CASE RecordError(r)
    BY <2>10 DEF RecordError, sharedVars, mainVars, Raise, RecordFirst,
       Holding
  <2>11. CASE SetStop(r)
    BY <2>11 DEF SetStop, sharedVars, mainVars, Raise, RecordFirst, Holding
  <2>12. CASE TaskDone(r)
    BY <2>12 DEF TaskDone, sharedVars, mainVars, Raise, RecordFirst, Holding
  <2>13. QED
    BY <1>5, <2>1, <2>2, <2>3, <2>4, <2>5, <2>6, <2>7, <2>8, <2>9, <2>10,
       <2>11, <2>12 DEF ReaderStep
<1>6. QED
  BY <1>1, <1>2, <1>3, <1>4, <1>5 DEF Next

-----------------------------------------------------------------------------
(* What readers have in hand.                                              *)

LEMMA HandStep ==
  ASSUME Types, DrainAccounts, HandInv, StopInv, PhaseInv, [Next]_vars
  PROVE  HandInv'
<1>a. /\ rpc \in [Readers -> {"get", "empty", "exit"} \cup Holding]
      /\ ritem \in [Readers -> Files \cup {Sentinel}]
      /\ rdata \in [Readers -> (0 .. MaxEdits) \cup {NotRead}]
      /\ rerr \in [Readers -> Errors \cup {"none"}]
      /\ content \in [Files -> 0 .. MaxEdits]
  BY DEF Types, TypeOK
<1> USE <1>a DEF HandInv, Errors
<1>1. CASE UNCHANGED vars
  BY <1>1 DEF vars, sharedVars, mainVars, readerVars
<1>2. CASE Cancel
  BY <1>2 DEF Cancel, sharedVars, mainVars, readerVars
<1>3. ASSUME NEW f \in Files, Edit(f) PROVE HandInv'
  BY <1>3 DEF Edit, sharedVars, mainVars, readerVars
<1>4. CASE MainStep
  <2>1. CASE EnumerateFails
    BY <2>1 DEF EnumerateFails, sharedVars, readerVars, RecordFirst
  <2>2. CASE StartReaders
    BY <2>2 DEF StartReaders, sharedVars, readerVars, RecordFirst
  <2>3. CASE FeedCheck
    BY <2>3 DEF FeedCheck, sharedVars, readerVars, RecordFirst
  <2>4. CASE FeedStops
    BY <2>4 DEF FeedStops, sharedVars, readerVars, RecordFirst
  <2>5. CASE FeedPut
    BY <2>5 DEF FeedPut, sharedVars, readerVars, RecordFirst
  <2>6. CASE FeedFull
    BY <2>6 DEF FeedFull, sharedVars, readerVars, RecordFirst
  <2>7. CASE FeedEnds
    BY <2>7 DEF FeedEnds, sharedVars, readerVars, RecordFirst
  <2>8. CASE FeederDone
    BY <2>8 DEF FeederDone, sharedVars, readerVars, RecordFirst
  <2>9. CASE Wake
    BY <2>9 DEF Wake, sharedVars, readerVars, RecordFirst
  <2>10. CASE WakeEnds
    BY <2>10 DEF WakeEnds, sharedVars, readerVars, RecordFirst
  <2>11. CASE JoinQueue
    BY <2>11 DEF JoinQueue, sharedVars, readerVars, RecordFirst
  <2>12. CASE Leave
    BY <2>12 DEF Leave, sharedVars, readerVars, RecordFirst
  <2>13. CASE JoinThreads
    BY <2>13 DEF JoinThreads, sharedVars, readerVars, RecordFirst
  <2>14. QED
    BY <1>4, <2>1, <2>2, <2>3, <2>4, <2>5, <2>6, <2>7, <2>8, <2>9, <2>10,
       <2>11, <2>12, <2>13 DEF MainStep
<1>5. ASSUME NEW r \in Readers, ReaderStep(r) PROVE HandInv'
  <2>1. CASE Get(r)
    BY <2>1 DEF Get, sharedVars, mainVars, Raise, RecordFirst, Sentinel, Files
  <2>2. CASE GetTimesOut(r)
    BY <2>2 DEF GetTimesOut, sharedVars, mainVars, Raise, RecordFirst,
       Sentinel, Files
  <2>3. CASE LeaveOrWait(r)
    BY <2>3 DEF LeaveOrWait, sharedVars, mainVars, Raise, RecordFirst,
       Sentinel, Files
  <2>4. CASE TakeItem(r)
    BY <2>4 DEF TakeItem, sharedVars, mainVars, Raise, RecordFirst,
       Sentinel, Files
  <2>5. CASE CheckCancel(r)
    <3>1. mpc \notin Past
      <4>1. CASE mpc \in Past
        <5>1. rpc[r] \notin Holding
          BY <4>1, NothingLeft DEF Past, PhaseInv
        <5>2. QED
          BY <2>5, <5>1 DEF CheckCancel, Holding
      <4>2. QED
        BY <4>1
    <3>2. cancel \/ error # "none"
      BY <2>5, <3>1 DEF CheckCancel, StopInv
    <3>3. QED
      BY <2>5, <3>2 DEF CheckCancel, Raise, mainVars
  <2>6. CASE BeginRead(r)
    BY <2>6 DEF BeginRead, sharedVars, mainVars, Raise, RecordFirst,
       Sentinel, Files
  <2>7. CASE ReadFile(r)
    <3>1. content[ritem[r]] # NotRead
      BY <2>7, MaxEditsNat DEF ReadFile, NotRead
    <3>2. QED
      BY <2>7, <3>1 DEF ReadFile, sharedVars, mainVars
  <2>8. CASE ReadFails(r)
    BY <2>8 DEF ReadFails, sharedVars, mainVars, Raise, RecordFirst,
       Sentinel, Files
  <2>9. CASE StoreResult(r)
    BY <2>9 DEF StoreResult, sharedVars, mainVars, Raise, RecordFirst,
       Sentinel, Files
  <2>10. CASE RecordError(r)
    BY <2>10 DEF RecordError, sharedVars, mainVars, Raise, RecordFirst,
       Sentinel, Files
  <2>11. CASE SetStop(r)
    BY <2>11 DEF SetStop, sharedVars, mainVars, Raise, RecordFirst,
       Sentinel, Files
  <2>12. CASE TaskDone(r)
    BY <2>12 DEF TaskDone, sharedVars, mainVars, Raise, RecordFirst,
       Sentinel, Files
  <2>13. QED
    BY <1>5, <2>1, <2>2, <2>3, <2>4, <2>5, <2>6, <2>7, <2>8, <2>9, <2>10,
       <2>11, <2>12 DEF ReaderStep
<1>6. QED
  BY <1>1, <1>2, <1>3, <1>4, <1>5 DEF Next

-----------------------------------------------------------------------------
(* Why the threads stop.                                                   *)

LEMMA NoneHeldPast ==
  ASSUME Types, DrainAccounts, PhaseInv,
         mpc \in {"leave", "threads", "returned", "raised"}
  PROVE  queue = << >> /\ \A r \in Readers : rpc[r] \notin Holding
  BY NothingLeft DEF PhaseInv

LEMMA FailingStep ==
  ASSUME Types, DrainAccounts, HandInv, StopInv, PhaseInv, [Next]_vars,
         Failing
  PROVE  Failing'
<1>a. rpc \in [Readers -> {"get", "empty", "exit"} \cup Holding]
      /\ rerr \in [Readers -> Errors \cup {"none"}]
  BY DEF Types, TypeOK
<1> USE <1>a DEF Failing
<1>1. CASE UNCHANGED vars
  BY <1>1 DEF vars, sharedVars, mainVars, readerVars
<1>2. CASE Cancel
  BY <1>2 DEF Cancel, sharedVars, mainVars, readerVars
<1>3. ASSUME NEW f \in Files, Edit(f) PROVE Failing'
  BY <1>3 DEF Edit, sharedVars, mainVars, readerVars
<1>4. CASE MainStep
  <2>1. CASE EnumerateFails
    BY <2>1 DEF EnumerateFails, readerVars
  <2>2. CASE StartReaders
    <3>1. error # "none"
      BY <2>2 DEF StartReaders, PhaseInv
    <3>2. QED
      BY <2>2, <3>1 DEF StartReaders, sharedVars
  <2>3. CASE FeedCheck
    BY <2>3 DEF FeedCheck, RecordFirst, readerVars
  <2>4. CASE FeedStops
    BY <2>4 DEF FeedStops, sharedVars, readerVars, RecordFirst
  <2>5. CASE FeedPut
    BY <2>5 DEF FeedPut, sharedVars, readerVars, RecordFirst
  <2>6. CASE FeedFull
    BY <2>6 DEF FeedFull, sharedVars, readerVars, RecordFirst
  <2>7. CASE FeedEnds
    BY <2>7 DEF FeedEnds, sharedVars, readerVars, RecordFirst
  <2>8. CASE FeederDone
    BY <2>8 DEF FeederDone, sharedVars, readerVars, RecordFirst
  <2>9. CASE Wake
    BY <2>9 DEF Wake, sharedVars, readerVars, RecordFirst
  <2>10. CASE WakeEnds
    BY <2>10 DEF WakeEnds, sharedVars, readerVars, RecordFirst
  <2>11. CASE JoinQueue
    BY <2>11 DEF JoinQueue, sharedVars, readerVars, RecordFirst
  <2>12. CASE Leave
    BY <2>12 DEF Leave, sharedVars, readerVars, RecordFirst
  <2>13. CASE JoinThreads
    BY <2>13 DEF JoinThreads, sharedVars, readerVars, RecordFirst
  <2>14. QED
    BY <1>4, <2>1, <2>2, <2>3, <2>4, <2>5, <2>6, <2>7, <2>8, <2>9, <2>10,
       <2>11, <2>12, <2>13 DEF MainStep
<1>5. ASSUME NEW r \in Readers, ReaderStep(r) PROVE Failing'
  <2>1. CASE Get(r)
    BY <2>1 DEF Get, sharedVars, mainVars, Raise, RecordFirst
  <2>2. CASE GetTimesOut(r)
    BY <2>2 DEF GetTimesOut, sharedVars, mainVars, Raise, RecordFirst
  <2>3. CASE LeaveOrWait(r)
    BY <2>3 DEF LeaveOrWait, sharedVars, mainVars, Raise, RecordFirst
  <2>4. CASE TakeItem(r)
    BY <2>4 DEF TakeItem, sharedVars, mainVars, Raise, RecordFirst
  <2>5. CASE CheckCancel(r)
    BY <2>5 DEF CheckCancel, sharedVars, mainVars, Raise, RecordFirst
  <2>6. CASE BeginRead(r)
    BY <2>6 DEF BeginRead, sharedVars, mainVars, Raise, RecordFirst
  <2>7. CASE ReadFile(r)
    BY <2>7 DEF ReadFile, sharedVars, mainVars, Raise, RecordFirst
  <2>8. CASE ReadFails(r)
    BY <2>8 DEF ReadFails, sharedVars, mainVars, Raise, RecordFirst
  <2>9. CASE StoreResult(r)
    BY <2>9 DEF StoreResult, sharedVars, mainVars, Raise, RecordFirst
  <2>10. CASE RecordError(r)
    <3>1. rerr[r] # "none"
      BY <2>10 DEF RecordError, HandInv
    <3>2. error' # "none"
      BY <2>10, <3>1 DEF RecordError, RecordFirst
    <3>3. QED
      BY <3>2
  <2>11. CASE SetStop(r)
    BY <2>11 DEF SetStop, sharedVars, mainVars, Raise, RecordFirst
  <2>12. CASE TaskDone(r)
    BY <2>12 DEF TaskDone, sharedVars, mainVars, Raise, RecordFirst
  <2>13. QED
    BY <1>5, <2>1, <2>2, <2>3, <2>4, <2>5, <2>6, <2>7, <2>8, <2>9, <2>10,
       <2>11, <2>12 DEF ReaderStep
<1>6. QED
  BY <1>1, <1>2, <1>3, <1>4, <1>5 DEF Next

LEMMA StopStep ==
  ASSUME Types, DrainAccounts, HandInv, StopInv, PhaseInv, [Next]_vars
  PROVE  StopInv'
<1>a. rpc \in [Readers -> {"get", "empty", "exit"} \cup Holding]
  BY DEF Types, TypeOK
<1>b. Failing => Failing'
  BY FailingStep
<1> USE <1>a, <1>b DEF StopInv, CauseReported, Past
<1>1. CASE UNCHANGED vars
  BY <1>1 DEF vars, sharedVars, mainVars, readerVars
<1>2. CASE Cancel
  BY <1>2 DEF Cancel, sharedVars, mainVars, readerVars
<1>3. ASSUME NEW f \in Files, Edit(f) PROVE StopInv'
  BY <1>3 DEF Edit, sharedVars, mainVars, readerVars
<1>4. CASE MainStep
  <2>1. CASE EnumerateFails
    BY <2>1 DEF EnumerateFails, sharedVars, readerVars, RecordFirst
  <2>2. CASE StartReaders
    BY <2>2 DEF StartReaders, sharedVars, readerVars, RecordFirst
  <2>3. CASE FeedCheck
    BY <2>3 DEF FeedCheck, sharedVars, readerVars, RecordFirst
  <2>4. CASE FeedStops
    BY <2>4 DEF FeedStops, Failing, readerVars
  <2>5. CASE FeedPut
    BY <2>5 DEF FeedPut, sharedVars, readerVars, RecordFirst
  <2>6. CASE FeedFull
    BY <2>6 DEF FeedFull, sharedVars, readerVars, RecordFirst
  <2>7. CASE FeedEnds
    BY <2>7 DEF FeedEnds, sharedVars, readerVars, RecordFirst
  <2>8. CASE FeederDone
    BY <2>8 DEF FeederDone, sharedVars, readerVars, RecordFirst
  <2>9. CASE Wake
    BY <2>9 DEF Wake, sharedVars, readerVars, RecordFirst
  <2>10. CASE WakeEnds
    BY <2>10 DEF WakeEnds, sharedVars, readerVars, RecordFirst
  <2>11. CASE JoinQueue
    BY <2>11 DEF JoinQueue, sharedVars, readerVars, RecordFirst
  <2>12. CASE Leave
    BY <2>12 DEF Leave, sharedVars, readerVars, RecordFirst
  <2>13. CASE JoinThreads
    BY <2>13 DEF JoinThreads, sharedVars, readerVars, RecordFirst
  <2>14. QED
    BY <1>4, <2>1, <2>2, <2>3, <2>4, <2>5, <2>6, <2>7, <2>8, <2>9, <2>10,
       <2>11, <2>12, <2>13 DEF MainStep
<1>5. ASSUME NEW r \in Readers, ReaderStep(r) PROVE StopInv'
  <2>1. CASE Get(r)
    BY <2>1 DEF Get, sharedVars, mainVars, Raise, RecordFirst
  <2>2. CASE GetTimesOut(r)
    BY <2>2 DEF GetTimesOut, sharedVars, mainVars, Raise, RecordFirst
  <2>3. CASE LeaveOrWait(r)
    BY <2>3 DEF LeaveOrWait, sharedVars, mainVars, Raise, RecordFirst
  <2>4. CASE TakeItem(r)
    BY <2>4 DEF TakeItem, sharedVars, mainVars, Raise, RecordFirst
  <2>5. CASE CheckCancel(r)
    <3>1. mpc \notin Past /\ Failing'
      <4>1. rpc[r] \in Holding
        BY <2>5 DEF CheckCancel, Holding
      <4>2. QED
        BY <2>5, <4>1, NoneHeldPast DEF CheckCancel, Raise, Failing
    <3>2. QED
      BY <2>5, <3>1 DEF CheckCancel, mainVars
  <2>6. CASE BeginRead(r)
    BY <2>6 DEF BeginRead, sharedVars, mainVars, Raise, RecordFirst
  <2>7. CASE ReadFile(r)
    BY <2>7 DEF ReadFile, sharedVars, mainVars, Raise, RecordFirst
  <2>8. CASE ReadFails(r)
    BY <2>8 DEF ReadFails, sharedVars, mainVars, Raise, RecordFirst
  <2>9. CASE StoreResult(r)
    BY <2>9 DEF StoreResult, sharedVars, mainVars, Raise, RecordFirst
  <2>10. CASE RecordError(r)
    <3>1. mpc # "returned"
      BY <2>10, NoneHeldPast DEF RecordError, Holding
    <3>2. QED
      BY <2>10, <3>1 DEF RecordError, RecordFirst, HandInv, mainVars
  <2>11. CASE SetStop(r)
    <3>1. error # "none"
      BY <2>11 DEF SetStop, HandInv
    <3>2. QED
      BY <2>11, <3>1 DEF SetStop, mainVars, Failing
  <2>12. CASE TaskDone(r)
    BY <2>12 DEF TaskDone, sharedVars, mainVars, Raise, RecordFirst
  <2>13. QED
    BY <1>5, <2>1, <2>2, <2>3, <2>4, <2>5, <2>6, <2>7, <2>8, <2>9, <2>10,
       <2>11, <2>12 DEF ReaderStep
<1>6. QED
  BY <1>1, <1>2, <1>3, <1>4, <1>5 DEF Next

-----------------------------------------------------------------------------
(* When readers may leave.                                                 *)

LEMMA PhaseStep ==
  ASSUME Types, DrainAccounts, HandInv, StopInv, PhaseInv, [Next]_vars
  PROVE  PhaseInv'
<1>a. /\ rpc \in [Readers -> {"get", "empty", "exit"} \cup Holding]
      /\ ritem \in [Readers -> Files \cup {Sentinel}]
      /\ fed \in 0 .. NumFiles /\ Sentinel \notin Files
      /\ mpc \in {"start", "feed", "put", "failing", "fed", "wake", "join",
                  "leave", "threads", "returned", "raised"}
  BY DEF Types, TypeOK, Sentinel, Files
<1>b. UNCHANGED queue => (InQueue(Sentinel)' <=> InQueue(Sentinel))
  BY DEF InQueue
<1> USE <1>a, <1>b DEF PhaseInv, ReadersJoined, Before, Ended
<1>1. CASE UNCHANGED vars
  BY <1>1 DEF vars, sharedVars, mainVars, readerVars
<1>2. CASE Cancel
  BY <1>2 DEF Cancel, sharedVars, mainVars, readerVars
<1>3. ASSUME NEW f \in Files, Edit(f) PROVE PhaseInv'
  BY <1>3 DEF Edit, sharedVars, mainVars, readerVars
<1>4. CASE MainStep
  <2>1. CASE EnumerateFails
    <3>1. unfinished = 0
      <4>1. Len(queue) = 0
        BY <2>1 DEF EnumerateFails
      <4>2. {r \in Readers : rpc[r] \in Holding} = {}
        BY <2>1 DEF EnumerateFails, Holding
      <4>3. QED
        BY <4>1, <4>2, FS_EmptySet DEF DrainAccounts
    <3>2. QED
      BY <2>1, <3>1 DEF EnumerateFails, readerVars
  <2>2. CASE StartReaders
    BY <2>2 DEF StartReaders, sharedVars, Holding
  <2>3. CASE FeedCheck
    BY <2>3 DEF FeedCheck, sharedVars, readerVars
  <2>4. CASE FeedStops
    BY <2>4 DEF FeedStops, sharedVars, readerVars
  <2>5. CASE FeedPut
    <3>1. fed + 1 \in Files /\ fed + 1 # Sentinel
      BY <2>5, NumFilesPositive DEF FeedPut, Files, Sentinel
    <3>2. ~InQueue(Sentinel)'
      BY <2>5, <3>1, Enqueued DEF FeedPut
    <3>3. QED
      BY <2>5, <3>2 DEF FeedPut, readerVars
  <2>6. CASE FeedFull
    BY <2>6 DEF FeedFull, sharedVars, readerVars
  <2>7. CASE FeedEnds
    BY <2>7 DEF FeedEnds, sharedVars, readerVars
  <2>8. CASE FeederDone
    BY <2>8 DEF FeederDone, sharedVars, readerVars
  <2>9. CASE Wake
    BY <2>9 DEF Wake, readerVars
  <2>10. CASE WakeEnds
    BY <2>10 DEF WakeEnds, sharedVars, readerVars
  <2>11. CASE JoinQueue
    BY <2>11 DEF JoinQueue, sharedVars, readerVars
  <2>12. CASE Leave
    BY <2>12 DEF Leave, sharedVars, readerVars
  <2>13. CASE JoinThreads
    BY <2>13 DEF JoinThreads, sharedVars, readerVars
  <2>14. QED
    BY <1>4, <2>1, <2>2, <2>3, <2>4, <2>5, <2>6, <2>7, <2>8, <2>9, <2>10,
       <2>11, <2>12, <2>13 DEF MainStep
<1>5. ASSUME NEW r \in Readers, ReaderStep(r) PROVE PhaseInv'
  <2>1. CASE Get(r)
    <3>1. mpc \notin {"start", "leave", "threads", "returned", "raised"}
      BY <2>1, NoneHeldPast DEF Get
    <3>2. mpc \in Before => Head(queue) \in Files /\ ~InQueue(Sentinel)'
      BY <2>1, Dequeued DEF Get
    <3>3. QED
      BY <2>1, <3>1, <3>2 DEF Get, mainVars, Holding
  <2>2. CASE GetTimesOut(r)
    BY <2>2 DEF GetTimesOut, sharedVars, mainVars, Raise, Holding
  <2>3. CASE LeaveOrWait(r)
    BY <2>3 DEF LeaveOrWait, sharedVars, mainVars, Raise, Holding
  <2>4. CASE TakeItem(r)
    BY <2>4 DEF TakeItem, sharedVars, mainVars, Raise, Holding
  <2>5. CASE CheckCancel(r)
    BY <2>5 DEF CheckCancel, sharedVars, mainVars, Raise, Holding
  <2>6. CASE BeginRead(r)
    BY <2>6 DEF BeginRead, sharedVars, mainVars, Raise, Holding
  <2>7. CASE ReadFile(r)
    BY <2>7 DEF ReadFile, sharedVars, mainVars, Raise, Holding
  <2>8. CASE ReadFails(r)
    BY <2>8 DEF ReadFails, sharedVars, mainVars, Raise, Holding
  <2>9. CASE StoreResult(r)
    BY <2>9 DEF StoreResult, sharedVars, mainVars, Raise, Holding
  <2>10. CASE RecordError(r)
    BY <2>10 DEF RecordError, sharedVars, mainVars, Raise, Holding
  <2>11. CASE SetStop(r)
    BY <2>11 DEF SetStop, sharedVars, mainVars, Raise, Holding
  <2>12. CASE TaskDone(r)
    <3>1. mpc \notin {"start", "leave", "threads", "returned", "raised"}
      BY <2>12, NoneHeldPast DEF TaskDone, Holding
    <3>2. mpc \in Before => ritem[r] # Sentinel
      BY <2>12 DEF TaskDone, Holding
    <3>3. QED
      BY <2>12, <3>1, <3>2 DEF TaskDone, mainVars, Holding
  <2>13. QED
    BY <1>5, <2>1, <2>2, <2>3, <2>4, <2>5, <2>6, <2>7, <2>8, <2>9, <2>10,
       <2>11, <2>12 DEF ReaderStep
<1>6. QED
  BY <1>1, <1>2, <1>3, <1>4, <1>5 DEF Next

-----------------------------------------------------------------------------
(* No file is lost without an error.                                       *)

LEMMA FileStep ==
  ASSUME Types, DrainAccounts, HandInv, StopInv, FileInv, PhaseInv,
         [Next]_vars
  PROVE  FileInv'
<1>a. /\ rpc \in [Readers -> {"get", "empty", "exit"} \cup Holding]
      /\ ritem \in [Readers -> Files \cup {Sentinel}]
      /\ rdata \in [Readers -> (0 .. MaxEdits) \cup {NotRead}]
      /\ results \in [Files -> (0 .. MaxEdits) \cup {NotRead}]
      /\ fed \in 0 .. NumFiles /\ Sentinel \notin 1 .. NumFiles
      /\ Files = 1 .. NumFiles
  BY DEF Types, TypeOK, Sentinel, Files
<1>b. Failing => Failing'
  BY FailingStep
<1>c. UNCHANGED queue => \A x : InQueue(x)' <=> InQueue(x)
  BY DEF InQueue
<1>d. UNCHANGED <<rpc, ritem>> => \A x : InHand(x)' <=> InHand(x)
  BY DEF InHand
<1> USE <1>a, <1>b, <1>c, <1>d, NumFilesPositive DEF FileInv, Fed
<1>1. CASE UNCHANGED vars
  BY <1>1 DEF vars, sharedVars, mainVars, readerVars
<1>2. CASE Cancel
  BY <1>2 DEF Cancel, sharedVars, mainVars, readerVars
<1>3. ASSUME NEW f \in Files, Edit(f) PROVE FileInv'
  BY <1>3 DEF Edit, sharedVars, mainVars, readerVars
<1>4. CASE MainStep
  <2>1. CASE EnumerateFails
    BY <2>1 DEF EnumerateFails, sharedVars, readerVars
  <2>2. CASE StartReaders
    <3>1. \A x : ~InHand(x)
      BY <2>2 DEF StartReaders, PhaseInv, InHand
    <3>2. QED
      BY <2>2, <3>1 DEF StartReaders, sharedVars
  <2>3. CASE FeedCheck
    BY <2>3 DEF FeedCheck, sharedVars, readerVars
  <2>4. CASE FeedStops
    <3>1. Failing
      BY <2>4 DEF FeedStops, StopInv, Failing
    <3>2. QED
      BY <2>4, <3>1 DEF FeedStops, readerVars
  <2>5. CASE FeedPut
    <3>1. fed < NumFiles /\ fed + 1 \in Files
      BY <2>5 DEF FeedPut, PhaseInv
    <3>2. \A x : InQueue(x)' <=> (InQueue(x) \/ x = fed + 1)
      BY <2>5, <3>1, Enqueued DEF FeedPut
    <3>3. QED
      BY <2>5, <3>1, <3>2 DEF FeedPut, readerVars
  <2>6. CASE FeedFull
    BY <2>6 DEF FeedFull, sharedVars, readerVars
  <2>7. CASE FeedEnds
    <3>1. fed = NumFiles \/ Failing
      BY <2>7 DEF FeedEnds, StopInv, Past
    <3>2. QED
      BY <2>7, <3>1 DEF FeedEnds, sharedVars, readerVars
  <2>8. CASE FeederDone
    BY <2>8 DEF FeederDone, sharedVars, readerVars
  <2>9. CASE Wake
    <3>1. \A x : InQueue(x)' <=> (InQueue(x) \/ x = Sentinel)
      BY <2>9, Enqueued DEF Wake
    <3>2. QED
      BY <2>9, <3>1 DEF Wake, readerVars
  <2>10. CASE WakeEnds
    BY <2>10 DEF WakeEnds, sharedVars, readerVars
  <2>11. CASE JoinQueue
    BY <2>11 DEF JoinQueue, sharedVars, readerVars
  <2>12. CASE Leave
    BY <2>12 DEF Leave, sharedVars, readerVars
  <2>13. CASE JoinThreads
    BY <2>13 DEF JoinThreads, sharedVars, readerVars
  <2>14. QED
    BY <1>4, <2>1, <2>2, <2>3, <2>4, <2>5, <2>6, <2>7, <2>8, <2>9, <2>10,
       <2>11, <2>12, <2>13 DEF MainStep
<1>5. ASSUME NEW r \in Readers, ReaderStep(r) PROVE FileInv'
  <2>1. CASE Get(r)
    <3>1. \A x : InQueue(x) => x = Head(queue) \/ InQueue(x)'
      BY <2>1, Dequeued DEF Get
    <3>2. \A x : InHand(x) => InHand(x)'
      BY <2>1 DEF Get, InHand, Holding
    <3>3. \A x : x = Head(queue) => InHand(x)'
      BY <2>1 DEF Get, InHand
    <3>4. QED
      BY <2>1, <3>1, <3>2, <3>3 DEF Get, mainVars
  <2>2. CASE GetTimesOut(r)
    <3>1. \A x \in Files : InHand(x) => InHand(x)'
      BY <2>2 DEF GetTimesOut, InHand, Holding
    <3>2. QED
      BY <2>2, <3>1 DEF GetTimesOut, sharedVars, mainVars
  <2>3. CASE LeaveOrWait(r)
    <3>1. \A x \in Files : InHand(x) => InHand(x)'
      BY <2>3 DEF LeaveOrWait, InHand, Holding
    <3>2. QED
      BY <2>3, <3>1 DEF LeaveOrWait, sharedVars, mainVars
  <2>4. CASE TakeItem(r)
    <3>1. CASE ritem[r] # Sentinel /\ stop
      <4>1. Failing
        BY <2>4, <3>1, NoneHeldPast DEF TakeItem, StopInv, Past, Holding
      <4>2. QED
        BY <2>4, <4>1 DEF TakeItem, mainVars
    <3>2. CASE ritem[r] = Sentinel \/ ~stop
      <4>1. \A x \in Files : InHand(x) => InHand(x)'
        BY <2>4, <3>2 DEF TakeItem, InHand, Holding
      <4>2. QED
        BY <2>4, <4>1 DEF TakeItem, sharedVars, mainVars
    <3>3. QED
      BY <3>1, <3>2
  <2>5. CASE CheckCancel(r)
    <3>1. \A x \in Files : InHand(x) => InHand(x)'
      BY <2>5 DEF CheckCancel, InHand, Holding, Raise
    <3>2. QED
      BY <2>5, <3>1 DEF CheckCancel, sharedVars, mainVars
  <2>6. CASE BeginRead(r)
    <3>1. \A x \in Files : InHand(x) => InHand(x)'
      BY <2>6 DEF BeginRead, InHand, Holding
    <3>2. QED
      BY <2>6, <3>1 DEF BeginRead, sharedVars, mainVars
  <2>7. CASE ReadFile(r)
    <3>1. \A x \in Files : InHand(x) => InHand(x)'
      BY <2>7 DEF ReadFile, InHand, Holding
    <3>2. QED
      BY <2>7, <3>1 DEF ReadFile, sharedVars, mainVars
  <2>8. CASE ReadFails(r)
    <3>1. \A x \in Files : InHand(x) => InHand(x)'
      BY <2>8 DEF ReadFails, InHand, Holding, Raise
    <3>2. QED
      BY <2>8, <3>1 DEF ReadFails, sharedVars, mainVars
  <2>9. CASE StoreResult(r)
    <3>1. ritem[r] \in Files /\ rdata[r] # NotRead
      BY <2>9 DEF StoreResult, HandInv
    <3>2. \A x \in Files : InHand(x) => x = ritem[r] \/ InHand(x)'
      BY <2>9 DEF StoreResult, InHand, Holding
    <3>3. /\ results'[ritem[r]] # NotRead
          /\ \A x \in Files : results[x] # NotRead => results'[x] # NotRead
      BY <2>9, <3>1 DEF StoreResult
    <3>4. QED
      BY <2>9, <3>2, <3>3 DEF StoreResult, mainVars
  <2>10. CASE RecordError(r)
    <3>1. Failing
      BY <2>10 DEF RecordError, Failing
    <3>2. QED
      BY <2>10, <3>1 DEF RecordError, mainVars
  <2>11. CASE SetStop(r)
    <3>1. \A x \in Files : InHand(x) => InHand(x)'
      BY <2>11 DEF SetStop, InHand, Holding
    <3>2. QED
      BY <2>11, <3>1 DEF SetStop, sharedVars, mainVars
  <2>12. CASE TaskDone(r)
    <3>1. \A x \in Files : InHand(x) => InHand(x)'
      BY <2>12 DEF TaskDone, InHand, Holding
    <3>2. QED
      BY <2>12, <3>1 DEF TaskDone, sharedVars, mainVars
  <2>13. QED
    BY <1>5, <2>1, <2>2, <2>3, <2>4, <2>5, <2>6, <2>7, <2>8, <2>9, <2>10,
       <2>11, <2>12 DEF ReaderStep
<1>6. QED
  BY <1>1, <1>2, <1>3, <1>4, <1>5 DEF Next

-----------------------------------------------------------------------------
LEMMA InvInit == Init => Inv
<1> SUFFICES ASSUME Init PROVE Inv
  OBVIOUS
<1>1. Types
  <2>1. 0 \in 0 .. Cardinality(Readers)
    BY ReadersFinite, FS_CardinalityType
  <2>2. << >> \in Seq(Files \cup {Sentinel}) /\ Len(<< >>) = 0
    BY EmptySeq
  <2>3. /\ content \in [Files -> 0 .. MaxEdits]
        /\ results \in [Files -> (0 .. MaxEdits) \cup {NotRead}]
        /\ rdata \in [Readers -> (0 .. MaxEdits) \cup {NotRead}]
    BY MaxEditsNat DEF Init
  <2>4. queue \in Seq(Files \cup {Sentinel}) /\ Len(queue) <= QueueSize
    BY <2>2, QueueSizePositive DEF Init
  <2>5. fed \in 0 .. NumFiles /\ woken \in 0 .. Cardinality(Readers)
        /\ unfinished \in Nat
    BY <2>1, NumFilesPositive DEF Init
  <2>6. /\ rpc \in [Readers -> {"get", "empty", "exit"} \cup Holding]
        /\ ritem \in [Readers -> Files \cup {Sentinel}]
        /\ rerr \in [Readers -> Errors \cup {"none"}]
    BY DEF Init
  <2>7. QED
    BY <2>3, <2>4, <2>5, <2>6 DEF Init, Types, TypeOK
<1>2. DrainAccounts
  <2>1. {r \in Readers : rpc[r] \in Holding} = {}
    BY DEF Init, Holding
  <2>2. Cardinality({r \in Readers : rpc[r] \in Holding}) = 0
    BY <2>1, FS_EmptySet
  <2>3. Len(queue) = 0 /\ unfinished = 0
    BY DEF Init
  <2>4. QED
    BY <2>2, <2>3 DEF DrainAccounts
<1>3. HandInv /\ StopInv
  BY DEF Init, HandInv, StopInv, CauseReported, Past
<1>4. FileInv /\ PhaseInv
  BY DEF Init, FileInv, PhaseInv, ReadersJoined, Fed, Before, Holding,
     InQueue,
         Ended
<1>5. QED
  BY <1>1, <1>2, <1>3, <1>4 DEF Inv

LEMMA InvStep == Inv /\ [Next]_vars => Inv'
  BY DrainStep, TypeStep, HandStep, StopStep, FileStep, PhaseStep DEF Inv

LEMMA Invariance == Spec => []Inv
  BY InvInit, InvStep, PTL DEF Spec

\* Every variable keeps its type; in particular the queue keeps its bound.
THEOREM TypeCorrect == Spec => []TypeOK
<1>1. Inv => TypeOK
  BY DEF Inv, Types
<1>2. QED
  BY <1>1, Invariance, PTL

\* The count of unfinished tasks is exact at every step, so the join returns
\* only when every item was taken and accounted for.
THEOREM DrainIsExact == Spec => []DrainAccounts
<1>1. Inv => DrainAccounts
  BY DEF Inv
<1>2. QED
  BY <1>1, Invariance, PTL

\* A returned snapshot has the bytes of every admitted file.
THEOREM SnapshotComplete == Spec => []Complete
<1>1. ASSUME Inv, mpc = "returned"
      PROVE  \A f \in Files : results[f] # NotRead
  <2>1. unfinished = 0 /\ error = "none"
    BY <1>1 DEF Inv, PhaseInv, StopInv
  <2>2. queue = << >> /\ \A r \in Readers : rpc[r] \notin Holding
    BY <1>1, <2>1, NothingLeft DEF Inv
  <2>3. ~Failing
    BY <2>1, <2>2 DEF Failing, Holding
  <2>4. \A x : ~InQueue(x) /\ ~InHand(x)
    BY <2>2 DEF InQueue, InHand, Holding
  <2>5. fed = NumFiles
    BY <1>1, <2>3 DEF Inv, FileInv, Fed
  <2>6. QED
    BY <1>1, <2>3, <2>4, <2>5 DEF Inv, FileInv, Files
<1>2. Inv => Complete
  BY <1>1 DEF Complete
<1>3. QED
  BY <1>2, Invariance, PTL

\* A run nobody cancelled never reports a cancellation.
THEOREM CauseIsReported == Spec => []CauseReported
<1>1. Inv => CauseReported
  BY DEF Inv, StopInv
<1>2. QED
  BY <1>1, Invariance, PTL

\* No reader outlives the call, and none leaves before the feeding is over.
THEOREM ReadersAreJoined == Spec => []ReadersJoined
<1>1. Inv => ReadersJoined
  BY DEF Inv, PhaseInv
<1>2. QED
  BY <1>1, Invariance, PTL

=============================================================================

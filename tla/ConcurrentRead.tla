--------------------------- MODULE ConcurrentRead ---------------------------
(***************************************************************************)
(* Discovery (`discover_concurrent` of runner/mncs_index/discover.py): the *)
(* calling thread feeds the admitted files into a bounded queue, reader    *)
(* threads take them out and read them, and the caller waits for the queue *)
(* to be worked off.  A reader waits for an item with a timeout, so Empty  *)
(* may be raised whenever the queue is empty; what a reader does about it  *)
(* it decides a moment later.                                              *)
(*                                                                         *)
(* The files are numbered in the sorted order of their paths, and the      *)
(* bytes of a file are the number of edits it has seen.                    *)
(***************************************************************************)
EXTENDS Integers, FiniteSets, Sequences

CONSTANTS Readers,    \* the reader threads, min(readers, number of files)
          NumFiles,   \* how many files enumerate_corpus admits
          QueueSize,  \* queue_size
          MaxEdits    \* bound: how often each file changes

ASSUME ReadersFinite == IsFiniteSet(Readers)
ASSUME NumFilesPositive == NumFiles \in Nat \ {0}
ASSUME QueueSizePositive == QueueSize \in Nat \ {0}
ASSUME MaxEditsNat == MaxEdits \in Nat

Files    == 1 .. NumFiles
Sentinel == 0           \* None in the queue
NotRead  == -1          \* no entry in `results`

VARIABLES
    content,            \* the files on disk
    cancel,             \* cancel_event
    \* shared by the threads: work_q, its count of unfinished tasks, the two
    \* events, the first of `errors` and the dictionary `results`
    queue, unfinished, feederDone, stop, error, results,
    \* the caller: program counter, files fed, sentinels put
    mpc, fed, woken,
    \* the readers: program counter, item in hand, the bytes read from it and
    \* the error raised over it
    rpc, ritem, rdata, rerr

sharedVars == <<queue, unfinished, feederDone, stop, error, results>>
mainVars   == <<mpc, fed, woken>>
readerVars == <<rpc, ritem, rdata, rerr>>
vars       == <<content, cancel, sharedVars, mainVars, readerVars>>

Errors == {"cancelled", "failed"}

\* Where a reader has taken an item and not yet called task_done.
Holding == {"item", "begin", "reading", "read", "fail", "stopping", "done"}

TypeOK ==
    /\ content \in [Files -> 0 .. MaxEdits]
    /\ cancel \in BOOLEAN
    /\ queue \in Seq(Files \cup {Sentinel}) /\ Len(queue) <= QueueSize
    /\ unfinished \in Nat
    /\ feederDone \in BOOLEAN /\ stop \in BOOLEAN
    /\ error \in Errors \cup {"none"}
    /\ results \in [Files -> (0 .. MaxEdits) \cup {NotRead}]
    /\ mpc \in {"start", "feed", "put", "failing", "fed", "wake", "join",
                "leave", "threads", "returned", "raised"}
    /\ fed \in 0 .. NumFiles
    /\ woken \in 0 .. Cardinality(Readers)
    /\ rpc \in [Readers -> {"get", "empty", "exit"} \cup Holding]
    /\ ritem \in [Readers -> Files \cup {Sentinel}]
    /\ rdata \in [Readers -> (0 .. MaxEdits) \cup {NotRead}]
    /\ rerr \in [Readers -> Errors \cup {"none"}]

Init ==
    /\ content = [f \in Files |-> 0]
    /\ cancel = FALSE
    /\ queue = << >> /\ unfinished = 0
    /\ feederDone = FALSE /\ stop = FALSE
    /\ error = "none"
    /\ results = [f \in Files |-> NotRead]
    /\ mpc = "start" /\ fed = 0 /\ woken = 0
    /\ rpc = [r \in Readers |-> "exit"]
    /\ ritem = [r \in Readers |-> Sentinel]
    /\ rdata = [r \in Readers |-> NotRead]
    /\ rerr = [r \in Readers |-> "none"]

Ended == mpc \in {"returned", "raised"}

-----------------------------------------------------------------------------
(* The environment: the build is cancelled, a file is edited.              *)

Cancel ==
    /\ ~cancel /\ ~Ended
    /\ cancel' = TRUE
    /\ UNCHANGED <<content, sharedVars, mainVars, readerVars>>

Edit(f) ==
    /\ content[f] < MaxEdits /\ ~Ended
    /\ content' = [content EXCEPT ![f] = @ + 1]
    /\ UNCHANGED <<cancel, sharedVars, mainVars, readerVars>>

-----------------------------------------------------------------------------
(* The caller.                                                             *)

RecordFirst(e) == error' = IF error = "none" THEN e ELSE error

\* A walk that fails, or a cancellation seen around it, starts no reader.
EnumerateFails ==
    /\ mpc = "start"
    /\ \/ error' = "failed"
       \/ cancel /\ error' = "cancelled"
    /\ mpc' = "raised"
    /\ UNCHANGED <<content, cancel, queue, unfinished, feederDone, stop,
                   results, fed, woken, readerVars>>

StartReaders ==
    /\ mpc = "start" /\ ~cancel
    /\ mpc' = "feed"
    /\ rpc' = [r \in Readers |-> "get"]
    /\ UNCHANGED <<content, cancel, sharedVars, fed, woken, ritem, rdata, rerr>>

\* _feed looks at stop and then at the cancellation before every attempt.
FeedCheck ==
    /\ mpc = "feed" /\ fed < NumFiles /\ ~stop
    /\ mpc' = IF cancel THEN "failing" ELSE "put"
    /\ IF cancel THEN RecordFirst("cancelled") ELSE UNCHANGED error
    /\ UNCHANGED <<content, cancel, queue, unfinished, feederDone, stop,
                   results, fed, woken, readerVars>>

FeedStops ==
    /\ mpc = "failing"
    /\ stop' = TRUE
    /\ mpc' = "fed"
    /\ UNCHANGED <<content, cancel, queue, unfinished, feederDone, error,
                   results, fed, woken, readerVars>>

\* Fault: the queue has no bound.
EnqueueUnbounded(x) == /\ queue' = Append(queue, x)
                       /\ unfinished' = unfinished + 1

Enqueue(x) == /\ Len(queue) < QueueSize
              /\ queue' = Append(queue, x)
              /\ unfinished' = unfinished + 1

FeedPut ==
    /\ mpc = "put"
    /\ Enqueue(fed + 1)
    /\ fed' = fed + 1
    /\ mpc' = "feed"
    /\ UNCHANGED <<content, cancel, feederDone, stop, error, results, woken,
                   readerVars>>

\* queue.Full: look at the flags and try again.
FeedFull ==
    /\ mpc = "put" /\ Len(queue) = QueueSize
    /\ mpc' = "feed"
    /\ UNCHANGED <<content, cancel, sharedVars, fed, woken, readerVars>>

\* The loop over the files ends, or is broken off by stop.
FeedEnds ==
    /\ mpc = "feed" /\ (fed = NumFiles \/ stop)
    /\ mpc' = "fed"
    /\ UNCHANGED <<content, cancel, sharedVars, fed, woken, readerVars>>

FeederDone ==
    /\ mpc = "fed"
    /\ feederDone' = TRUE
    /\ mpc' = "wake"
    /\ UNCHANGED <<content, cancel, queue, unfinished, stop, error, results,
                   fed, woken, readerVars>>

\* One sentinel per reader, as long as the queue has room.
Wake ==
    /\ mpc = "wake" /\ woken < Cardinality(Readers)
    /\ Enqueue(Sentinel)
    /\ woken' = woken + 1
    /\ UNCHANGED <<content, cancel, feederDone, stop, error, results, mpc,
                   fed, readerVars>>

WakeEnds ==
    /\ mpc = "wake"
    /\ woken = Cardinality(Readers) \/ Len(queue) = QueueSize
    /\ mpc' = "join"
    /\ UNCHANGED <<content, cancel, sharedVars, fed, woken, readerVars>>

JoinQueue ==
    /\ mpc = "join" /\ unfinished = 0
    /\ mpc' = "leave"
    /\ UNCHANGED <<content, cancel, sharedVars, fed, woken, readerVars>>

Leave ==
    /\ mpc = "leave"
    /\ feederDone' = TRUE /\ stop' = TRUE
    /\ mpc' = "threads"
    /\ UNCHANGED <<content, cancel, queue, unfinished, error, results, fed,
                   woken, readerVars>>

\* Every reader is joined; then the first error is raised, if there is one.
JoinThreads ==
    /\ mpc = "threads" /\ \A r \in Readers : rpc[r] = "exit"
    /\ mpc' = IF error = "none" THEN "returned" ELSE "raised"
    /\ UNCHANGED <<content, cancel, sharedVars, fed, woken, readerVars>>

MainStep == \/ EnumerateFails \/ StartReaders \/ FeedCheck \/ FeedStops
            \/ FeedPut \/ FeedFull \/ FeedEnds \/ FeederDone \/ Wake
            \/ WakeEnds \/ JoinQueue \/ Leave \/ JoinThreads

-----------------------------------------------------------------------------
(* The readers.                                                            *)

Get(r) ==
    /\ rpc[r] = "get" /\ queue # << >>
    /\ ritem' = [ritem EXCEPT ![r] = Head(queue)]
    /\ queue' = Tail(queue)
    /\ rpc' = [rpc EXCEPT ![r] = "item"]
    /\ UNCHANGED <<content, cancel, unfinished, feederDone, stop, error,
                   results, mainVars, rdata, rerr>>

GetTimesOut(r) ==
    /\ rpc[r] = "get" /\ queue = << >>
    /\ rpc' = [rpc EXCEPT ![r] = "empty"]
    /\ UNCHANGED <<content, cancel, sharedVars, mainVars, ritem, rdata, rerr>>

\* Fault: an empty queue is taken for the end.
LeaveOnEmpty(r) ==
    /\ rpc[r] = "empty"
    /\ rpc' = [rpc EXCEPT ![r] = "exit"]
    /\ UNCHANGED <<content, cancel, sharedVars, mainVars, ritem, rdata, rerr>>

\* Fault: only a sentinel ends a reader.
WaitForSentinel(r) ==
    /\ rpc[r] = "empty"
    /\ rpc' = [rpc EXCEPT ![r] = "get"]
    /\ UNCHANGED <<content, cancel, sharedVars, mainVars, ritem, rdata, rerr>>

\* After Empty the flags are read; the queue is not looked at again.
LeaveOrWait(r) ==
    /\ rpc[r] = "empty"
    /\ rpc' = [rpc EXCEPT ![r] = IF feederDone \/ stop THEN "exit" ELSE "get"]
    /\ UNCHANGED <<content, cancel, sharedVars, mainVars, ritem, rdata, rerr>>

\* Fault: an item discarded after stop is not accounted for.
DiscardItem(r) ==
    /\ rpc[r] = "item"
    /\ rpc' = [rpc EXCEPT ![r] = IF ritem[r] = Sentinel THEN "done"
                                 ELSE IF stop THEN "get" ELSE "begin"]
    /\ UNCHANGED <<content, cancel, sharedVars, mainVars, ritem, rdata, rerr>>

\* A sentinel, and any item once stop is set, is only accounted for.
TakeItem(r) ==
    /\ rpc[r] = "item"
    /\ rpc' = [rpc EXCEPT ![r] = IF ritem[r] = Sentinel \/ stop THEN "done"
                                                                ELSE "begin"]
    /\ UNCHANGED <<content, cancel, sharedVars, mainVars, ritem, rdata, rerr>>

Raise(r, e) == /\ rerr' = [rerr EXCEPT ![r] = e]
               /\ rpc' = [rpc EXCEPT ![r] = "fail"]

\* _check_cancel, before the read and after it.
CheckCancel(r) ==
    /\ rpc[r] \in {"begin", "read"} /\ (stop \/ cancel)
    /\ stop' = TRUE
    /\ Raise(r, "cancelled")
    /\ UNCHANGED <<content, cancel, queue, unfinished, feederDone, error,
                   results, mainVars, ritem, rdata>>

BeginRead(r) ==
    /\ rpc[r] = "begin" /\ ~stop /\ ~cancel
    /\ rpc' = [rpc EXCEPT ![r] = "reading"]
    /\ UNCHANGED <<content, cancel, sharedVars, mainVars, ritem, rdata, rerr>>

ReadFile(r) ==
    /\ rpc[r] = "reading"
    /\ rdata' = [rdata EXCEPT ![r] = content[ritem[r]]]
    /\ rpc' = [rpc EXCEPT ![r] = "read"]
    /\ UNCHANGED <<content, cancel, sharedVars, mainVars, ritem, rerr>>

\* Fault: the error of a read is swallowed.
ReadErrorIgnored(r) ==
    /\ rpc[r] = "reading"
    /\ rpc' = [rpc EXCEPT ![r] = "done"]
    /\ UNCHANGED <<content, cancel, sharedVars, mainVars, ritem, rdata, rerr>>

\* The file is gone, unreadable or too large.
ReadFails(r) ==
    /\ rpc[r] = "reading"
    /\ Raise(r, "failed")
    /\ UNCHANGED <<content, cancel, sharedVars, mainVars, ritem, rdata>>

StoreResult(r) ==
    /\ rpc[r] = "read" /\ ~stop /\ ~cancel
    /\ results' = [results EXCEPT ![ritem[r]] = rdata[r]]
    /\ rpc' = [rpc EXCEPT ![r] = "done"]
    /\ UNCHANGED <<content, cancel, queue, unfinished, feederDone, stop, error,
                   mainVars, ritem, rdata, rerr>>

\* Fault: stop is set before the error is recorded.
StopThenRecord(r) ==
    /\ rpc[r] = "fail"
    /\ stop' = TRUE
    /\ \/ ~stop /\ UNCHANGED <<error, rpc>>
       \/ stop /\ RecordFirst(rerr[r]) /\ rpc' = [rpc EXCEPT ![r] = "stopping"]
    /\ UNCHANGED <<content, cancel, queue, unfinished, feederDone, results,
                   mainVars, ritem, rdata, rerr>>

\* _fail records the error before it sets stop.
RecordError(r) ==
    /\ rpc[r] = "fail"
    /\ RecordFirst(rerr[r])
    /\ rpc' = [rpc EXCEPT ![r] = "stopping"]
    /\ UNCHANGED <<content, cancel, queue, unfinished, feederDone, stop,
                   results, mainVars, ritem, rdata, rerr>>

SetStop(r) ==
    /\ rpc[r] = "stopping"
    /\ stop' = TRUE
    /\ rpc' = [rpc EXCEPT ![r] = "done"]
    /\ UNCHANGED <<content, cancel, queue, unfinished, feederDone, error,
                   results, mainVars, ritem, rdata, rerr>>

\* The finally clause: whatever was taken out is accounted for.
TaskDone(r) ==
    /\ rpc[r] = "done"
    /\ unfinished' = unfinished - 1
    /\ rpc' = [rpc EXCEPT ![r] = IF ritem[r] = Sentinel THEN "exit" ELSE "get"]
    /\ ritem' = [ritem EXCEPT ![r] = Sentinel]
    /\ rdata' = [rdata EXCEPT ![r] = NotRead]
    /\ rerr' = [rerr EXCEPT ![r] = "none"]
    /\ UNCHANGED <<content, cancel, queue, feederDone, stop, error, results,
                   mainVars>>

ReaderStep(r) == \/ Get(r) \/ GetTimesOut(r) \/ LeaveOrWait(r) \/ TakeItem(r)
                 \/ CheckCancel(r) \/ BeginRead(r) \/ ReadFile(r)
                 \/ ReadFails(r) \/ StoreResult(r) \/ RecordError(r)
                 \/ SetStop(r) \/ TaskDone(r)

-----------------------------------------------------------------------------
Next == \/ Cancel
        \/ \E f \in Files : Edit(f)
        \/ MainStep
        \/ \E r \in Readers : ReaderStep(r)

Spec == Init /\ [][Next]_vars

\* Threads that can run are scheduled, reads end, and timed waits time out.
FairSpec == /\ Spec
            /\ WF_vars(MainStep)
            /\ \A r \in Readers : WF_vars(ReaderStep(r))

-----------------------------------------------------------------------------
(* Properties.                                                             *)

\* The drain protocol: the queue's count of unfinished tasks is what is queued
\* and what readers have in hand, discarded and failed items included.
DrainAccounts ==
    unfinished = Len(queue) + Cardinality({r \in Readers : rpc[r] \in Holding})

\* A snapshot that is returned has the bytes of every admitted file, although
\* readers discard items and leave: no failure is lost on the way.
Complete == mpc = "returned" => \A f \in Files : results[f] # NotRead

\* A run nobody cancelled never reports a cancellation: the failure that made
\* the threads stop is recorded before any of them can see the stop.
CauseReported == error = "cancelled" => cancel

\* No reader thread is left when the call returns or raises, and none leaves
\* while files are still fed and nothing has failed.
ReadersJoined ==
    \A r \in Readers :
        /\ Ended => rpc[r] = "exit"
        /\ (mpc \in {"feed", "put"} /\ ~stop) => rpc[r] # "exit"

\* The caller waits for items no reader is left to take.
Stranded == /\ mpc = "join" /\ unfinished > 0
            /\ \A r \in Readers : rpc[r] = "exit"

\* Every call ends, unless the readers left before the last items came: there
\* is no other way to wait for ever, whatever fails or is cancelled.
EndsOrStrands == (mpc = "start") ~> (Ended \/ Stranded)

=============================================================================

------------------------------- MODULE Watch -------------------------------
(***************************************************************************)
(* The polling watcher (runner/mncs_index/watch.py) over a corpus that is  *)
(* edited and a store that other builds publish into (cmd_build).          *)
(*                                                                         *)
(* The store is its line of generations, each published in one step under  *)
(* compare-and-swap: module Store shows that this is what it implements.   *)
(* A scan of the corpus is one step here; module ConcurrentRead has its    *)
(* threads.  A content is the whole corpus; Hint is what a scan can tell   *)
(* without reading truth, snapshot_id and the number of files.             *)
(***************************************************************************)
EXTENDS Integers, Sequences

CONSTANTS
    Watchers,
    Contents,        \* what the corpus may hold
    Hint,            \* the discovery hint of each content, which may collide
    NoHint,
    QuietPolls,      \* quiet_polls
    ValidateEvery,   \* validate_every
    MaxEdits,        \* bound on the edits of the corpus
    MaxBuilds        \* bound on the builds that other processes start

ASSUME WatchAssumption ==
    /\ QuietPolls \in Nat /\ ValidateEvery \in Nat \ {0}
    /\ MaxEdits \in Nat /\ MaxBuilds \in Nat
    /\ NoHint \notin {Hint[c] : c \in Contents}

VARIABLES
    tree,       \* the content of the corpus
    now,        \* how often it was edited
    line,       \* the published generations; HEAD is the last one
    pc, scan,   \* of each watcher: its place in run, and the corpus it acquired
    lastHint, stable,
    windows,    \* quiet_windows, modulo ValidateEvery
    prev, cand, \* the generation loaded, the corpus of the transaction
    bpc, bbase, bscan, builds,  \* another build: its place, base and scan
    missed      \* of each watcher: quiet windows let pass since HEAD or the corpus
                \* last changed, while they differ

watchVars == <<pc, scan, lastHint, stable, windows, prev, cand>>
buildVars == <<bpc, bbase, bscan, builds>>
vars == <<tree, now, line, watchVars, buildVars, missed>>

Seen == [content |-> tree, at |-> now]   \* what a scan returns
HeadGen == line[Len(line)]
None == [w \in Watchers |-> 0]

Init ==
    /\ tree \in Contents
    /\ now = 0
    /\ line = <<Seen>>                    \* the baseline run demands
    /\ pc = [w \in Watchers |-> "poll"]
    /\ scan = [w \in Watchers |-> Seen]
    /\ lastHint = [w \in Watchers |-> NoHint]
    /\ stable = [w \in Watchers |-> 0]
    /\ windows = [w \in Watchers |-> 0]
    /\ prev = [w \in Watchers |-> 1]
    /\ cand = [w \in Watchers |-> Seen]
    /\ bpc = "idle" /\ bbase = 1 /\ bscan = Seen /\ builds = 0
    /\ missed = None

(* Whoever owns the corpus changes it at any time. *)
Edit(c) ==
    /\ now < MaxEdits /\ c # tree
    /\ tree' = c
    /\ now' = now + 1
    /\ missed' = None
    /\ UNCHANGED <<line, watchVars, buildVars>>

-----------------------------------------------------------------------------
(* One turn of the loop of run: acquire, and count the polls that agree.   *)
Poll(w) ==
    /\ pc[w] = "poll"
    /\ scan' = [scan EXCEPT ![w] = Seen]
    /\ lastHint' = [lastHint EXCEPT ![w] = Hint[tree]]
    /\ LET polls == IF Hint[tree] = lastHint[w] THEN stable[w] + 1 ELSE 0
       IN  /\ stable' = [stable EXCEPT ![w] = IF polls > QuietPolls THEN QuietPolls ELSE polls]
           /\ IF polls >= QuietPolls
              THEN /\ windows' = [windows EXCEPT ![w] = (@ + 1) % ValidateEvery]
                   /\ pc' = [pc EXCEPT ![w] = "load"]
              ELSE UNCHANGED <<windows, pc>>
    /\ UNCHANGED <<tree, now, line, prev, cand, buildVars, missed>>

HintsMoved(w) == Hint[line[prev[w]].content] # Hint[scan[w].content]

\* Fault: only hints that moved start a transaction.
DueNever(w) == FALSE

\* Every ValidateEvery-th quiet window validates whatever the hints say.
Due(w) == windows[w] = 0

(* load_head: the base of the transaction is whatever HEAD names now. *)
LoadHead(w) ==
    /\ pc[w] = "load"
    /\ prev' = [prev EXCEPT ![w] = Len(line)]
    /\ pc' = [pc EXCEPT ![w] = "decide"]
    /\ UNCHANGED <<tree, now, line, scan, lastHint, stable, windows, cand, buildVars, missed>>

(* Unmoved hints in a window that is not due: nothing to do. *)
Skip(w) ==
    /\ pc[w] = "decide" /\ ~HintsMoved(w) /\ ~Due(w)
    /\ pc' = [pc EXCEPT ![w] = "poll"]
    /\ missed' = [missed EXCEPT ![w] =
           IF HeadGen.content # tree /\ @ < ValidateEvery THEN @ + 1 ELSE @]
    /\ UNCHANGED <<tree, now, line, scan, lastHint, stable, windows, prev, cand, buildVars>>

\* Fault: the transaction builds on the corpus that was polled.
TransactPolled(w) ==
    /\ pc[w] = "decide" /\ (HintsMoved(w) \/ Due(w))
    /\ cand' = [cand EXCEPT ![w] = scan[w]]
    /\ pc' = [pc EXCEPT ![w] = "transacted"]
    /\ UNCHANGED <<tree, now, line, scan, lastHint, stable, windows, prev, buildVars, missed>>

(* The incremental transaction acquires the corpus again. *)
Transact(w) ==
    /\ pc[w] = "decide" /\ (HintsMoved(w) \/ Due(w))
    /\ cand' = [cand EXCEPT ![w] = Seen]
    /\ pc' = [pc EXCEPT ![w] = "transacted"]
    /\ UNCHANGED <<tree, now, line, scan, lastHint, stable, windows, prev, buildVars, missed>>

Unchanged(w) == cand[w].content = line[prev[w]].content   \* every verdict is 0

(* A periodic validation that confirmed HEAD publishes nothing. *)
Validated(w) ==
    /\ pc[w] = "transacted" /\ ~HintsMoved(w) /\ Unchanged(w)
    /\ pc' = [pc EXCEPT ![w] = "poll"]
    /\ UNCHANGED <<tree, now, line, scan, lastHint, stable, windows, prev, cand, buildVars, missed>>

ToPublish(w) == pc[w] = "transacted" /\ (HintsMoved(w) \/ ~Unchanged(w))

(* The loop goes on, or returns after max_generations publications. *)
PublishCandidate(w) ==
    /\ ToPublish(w) /\ prev[w] = Len(line)
    /\ line' = Append(line, cand[w])
    /\ missed' = None
    /\ \E next \in {"poll", "done"} : pc' = [pc EXCEPT ![w] = next]
    /\ UNCHANGED <<tree, now, scan, lastHint, stable, windows, prev, cand, buildVars>>

(* StaleGenerationError: drop the candidate and poll from the start. *)
Superseded(w) ==
    /\ ToPublish(w) /\ prev[w] # Len(line)
    /\ lastHint' = [lastHint EXCEPT ![w] = NoHint]
    /\ stable' = [stable EXCEPT ![w] = 0]
    /\ pc' = [pc EXCEPT ![w] = "poll"]
    /\ UNCHANGED <<tree, now, line, scan, windows, prev, cand, buildVars, missed>>

(* stop() is seen at the head of the loop. *)
StopWatcher(w) ==
    /\ pc[w] = "poll"
    /\ pc' = [pc EXCEPT ![w] = "done"]
    /\ UNCHANGED <<tree, now, line, scan, lastHint, stable, windows, prev, cand, buildVars, missed>>

-----------------------------------------------------------------------------
(* cmd_build of another process: read HEAD, scan, publish on that base.    *)
BuildStarts ==
    /\ bpc = "idle" /\ builds < MaxBuilds
    /\ bbase' = Len(line)
    /\ bpc' = "scan"
    /\ builds' = builds + 1
    /\ UNCHANGED <<tree, now, line, watchVars, bscan, missed>>

BuildScans ==
    /\ bpc = "scan"
    /\ bscan' = Seen
    /\ bpc' = "publish"
    /\ UNCHANGED <<tree, now, line, watchVars, bbase, builds, missed>>

(* Published, or stale and dropped. *)
BuildEnds ==
    /\ bpc = "publish"
    /\ bpc' = "idle"
    /\ IF bbase = Len(line)
       THEN line' = Append(line, bscan) /\ missed' = None
       ELSE UNCHANGED <<line, missed>>
    /\ UNCHANGED <<tree, now, watchVars, bbase, bscan, builds>>

WatcherStep(w) ==
    Poll(w) \/ LoadHead(w) \/ Skip(w) \/ Transact(w) \/ Validated(w)
    \/ PublishCandidate(w) \/ Superseded(w)

Next ==
    \/ \E c \in Contents : Edit(c)
    \/ \E w \in Watchers : WatcherStep(w) \/ StopWatcher(w)
    \/ BuildStarts \/ BuildScans \/ BuildEnds

Spec == Init /\ [][Next]_vars

(* A watcher that runs keeps polling; nobody has to edit, build or stop.   *)
FairSpec == Spec /\ \A w \in Watchers : WF_vars(WatcherStep(w))

-----------------------------------------------------------------------------
Scans == [content : Contents, at : 0..MaxEdits]

TypeOK ==
    /\ tree \in Contents /\ now \in 0..MaxEdits
    /\ line \in Seq(Scans) /\ Len(line) > 0
    /\ pc \in [Watchers -> {"poll", "load", "decide", "transacted", "done"}]
    /\ scan \in [Watchers -> Scans]
    /\ lastHint \in [Watchers -> {Hint[c] : c \in Contents} \cup {NoHint}]
    /\ stable \in [Watchers -> 0..QuietPolls]
    /\ windows \in [Watchers -> 0..(ValidateEvery - 1)]
    /\ prev \in [Watchers -> 1..Len(line)]
    /\ cand \in [Watchers -> Scans]
    /\ bpc \in {"idle", "scan", "publish"} /\ builds \in 0..MaxBuilds
    /\ bbase \in 1..Len(line) /\ bscan \in Scans
    /\ missed \in [Watchers -> 0..ValidateEvery]

(* The index never goes back in time: a generation is the corpus as it was *)
(* no earlier than the one before it, whoever published the two, although  *)
(* a watcher decides on an older scan than the one it publishes.           *)
NeverRegresses ==
    \A i \in 1..(Len(line) - 1) : line[i].at <= line[i + 1].at

(* A change that leaves the hints as they were surfaces within a bounded   *)
(* number of quiet windows: fewer than validate_every of them pass over a  *)
(* HEAD that is not the corpus.                                            *)
BackstopBounded == \A w \in Watchers : missed[w] < ValidateEvery

(* Once the corpus is left alone HEAD becomes it and stays so, through     *)
(* hints that collide and publications that others win, as long as a       *)
(* watcher runs.                                                           *)
EventuallyCurrent ==
    <>[](HeadGen.content = tree \/ \A w \in Watchers : pc[w] = "done")
=============================================================================

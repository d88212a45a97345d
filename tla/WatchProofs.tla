----------------------------- MODULE WatchProofs -----------------------------
(***************************************************************************)
(* The watcher for any corpus, hints, number of watchers and periods: no   *)
(* published generation is older than the one before it, and a change that *)
(* the hints hide waits less than validate_every quiet windows.            *)
(***************************************************************************)
EXTENDS Watch, TLAPS

(* What is behind a scan: it never sees the future, and what is about to   *)
(* be published was scanned after its base was.                            *)
ScanInv ==
    /\ \A i \in 1..Len(line) : line[i].at <= now
    /\ \A w \in Watchers : cand[w].at <= now
    /\ \A w \in Watchers : pc[w] = "transacted" => line[prev[w]].at <= cand[w].at
    /\ bscan.at <= now
    /\ bpc = "publish" => line[bbase].at <= bscan.at

(* A quiet window that was let pass has its number still ahead of it: the  *)
(* count starts again only after a transaction, and a transaction that     *)
(* finds HEAD differing from the corpus publishes.                         *)
WindowInvOf(w) ==
    /\ missed[w] < ValidateEvery
    /\ missed[w] > 0 => HeadGen.content # tree
    /\ pc[w] = "poll" => missed[w] <= windows[w]
    /\ pc[w] \in {"load", "decide"} => windows[w] = 0 \/ missed[w] < windows[w]
    /\ pc[w] \in {"decide", "transacted"} /\ missed[w] > 0 => prev[w] = Len(line)
    /\ pc[w] = "transacted" /\ missed[w] > 0 => cand[w].content = tree

-----------------------------------------------------------------------------
(* A quiet window moves on by one, or starts again. *)
LEMMA NextWindow ==
  ASSUME NEW k \in 0..(ValidateEvery - 1)
  PROVE  /\ (k + 1) % ValidateEvery \in 0..(ValidateEvery - 1)
         /\ (k + 1) % ValidateEvery = 0 \/ (k + 1) % ValidateEvery = k + 1
<1>1. ValidateEvery \in Nat /\ ValidateEvery > 0
  BY WatchAssumption
<1>2. CASE k + 1 = ValidateEvery
  <2>1. ValidateEvery % ValidateEvery = 0
    BY <1>1, Z3
  <2>2. QED
    BY <1>1, <1>2, <2>1
<1>3. CASE k + 1 < ValidateEvery
  <2>1. (k + 1) % ValidateEvery = k + 1
    BY <1>1, <1>3, Z3
  <2>2. QED
    BY <1>1, <1>3, <2>1
<1>4. QED
  BY <1>1, <1>2, <1>3

(* The corpus as a scan sees it is a scan. *)
LEMMA SeenType ==
  ASSUME TypeOK
  PROVE  Seen \in Scans /\ Seen.at = now /\ Seen.content = tree
BY DEF TypeOK, Seen, Scans

(* What publishing does to the line. *)
LEMMA Appended ==
  ASSUME TypeOK, NEW g \in Scans, line' = Append(line, g)
  PROVE  /\ line' \in Seq(Scans) /\ Len(line') = Len(line) + 1 /\ Len(line) \in Nat \ {0}
         /\ \A i \in 1..Len(line) : line'[i] = line[i]
         /\ line'[Len(line')] = g
         /\ \A i \in 1..Len(line') : i \in 1..Len(line) \/ i = Len(line')
BY DEF TypeOK

LEMMA TypeStep ==
  ASSUME TypeOK, [Next]_vars
  PROVE  TypeOK'
<1>s. Seen \in Scans /\ Seen.at = now /\ Seen.content = tree
  BY SeenType
<1> USE <1>s, WatchAssumption
<1>0. Len(line) \in Nat \ {0}
  BY DEF TypeOK
<1>1. ASSUME NEW c \in Contents, Edit(c) PROVE TypeOK'
  BY <1>0, <1>1 DEF TypeOK, Edit, watchVars, buildVars, None, Scans
<1>2. ASSUME NEW w \in Watchers, Poll(w) PROVE TypeOK'
  <2>1. (windows[w] + 1) % ValidateEvery \in 0..(ValidateEvery - 1)
    BY NextWindow DEF TypeOK
  <2>2. windows' \in [Watchers -> 0..(ValidateEvery - 1)]
    BY <1>2, <2>1 DEF TypeOK, Poll
  <2>3. stable' \in [Watchers -> 0..QuietPolls]
    BY <1>2 DEF TypeOK, Poll
  <2>4. /\ pc' \in [Watchers -> {"poll", "load", "decide", "transacted", "done"}]
        /\ scan' \in [Watchers -> Scans]
        /\ lastHint' \in [Watchers -> {Hint[c] : c \in Contents} \cup {NoHint}]
    BY <1>2 DEF TypeOK, Poll
  <2>5. QED
    BY <1>2, <2>2, <2>3, <2>4 DEF TypeOK, Poll, buildVars
<1>3. ASSUME NEW w \in Watchers, LoadHead(w) PROVE TypeOK'
  BY <1>0, <1>3 DEF TypeOK, LoadHead, buildVars
<1>4. ASSUME NEW w \in Watchers, Skip(w) PROVE TypeOK'
  <2>1. missed' \in [Watchers -> 0..ValidateEvery]
    BY <1>4 DEF TypeOK, Skip
  <2>2. QED
    BY <1>4, <2>1 DEF TypeOK, Skip, buildVars
<1>5. ASSUME NEW w \in Watchers, Transact(w) PROVE TypeOK'
  BY <1>5 DEF TypeOK, Transact, buildVars
<1>6. ASSUME NEW w \in Watchers, Validated(w) PROVE TypeOK'
  BY <1>6 DEF TypeOK, Validated, buildVars
<1>7. ASSUME NEW w \in Watchers, PublishCandidate(w) PROVE TypeOK'
  <2>1. cand[w] \in Scans /\ line' = Append(line, cand[w])
    BY <1>7 DEF TypeOK, PublishCandidate
  <2>2. line' \in Seq(Scans) /\ Len(line') = Len(line) + 1
    BY <2>1, Appended
  <2>3. pc' \in [Watchers -> {"poll", "load", "decide", "transacted", "done"}]
    BY <1>7 DEF TypeOK, PublishCandidate
  <2>4. missed' \in [Watchers -> 0..ValidateEvery]
    BY <1>7 DEF PublishCandidate, None
  <2>5. prev' \in [Watchers -> 1..Len(line')] /\ bbase' \in 1..Len(line')
    BY <1>0, <1>7, <2>2 DEF TypeOK, PublishCandidate, buildVars
  <2>6. /\ UNCHANGED <<tree, now, scan, lastHint, stable, windows, cand>>
        /\ UNCHANGED <<bpc, bscan, builds>>
    BY <1>7 DEF PublishCandidate, buildVars
  <2>7. QED
    BY <1>0, <2>2, <2>3, <2>4, <2>5, <2>6 DEF TypeOK
<1>8. ASSUME NEW w \in Watchers, Superseded(w) PROVE TypeOK'
  BY <1>8 DEF TypeOK, Superseded, buildVars
<1>9. ASSUME NEW w \in Watchers, StopWatcher(w) PROVE TypeOK'
  BY <1>9 DEF TypeOK, StopWatcher, buildVars
<1>10. CASE BuildStarts
  BY <1>0, <1>10 DEF TypeOK, BuildStarts, watchVars
<1>11. CASE BuildScans
  BY <1>11 DEF TypeOK, BuildScans, watchVars
<1>12. CASE BuildEnds
  <2>1. CASE bbase = Len(line)
    <3>1. bscan \in Scans /\ line' = Append(line, bscan) /\ missed' = None
      BY <1>12, <2>1 DEF TypeOK, BuildEnds
    <3>2. line' \in Seq(Scans) /\ Len(line') = Len(line) + 1
      BY <3>1, Appended
    <3>3. QED
      BY <1>0, <1>12, <3>1, <3>2 DEF TypeOK, BuildEnds, watchVars, None
  <2>2. CASE bbase # Len(line)
    BY <1>12, <2>2 DEF TypeOK, BuildEnds, watchVars
  <2>3. QED
    BY <2>1, <2>2
<1>13. CASE UNCHANGED vars
  BY <1>13 DEF TypeOK, vars, watchVars, buildVars
<1>14. QED
  BY <1>1, <1>2, <1>3, <1>4, <1>5, <1>6, <1>7, <1>8, <1>9, <1>10, <1>11, <1>12, <1>13
     DEF Next, WatcherStep

LEMMA TypeInit ==
  ASSUME Init
  PROVE  TypeOK
<1>1. Seen \in Scans
  BY WatchAssumption DEF Init, Seen, Scans
<1>2. QED
  BY <1>1, WatchAssumption DEF Init, TypeOK, None

(* Every variable of the watchers and the builds keeps its type, whatever  *)
(* the periods and bounds.                                                 *)
THEOREM TypeCorrect == Spec => []TypeOK
BY TypeInit, TypeStep, PTL DEF Spec

-----------------------------------------------------------------------------
LEMMA ScanStep ==
  ASSUME TypeOK, ScanInv, [Next]_vars
  PROVE  ScanInv'
<1>s. Seen \in Scans /\ Seen.at = now /\ Seen.content = tree
  BY SeenType
<1> USE <1>s
<1>0. /\ Len(line) \in Nat \ {0} /\ now \in Nat
      /\ \A i \in 1..Len(line) : line[i].at \in Nat
      /\ \A w \in Watchers : cand[w].at \in Nat /\ prev[w] \in 1..Len(line)
      /\ bscan.at \in Nat /\ bbase \in 1..Len(line)
  <2>1. \A s \in Scans : s.at \in Nat
    BY WatchAssumption DEF Scans
  <2>2. /\ Len(line) \in Nat \ {0} /\ now \in Nat
        /\ \A i \in 1..Len(line) : line[i] \in Scans
        /\ \A w \in Watchers : cand[w] \in Scans /\ prev[w] \in 1..Len(line)
        /\ bscan \in Scans /\ bbase \in 1..Len(line)
    BY WatchAssumption DEF TypeOK
  <2>3. \A i \in 1..Len(line) : line[i].at \in Nat
    BY <2>1, <2>2
  <2>4. bscan.at \in Nat /\ \A w \in Watchers : cand[w].at \in Nat
    BY <2>1, <2>2
  <2>5. QED
    BY <2>2, <2>3, <2>4
<1>1. ASSUME NEW c \in Contents, Edit(c) PROVE ScanInv'
  BY <1>0, <1>1 DEF ScanInv, Edit, watchVars, buildVars
<1>2. ASSUME NEW w \in Watchers, Poll(w) PROVE ScanInv'
  BY <1>2 DEF TypeOK, ScanInv, Poll, buildVars
<1>3. ASSUME NEW w \in Watchers, LoadHead(w) PROVE ScanInv'
  BY <1>3 DEF TypeOK, ScanInv, LoadHead, buildVars
<1>4. ASSUME NEW w \in Watchers, Skip(w) PROVE ScanInv'
  BY <1>4 DEF TypeOK, ScanInv, Skip, buildVars
<1>5. ASSUME NEW w \in Watchers, Transact(w) PROVE ScanInv'
  <2>1. \A v \in Watchers : cand'[v].at <= now
    BY <1>0, <1>5 DEF TypeOK, ScanInv, Transact
  <2>2. ASSUME NEW v \in Watchers, pc'[v] = "transacted"
        PROVE  line[prev[v]].at <= cand'[v].at
    BY <1>0, <1>5, <2>2 DEF TypeOK, ScanInv, Transact
  <2>3. QED
    BY <1>5, <2>1, <2>2 DEF ScanInv, Transact, buildVars
<1>6. ASSUME NEW w \in Watchers, Validated(w) PROVE ScanInv'
  BY <1>6 DEF TypeOK, ScanInv, Validated, buildVars
<1>7. ASSUME NEW w \in Watchers, PublishCandidate(w) PROVE ScanInv'
  <2>1. /\ Len(line') = Len(line) + 1 /\ line'[Len(line')] = cand[w]
        /\ \A i \in 1..Len(line) : line'[i] = line[i]
        /\ \A i \in 1..Len(line') : i \in 1..Len(line) \/ i = Len(line')
    BY <1>7, Appended DEF TypeOK, PublishCandidate
  <2>2. /\ UNCHANGED <<now, cand, prev, buildVars>>
        /\ \A v \in Watchers : pc'[v] = "transacted" => pc[v] = "transacted"
    BY <1>7 DEF TypeOK, PublishCandidate
  <2>3. \A i \in 1..Len(line') : line'[i].at <= now
    BY <1>0, <2>1 DEF ScanInv
  <2>4. QED
    BY <1>0, <2>1, <2>2, <2>3 DEF ScanInv, buildVars
<1>8. ASSUME NEW w \in Watchers, Superseded(w) PROVE ScanInv'
  BY <1>8 DEF TypeOK, ScanInv, Superseded, buildVars
<1>9. ASSUME NEW w \in Watchers, StopWatcher(w) PROVE ScanInv'
  BY <1>9 DEF TypeOK, ScanInv, StopWatcher, buildVars
<1>10. CASE BuildStarts
  BY <1>10 DEF ScanInv, BuildStarts, watchVars
<1>11. CASE BuildScans
  BY <1>0, <1>11 DEF ScanInv, BuildScans, watchVars
<1>12. CASE BuildEnds
  <2>1. CASE bbase = Len(line)
    <3>1. /\ Len(line') = Len(line) + 1 /\ line'[Len(line')] = bscan
          /\ \A i \in 1..Len(line) : line'[i] = line[i]
          /\ \A i \in 1..Len(line') : i \in 1..Len(line) \/ i = Len(line')
      BY <1>12, <2>1, Appended DEF TypeOK, BuildEnds
    <3>2. \A i \in 1..Len(line') : line'[i].at <= now
      BY <1>0, <3>1 DEF ScanInv
    <3>3. QED
      BY <1>0, <1>12, <3>1, <3>2 DEF ScanInv, BuildEnds, watchVars
  <2>2. CASE bbase # Len(line)
    BY <1>12, <2>2 DEF ScanInv, BuildEnds, watchVars
  <2>3. QED
    BY <2>1, <2>2
<1>13. CASE UNCHANGED vars
  BY <1>13 DEF ScanInv, vars, watchVars, buildVars
<1>14. QED
  BY <1>1, <1>2, <1>3, <1>4, <1>5, <1>6, <1>7, <1>8, <1>9, <1>10, <1>11, <1>12, <1>13
     DEF Next, WatcherStep

(* A step leaves the line in order: only a publication changes it, and it  *)
(* appends a scan that is not older than the last generation.              *)
LEMMA LineStep ==
  ASSUME TypeOK, ScanInv, NeverRegresses, [Next]_vars
  PROVE  NeverRegresses'
<1>0. Len(line) \in Nat \ {0}
  BY DEF TypeOK
<1>1. ASSUME NEW g \in Scans, line' = Append(line, g), line[Len(line)].at <= g.at
      PROVE  NeverRegresses'
  <2>1. /\ Len(line') = Len(line) + 1 /\ line'[Len(line')] = g
        /\ \A i \in 1..Len(line) : line'[i] = line[i]
    BY <1>1, Appended
  <2>2. ASSUME NEW i \in 1..(Len(line') - 1)
        PROVE  line'[i].at <= line'[i + 1].at
    <3>1. CASE i = Len(line)
      BY <1>0, <1>1, <2>1, <3>1
    <3>2. CASE i < Len(line)
      BY <1>0, <2>1, <3>2 DEF NeverRegresses
    <3>3. QED
      BY <1>0, <2>1, <3>1, <3>2
  <2>3. QED
    BY <2>2 DEF NeverRegresses
<1>2. ASSUME NEW w \in Watchers, PublishCandidate(w)
      PROVE  NeverRegresses'
  BY <1>1, <1>2 DEF TypeOK, ScanInv, PublishCandidate, ToPublish
<1>3. CASE BuildEnds /\ bbase = Len(line)
  BY <1>1, <1>3 DEF TypeOK, ScanInv, BuildEnds
<1>4. CASE UNCHANGED line
  BY <1>4 DEF NeverRegresses
<1>5. QED
  BY <1>2, <1>3, <1>4 DEF Next, WatcherStep, Edit, Poll, LoadHead, Skip, Transact, Validated,
     Superseded, StopWatcher, BuildStarts, BuildScans, BuildEnds, vars

(* Whoever publishes, on whatever scan it decided, no generation is older  *)
(* than the one before it.                                                 *)
THEOREM GenerationsAdvance == Spec => []NeverRegresses
<1>1. ASSUME Init
      PROVE  ScanInv /\ NeverRegresses
  BY <1>1, SeenType, TypeInit DEF Init, ScanInv, NeverRegresses, Seen
<1>2. TypeOK /\ ScanInv /\ NeverRegresses /\ [Next]_vars => (ScanInv /\ NeverRegresses)'
  BY ScanStep, LineStep
<1>3. QED
  BY <1>1, <1>2, TypeCorrect, PTL DEF Spec

-----------------------------------------------------------------------------
(* Whenever the corpus or HEAD changes the count starts again. *)
LEMMA StartsAgain ==
  ASSUME TypeOK', missed' = None, NEW w \in Watchers
  PROVE  WindowInvOf(w)'
<1>1. missed'[w] = 0 /\ windows'[w] \in Nat /\ ValidateEvery \in Nat \ {0}
  BY WatchAssumption DEF TypeOK, None
<1>2. QED
  BY <1>1 DEF WindowInvOf

(* A step of one watcher leaves what is said of the others. *)
LEMMA OthersKeep ==
  ASSUME NEW w \in Watchers, NEW v \in Watchers, WindowInvOf(v),
         UNCHANGED <<tree, line>>,
         pc'[v] = pc[v], windows'[v] = windows[v], prev'[v] = prev[v],
         cand'[v] = cand[v], missed'[v] = missed[v]
  PROVE  WindowInvOf(v)'
BY DEF WindowInvOf, HeadGen

LEMMA WindowStep ==
  ASSUME TypeOK, TypeOK', \A w \in Watchers : WindowInvOf(w), [Next]_vars
  PROVE  \A w \in Watchers : WindowInvOf(w)'
<1> SUFFICES ASSUME NEW v \in Watchers
             PROVE  WindowInvOf(v)'
  OBVIOUS
<1>0. /\ WindowInvOf(v)
      /\ missed[v] \in Nat /\ windows[v] \in 0..(ValidateEvery - 1)
      /\ ValidateEvery \in Nat \ {0}
      /\ Len(line) \in Nat \ {0} /\ prev[v] \in 1..Len(line)
  BY WatchAssumption DEF TypeOK
<1>1. CASE missed' = None
  BY <1>1, StartsAgain
<1>2. ASSUME NEW w \in Watchers, Poll(w) PROVE WindowInvOf(v)'
  <2>1. CASE v # w
    BY <1>2, <2>1, OthersKeep DEF TypeOK, Poll
  <2>2. CASE v = w /\ pc'[v] = "load"
    <3>1. /\ pc[v] = "poll" /\ UNCHANGED <<tree, line, missed>>
          /\ windows'[v] = (windows[v] + 1) % ValidateEvery
      BY <1>2, <2>2 DEF TypeOK, Poll
    <3>2. windows'[v] = 0 \/ windows'[v] = windows[v] + 1
      BY <1>0, <3>1, NextWindow
    <3>3. QED
      BY <1>0, <2>2, <3>1, <3>2 DEF WindowInvOf, HeadGen
  <2>3. CASE v = w /\ pc'[v] # "load"
    <3>1. UNCHANGED <<tree, line, missed, windows, pc>> /\ pc[v] = "poll"
      BY <1>2, <2>3 DEF TypeOK, Poll
    <3>2. QED
      BY <1>0, <3>1 DEF WindowInvOf, HeadGen
  <2>4. QED
    BY <2>1, <2>2, <2>3
<1>3. ASSUME NEW w \in Watchers, LoadHead(w) PROVE WindowInvOf(v)'
  <2>1. CASE v # w
    BY <1>3, <2>1, OthersKeep DEF TypeOK, LoadHead
  <2>2. CASE v = w
    BY <1>0, <1>3, <2>2 DEF TypeOK, LoadHead, WindowInvOf, HeadGen
  <2>3. QED
    BY <2>1, <2>2
<1>4. ASSUME NEW w \in Watchers, Skip(w) PROVE WindowInvOf(v)'
  <2>1. CASE v # w
    BY <1>4, <2>1, OthersKeep DEF TypeOK, Skip
  <2>2. CASE v = w
    <3>1. /\ pc[v] = "decide" /\ pc'[v] = "poll" /\ windows[v] # 0
          /\ UNCHANGED <<tree, line, windows>>
          /\ missed'[v] = missed[v] \/ (missed'[v] = missed[v] + 1 /\ HeadGen.content # tree)
      BY <1>4, <2>2 DEF TypeOK, Skip, Due
    <3>2. QED
      BY <1>0, <3>1 DEF WindowInvOf, HeadGen
  <2>3. QED
    BY <2>1, <2>2
<1>5. ASSUME NEW w \in Watchers, Transact(w) PROVE WindowInvOf(v)'
  <2>1. CASE v # w
    BY <1>5, <2>1, OthersKeep DEF TypeOK, Transact
  <2>2. CASE v = w
    <3>1. /\ pc[v] = "decide" /\ pc'[v] = "transacted" /\ cand'[v] = Seen
          /\ UNCHANGED <<tree, line, windows, missed, prev>>
      BY <1>5, <2>2 DEF TypeOK, Transact
    <3>2. QED
      BY <1>0, <3>1, SeenType DEF WindowInvOf, HeadGen
  <2>3. QED
    BY <2>1, <2>2
<1>6. ASSUME NEW w \in Watchers, Validated(w) PROVE WindowInvOf(v)'
  <2>1. CASE v # w
    BY <1>6, <2>1, OthersKeep DEF TypeOK, Validated
  <2>2. CASE v = w
    <3>1. /\ pc[v] = "transacted" /\ pc'[v] = "poll"
          /\ cand[v].content = line[prev[v]].content
          /\ UNCHANGED <<tree, line, windows, missed>>
      BY <1>6, <2>2 DEF TypeOK, Validated, Unchanged
    <3>2. missed[v] = 0
      BY <1>0, <3>1 DEF WindowInvOf, HeadGen
    <3>3. QED
      BY <1>0, <3>1, <3>2 DEF WindowInvOf
  <2>3. QED
    BY <2>1, <2>2
<1>7. ASSUME NEW w \in Watchers, Superseded(w) PROVE WindowInvOf(v)'
  <2>1. CASE v # w
    BY <1>7, <2>1, OthersKeep DEF TypeOK, Superseded
  <2>2. CASE v = w
    <3>1. /\ pc[v] = "transacted" /\ pc'[v] = "poll" /\ prev[v] # Len(line)
          /\ UNCHANGED <<tree, line, windows, missed>>
      BY <1>7, <2>2 DEF TypeOK, Superseded, ToPublish
    <3>2. missed[v] = 0
      BY <1>0, <3>1 DEF WindowInvOf
    <3>3. QED
      BY <1>0, <3>1, <3>2 DEF WindowInvOf
  <2>3. QED
    BY <2>1, <2>2
<1>8. ASSUME NEW w \in Watchers, StopWatcher(w) PROVE WindowInvOf(v)'
  <2>1. CASE v # w
    BY <1>8, <2>1, OthersKeep DEF TypeOK, StopWatcher
  <2>2. CASE v = w
    BY <1>0, <1>8, <2>2 DEF TypeOK, StopWatcher, WindowInvOf, HeadGen
  <2>3. QED
    BY <2>1, <2>2
<1>9. CASE UNCHANGED <<watchVars, line, tree, missed>>
  BY <1>0, <1>9 DEF WindowInvOf, HeadGen, watchVars
<1>10. QED
  BY <1>1, <1>2, <1>3, <1>4, <1>5, <1>6, <1>7, <1>8, <1>9
     DEF Next, WatcherStep, Edit, PublishCandidate, BuildStarts, BuildScans, BuildEnds, vars

(* A change that leaves the hints as they were is let pass in fewer than   *)
(* validate_every quiet windows, however often HEAD is taken over by       *)
(* others.                                                                 *)
THEOREM BackstopHolds == Spec => []BackstopBounded
<1> DEFINE WindowInv == \A w \in Watchers : WindowInvOf(w)
<1>1. Init => WindowInv
  <2> SUFFICES ASSUME Init, NEW w \in Watchers
               PROVE  WindowInvOf(w)
    OBVIOUS
  <2>1. missed[w] = 0 /\ windows[w] = 0 /\ pc[w] = "poll"
    BY DEF Init, None
  <2>2. QED
    BY <2>1, WatchAssumption DEF WindowInvOf
<1>2. TypeOK /\ TypeOK' /\ WindowInv /\ [Next]_vars => WindowInv'
  BY WindowStep
<1>3. WindowInv => BackstopBounded
  BY DEF WindowInvOf, BackstopBounded
<1>4. QED
  BY <1>1, <1>2, <1>3, TypeCorrect, PTL DEF Spec
=============================================================================

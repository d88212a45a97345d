--------------------------- MODULE StoreFeedProofs ---------------------------
(***************************************************************************)
(* What the derived relation index promises, for any number of identities  *)
(* and generations and any delivery of the commits.                        *)
(***************************************************************************)
EXTENDS StoreFeed, WellFoundedInduction, TLAPS

Indices == [relations : [Identities -> Nat], through : Nat, seen : Nat]

(* The rows of an index that accepted the generations in S.                *)
RowsOf(rows, S) ==
    \A id \in Identities :
        \/ rows[id] = 0 /\ \A g \in S : id \notin commits[g]
        \/ /\ rows[id] \in S /\ id \in commits[rows[id]]
           /\ \A g \in S : id \in commits[g] => g <= rows[id]

(* What an index is when it accepted the generations in S and nothing was  *)
(* observed since.                                                         *)
Projects(ix, S) ==
    /\ ix \in Indices
    /\ RowsOf(ix.relations, S)
    /\ \A g \in S : g <= ix.through
    /\ ix.through \in S \cup {0}

(* The head an index was told of is the one it reports, and it never is    *)
(* ahead of it.                                                            *)
FeedInv ==
    /\ commits \in Seq(SUBSET Identities)
    /\ accepted \subseteq Committed
    /\ Projects(Index, accepted)
    /\ through <= seen
    /\ told = seen

-----------------------------------------------------------------------------
(* Induction over the positions of a list. *)

LEMMA Induction ==
  ASSUME NEW S \in SUBSET Nat, 0 \in S, \A n \in S : n + 1 \in S
  PROVE  S = Nat
<1> DEFINE T == Nat \ S
<1>1. SUFFICES ASSUME T # {} PROVE FALSE
  OBVIOUS
<1>2. PICK x \in T : \A y \in T : ~ (<<y, x>> \in OpToRel(<, Nat))
  <2> HIDE DEF T
  <2>1. T \subseteq Nat
    BY DEF T
  <2>2. QED
    BY <1>1, <2>1, NatLessThanWellFounded, WFMin
<1>3. x \in Nat /\ x # 0 /\ x - 1 \in Nat /\ x - 1 < x
  OBVIOUS
<1>4. <<x - 1, x>> \in OpToRel(<, Nat)
  BY <1>3 DEF OpToRel
<1>5. x - 1 \in S
  BY <1>2, <1>3, <1>4
<1>6. QED
  BY <1>3, <1>5

(* A loop over a list has a state after each of its elements.              *)
LoopOf(f, S, start, n, step) ==
    f \in [0..n -> S] /\ f[0] = start /\ \A i \in 1..n : f[i] = step[i][f[i - 1]]

LEMMA LoopStates ==
  ASSUME NEW S, NEW start \in S, NEW n \in Nat, NEW step \in [1..n -> [S -> S]]
  PROVE  \E f : LoopOf(f, S, start, n, step)
<1> DEFINE Good(g, k) == /\ g \in [0..k -> S] /\ g[0] = start
                         /\ \A i \in 1..k : g[i] = step[i][g[i - 1]]
           D == {k \in Nat : k <= n => \E g \in [0..k -> S] : Good(g, k)}
<1>1. 0 \in D
  <2>1. Good([i \in 0..0 |-> start], 0)
    OBVIOUS
  <2>2. QED
    BY <2>1
<1>2. ASSUME NEW k \in D PROVE k + 1 \in D
  <2>1. SUFFICES ASSUME k + 1 <= n PROVE \E g \in [0..(k+1) -> S] : Good(g, k+1)
    OBVIOUS
  <2>2. PICK g : Good(g, k)
    BY <1>2, <2>1
  <2> DEFINE h == [i \in 0..(k + 1) |-> IF i = k + 1 THEN step[k + 1][g[k]] ELSE g[i]]
  <2>3. h \in [0..(k+1) -> S]
    BY <2>1, <2>2
  <2>4. Good(h, k + 1)
    BY <2>1, <2>2, <2>3
  <2>5. QED
    BY <2>3, <2>4
<1>3. D = Nat
  <2> HIDE DEF D
  <2>1. D \in SUBSET Nat
    BY DEF D
  <2>2. QED
    BY <1>1, <1>2, <2>1, Induction
<1>4. n \in D
  BY <1>3
<1>5. QED
  BY <1>4 DEF LoopOf

-----------------------------------------------------------------------------
LEMMA Nothings == commits \in Seq(SUBSET Identities) => Projects(Nothing, {})
BY DEF Projects, Indices, Nothing, RowsOf

(* Accepting a generation that is not older than any before it.            *)
LEMMA AcceptProjects ==
  ASSUME commits \in Seq(SUBSET Identities), NEW ix, NEW S \in SUBSET Committed,
         Projects(ix, S), NEW g \in Committed, g >= ix.through
  PROVE  /\ Projects(Accept(ix, g), S \cup {g})
         /\ Accept(ix, g).through = g
         /\ Accept(ix, g).seen = Larger(ix.seen, g)
<1> DEFINE new == Accept(ix, g)
<1>1. g \in Nat /\ Committed \subseteq Nat /\ ix \in Indices
  BY DEF Committed, Projects
<1>2. /\ new \in Indices /\ new.through = g /\ new.seen = Larger(ix.seen, g)
      /\ new.relations = [i \in Identities |-> IF i \in commits[g] THEN g ELSE ix.relations[i]]
  BY <1>1 DEF Accept, Indices, Larger
<1>3. \A h \in S : h <= g
  BY <1>1 DEF Projects, Indices
<1>4. RowsOf(new.relations, S \cup {g})
  <2>1. SUFFICES ASSUME NEW id \in Identities
                 PROVE  \/ new.relations[id] = 0 /\ \A h \in S \cup {g} : id \notin commits[h]
                        \/ /\ new.relations[id] \in S \cup {g} /\ id \in commits[new.relations[id]]
                           /\ \A h \in S \cup {g} : id \in commits[h] => h <= new.relations[id]
    BY DEF RowsOf
  <2>2. CASE id \in commits[g]
    BY <1>1, <1>2, <1>3, <2>2
  <2>3. CASE id \notin commits[g]
    BY <1>2, <2>3 DEF Projects, RowsOf
  <2>4. QED
    BY <2>2, <2>3
<1>5. QED
  BY <1>1, <1>2, <1>3, <1>4 DEF Projects

(* After each position of the sorted list, the loop of rebuild has an      *)
(* index of the commits so far that heard of nothing else.                 *)
LEMMA AcceptingProjects ==
  ASSUME commits \in Seq(SUBSET Identities), NEW n \in Nat, NEW list \in [1..n -> Committed],
         Len(list) = n, \A i, j \in 1..n : i < j => list[i] <= list[j]
  PROVE  \A k \in 0..n : /\ Projects(Accepting(list)[k], {list[i] : i \in 1..k})
                         /\ Accepting(list)[k].seen = Accepting(list)[k].through
<1> DEFINE step == [i \in 1..n |-> [ix \in Indices |-> Accept(ix, list[i])]]
           run == CHOOSE f : f = [i \in 0..n |-> IF i = 0 THEN Nothing ELSE Accept(f[i - 1], list[i])]
           Upto(k) == {list[i] : i \in 1..k}
           D == {k \in Nat : k <= n => /\ Projects(run[k], Upto(k))
                                       /\ run[k].seen = run[k].through}
<1>1. \A ix \in Indices, i \in 1..n : Accept(ix, list[i]) \in Indices
  BY DEF Accept, Indices, Committed, Larger
<1>2. step \in [1..n -> [Indices -> Indices]]
  BY <1>1
<1>3. Nothing \in Indices
  BY DEF Nothing, Indices
<1>4. PICK f : LoopOf(f, Indices, Nothing, n, step)
  <2> HIDE DEF step, run, D, Upto
  <2>1. QED
    BY <1>2, <1>3, LoopStates
<1>5. f = [i \in 0..n |-> IF i = 0 THEN Nothing ELSE Accept(f[i - 1], list[i])]
  <2>1. \A i \in 1..n : f[i] = Accept(f[i - 1], list[i])
    BY <1>4 DEF LoopOf
  <2>2. QED
    BY <1>4, <2>1 DEF LoopOf
<1>6. run = [i \in 0..n |-> IF i = 0 THEN Nothing ELSE Accept(run[i - 1], list[i])]
  BY <1>5
<1>7. run[0] = Nothing /\ \A i \in 1..n : run[i] = Accept(run[i - 1], list[i])
  <2> HIDE DEF run
  <2>1. QED
    BY <1>6
<1>8. run = Accepting(list)
  BY DEF Accepting
<1>9. D = Nat
  <2> HIDE DEF run
  <2>1. 0 \in D
    <3>1. Projects(run[0], {}) /\ run[0].seen = run[0].through
      BY <1>7, Nothings DEF Nothing
    <3>2. Upto(0) = {}
      OBVIOUS
    <3>3. QED
      BY <3>1, <3>2
  <2>2. ASSUME NEW k \in D PROVE k + 1 \in D
    <3>1. SUFFICES ASSUME k + 1 <= n
                   PROVE  Projects(run[k + 1], Upto(k + 1)) /\ run[k + 1].seen = run[k + 1].through
      OBVIOUS
    <3> DEFINE before == run[k]
               g == list[k + 1]
               S == Upto(k)
    <3>2. Projects(before, S) /\ before.seen = before.through
      BY <2>2, <3>1
    <3>3. run[k + 1] = Accept(before, g) /\ g \in Committed
      BY <1>7, <3>1
    <3>4. S \in SUBSET Committed /\ \A h \in S : h <= g
      BY <3>1
    <3>5. Upto(k + 1) = S \cup {g}
      BY <3>1
    <3>6. Committed \subseteq Nat
      BY DEF Committed
    <3> HIDE DEF before, g, S, D, step, Upto
    <3>7. before.through \in S \cup {0} /\ before.through \in Nat /\ before.seen \in Nat
      BY <3>2 DEF Projects, Indices
    <3>8. g >= before.through
      BY <3>3, <3>4, <3>6, <3>7
    <3>9. /\ Projects(Accept(before, g), S \cup {g})
          /\ Accept(before, g).through = g
          /\ Accept(before, g).seen = Larger(before.seen, g)
      BY <3>2, <3>3, <3>4, <3>8, AcceptProjects
    <3>10. Larger(before.seen, g) = g
      BY <3>2, <3>3, <3>6, <3>7, <3>8 DEF Larger
    <3>11. QED
      BY <3>3, <3>5, <3>9, <3>10
  <2>3. D \in SUBSET Nat
    OBVIOUS
  <2> HIDE DEF D
  <2>4. QED
    BY <2>1, <2>2, <2>3, Induction
<1>10. \A k \in 0..n : k \in D
  <2> HIDE DEF D
  <2>1. QED
    BY <1>9
<1>11. QED
  <2> HIDE DEF run
  <2>1. ASSUME NEW k \in 0..n PROVE Projects(run[k], Upto(k)) /\ run[k].seen = run[k].through
    <3> HIDE DEF Upto, step
    <3>1. k \in D
      BY <1>10
    <3>2. QED
      BY <3>1
  <2>2. QED
    BY <1>8, <2>1

-----------------------------------------------------------------------------
LEMMA FeedInit == Init => FeedInv
<1> SUFFICES ASSUME Init PROVE FeedInv
  OBVIOUS
<1>1. commits \in Seq(SUBSET Identities) /\ Index = Nothing
  BY DEF Init, Index, Nothing
<1>2. QED
  BY <1>1, Nothings DEF Init, FeedInv

LEMMA FeedStep == FeedInv /\ [Next]_vars => FeedInv'
<1> SUFFICES ASSUME FeedInv, [Next]_vars PROVE FeedInv'
  OBVIOUS
<1>0. /\ Index \in Indices /\ relations \in [Identities -> Nat] /\ through \in Nat /\ seen \in Nat
      /\ Committed \subseteq Nat /\ commits \in Seq(SUBSET Identities)
  BY DEF FeedInv, Projects, Indices, Index, Committed
<1>1. ASSUME NEW ids \in SUBSET Identities, Commit(ids) PROVE FeedInv'
  <2>1. /\ commits' \in Seq(SUBSET Identities) /\ Committed \subseteq Committed'
        /\ \A g \in Committed : commits'[g] = commits[g]
    BY <1>0, <1>1 DEF Commit, Committed
  <2>2. RowsOf(relations, accepted)'
    BY <1>0, <1>1, <2>1 DEF RowsOf, FeedInv, Projects, Index, Commit, index
  <2>3. QED
    BY <1>0, <1>1, <2>1, <2>2 DEF FeedInv, Projects, Index, Commit, index
<1>2. ASSUME NEW g \in Committed, Apply(g) PROVE FeedInv'
  <2>1. /\ Index' = Accept(Index, g) /\ accepted' = accepted \cup {g} /\ commits' = commits
        /\ told' = Larger(told, g)
    BY <1>2 DEF Apply, Become, Index, Accept
  <2>2. g >= Index.through /\ g \in Nat
    BY <1>0, <1>2 DEF Apply, Advances, Index
  <2>3. /\ Projects(Accept(Index, g), accepted \cup {g}) /\ Accept(Index, g).through = g
        /\ Accept(Index, g).seen = Larger(seen, g)
    BY <1>0, <2>2, AcceptProjects DEF FeedInv, Index
  <2>4. Projects(Index, accepted)'
    BY <2>1, <2>3 DEF Projects, RowsOf
  <2>5. through' = g /\ seen' = Larger(seen, g)
    BY <2>1, <2>3 DEF Index
  <2>6. QED
    BY <1>0, <2>1, <2>2, <2>4, <2>5 DEF FeedInv, Committed, Larger
<1>3. ASSUME NEW n \in 0..MaxGen, NEW given \in [1..n -> Committed], Rebuild(given) PROVE FeedInv'
  <2>1. n \in Nat /\ Len(given) = n /\ DOMAIN given = 1..n
    BY FeedAssumption
  <2>2. PICK list : list \in Sorted(given) /\ Become(Accepting(list)[Len(list)])
    BY <1>3 DEF Rebuild
  <2>3. PICK p : p \in Orders(n) /\ list = [i \in 1..n |-> given[p[i]]]
    BY <2>1, <2>2 DEF Sorted
  <2>4. /\ list \in [1..n -> Committed] /\ Len(list) = n
        /\ \A i, j \in 1..n : i < j => list[i] <= list[j]
    <3>1. p \in [1..n -> 1..n]
      BY <2>3 DEF Orders
    <3>2. list \in [1..n -> Committed]
      BY <2>3, <3>1
    <3>3. QED
      BY <2>1, <2>2, <3>2 DEF Sorted
  <2> DEFINE new == Accepting(list)[n]
             given_to == {given[i] : i \in 1..n}
  <2>5. {list[i] : i \in 1..n} = given_to
    BY <2>3 DEF Orders
  <2>6. Projects(new, given_to) /\ new.seen = new.through
    <3>1. \A k \in 0..n : /\ Projects(Accepting(list)[k], {list[i] : i \in 1..k})
                         /\ Accepting(list)[k].seen = Accepting(list)[k].through
      BY <1>0, <2>1, <2>4, AcceptingProjects
    <3>2. n \in 0..n
      BY <2>1
    <3> HIDE DEF given_to
    <3>3. QED
      BY <2>5, <3>1, <3>2
  <2>7. /\ Index' = new /\ accepted' = given_to /\ commits' = commits
        /\ told' = Newest(given_to \cup {0})
    <3> HIDE DEF given_to, new
    <3>1. Index' = new
      BY <2>2, <2>4, <2>6 DEF new, Become, Index, Projects, Indices
    <3>2. QED
      BY <1>3, <2>1, <3>1 DEF Rebuild, given_to
  <2>8. given_to \subseteq Committed /\ given_to \subseteq Nat
    BY <1>0
  <2> HIDE DEF given_to, new
  <2>9. told' = new.through
    <3>1. /\ new.through \in given_to \cup {0} /\ new.through \in Nat
          /\ \A h \in given_to \cup {0} : h <= new.through
      BY <2>6, <2>8 DEF Projects, Indices
    <3>2. \A g \in given_to \cup {0} : (\A h \in given_to \cup {0} : h <= g) => g = new.through
      BY <2>8, <3>1
    <3>3. QED
      BY <2>7, <3>1, <3>2 DEF Newest
  <2>10. Projects(Index, accepted)'
    BY <2>6, <2>7 DEF Projects, RowsOf
  <2>11. through' = new.through /\ seen' = new.through /\ new.through \in Nat
    BY <2>6, <2>7 DEF Index, Projects, Indices
  <2>12. QED
    BY <1>0, <2>7, <2>8, <2>9, <2>10, <2>11 DEF FeedInv, Committed
<1>4. ASSUME NEW g \in Committed, Observe(g) PROVE FeedInv'
  <2>1. QED
    BY <1>0, <1>4 DEF Observe, FeedInv, Index, Projects, RowsOf, Indices, Committed, Larger
<1>5. CASE Destroy
  <2>1. Index' = Nothing /\ commits' = commits
    BY <1>5 DEF Destroy, Become, Index, Nothing
  <2>2. QED
    BY <1>0, <1>5, <2>1, Nothings DEF Destroy, FeedInv, Projects, RowsOf, Nothing, Become
<1>6. CASE UNCHANGED vars
  BY <1>6 DEF vars, index, FeedInv, Index, Projects, RowsOf, Committed
<1>7. QED
  BY <1>1, <1>2, <1>3, <1>4, <1>5, <1>6 DEF Next

LEMMA FeedTyped == FeedInv => /\ accepted \subseteq Nat /\ relations \in [Identities -> Nat]
                             /\ through \in Nat /\ seen \in Nat
BY DEF FeedInv, Projects, Indices, Index, Committed

THEOREM FeedInductive == Spec => []FeedInv
BY FeedInit, FeedStep, PTL DEF Spec

(* However the feed lost, repeated or reordered its commits, the rows of   *)
(* the index are those of the commits it accepted (apply, rebuild).        *)
THEOREM RowsAlwaysOfAccepted == Spec => []RowsOfAccepted
<1>1. FeedInv => RowsOfAccepted
  <2> SUFFICES ASSUME FeedInv PROVE RowsOfAccepted
    OBVIOUS
  <2>1. accepted \subseteq Committed /\ RowsOf(relations, accepted)
    BY DEF FeedInv, Projects, Index
  <2>2. ASSUME NEW id \in Identities
        PROVE  LET writers == {g \in accepted : id \in commits[g]}
               IN  relations[id] = IF writers = {} THEN 0 ELSE Newest(writers)
    <3> DEFINE writers == {g \in accepted : id \in commits[g]}
    <3>1. CASE writers = {}
      BY <2>1, <3>1 DEF RowsOf
    <3>2. CASE writers # {}
      <4>1. relations[id] \in writers /\ \A g \in writers : g <= relations[id]
        BY <2>1, <3>2 DEF RowsOf
      <4>2. \A g \in writers : (\A h \in writers : h <= g) => g = relations[id]
        BY <4>1, FeedTyped
      <4>3. QED
        BY <3>2, <4>1, <4>2 DEF Newest
    <3>3. QED
      BY <3>1, <3>2
  <2>3. QED
    BY <2>1, <2>2 DEF RowsOfAccepted
<1>2. QED
  BY <1>1, FeedInductive, PTL

(* The freshness label of the index is honest: complete only through the   *)
(* newest generation it heard of, and never from the future.               *)
THEOREM NeverEverPretends == Spec => []NeverPretends
<1>1. FeedInv => NeverPretends
  BY FeedTyped DEF FeedInv, NeverPretends, Freshness
<1>2. QED
  BY <1>1, FeedInductive, PTL
=============================================================================

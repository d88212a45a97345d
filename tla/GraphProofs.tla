----------------------------- MODULE GraphProofs -----------------------------
(***************************************************************************)
(* The walks of Graph for every snapshot, call and bound: nothing is        *)
(* gathered without a cause, nothing is missed in silence, and the node     *)
(* budget holds over all the walks of a call together.                      *)
(***************************************************************************)
EXTENDS Graph, FiniteSetTheorems, SequenceTheorems, WellFoundedInduction, TLAPS

Entries == [node : Nodes, depth : Nat]

\* The nodes that wait in a frontier.
Waiting(f) == {f[i].node : i \in 1..Len(f)}

Cause(C) == C \in SUBSET Nodes /\ Starts \subseteq C /\ Closed(C)

\* Nothing the call holds lies outside a closed set around its starts.
SoundFor(C) ==
    /\ visited \subseteq C /\ pending \subseteq C /\ Waiting(frontier) \subseteq C
    /\ emitted \subseteq FilesOf(C)
    /\ affected \subseteq query.ids \cup FilesOf(C)

\* A closed set accounts for the walks that have ended, the visited nodes for
\* the one under way; what was visited has its neighbours visited, pending or
\* still to be tried, unless the walk is cut.
WalkInv ==
    /\ FilesOf(visited) \subseteq emitted \cup query.ids
    /\ ~cut => \A v \in visited :
                  Neighbours(v) \subseteq visited \cup pending \/ v \in Waiting(frontier)

Begun == query.ids \ todo
BegunStarts == {StartOf(id) : id \in Begun}

CoveredBy(C, extra) ==
    /\ C \in SUBSET Nodes /\ Closed(C)
    /\ BegunStarts \subseteq C \cup extra
    /\ FilesOf(C) \subseteq affected \cup query.ids

CompleteInv ==
    /\ phase = "done" => todo = {}
    /\ phase \in {"next", "done"} /\ ~truncated => \E C : CoveredBy(C, {})
    /\ phase \in {"seed", "walk"} =>
          /\ WalkInv
          /\ ~truncated => \E C : CoveredBy(C, visited)

\* What is gathered and what the walk under way may still add stay in the bound.
Gathered == Cardinality(affected) - Cardinality(query.ids)

CapInv ==
    /\ query.ids \subseteq affected
    /\ Gathered <= maxNodes
    /\ phase \in {"seed", "walk"} =>
          Cardinality(emitted) <= budget /\ Gathered + budget <= maxNodes

-----------------------------------------------------------------------------
(* Sequences and neighbours. *)

LEMMA Pushed ==
  ASSUME NEW f \in Seq(Entries), NEW e \in Entries
  PROVE  /\ Append(f, e) \in Seq(Entries)
         /\ Waiting(Append(f, e)) = Waiting(f) \cup {e.node}
<1>1. /\ Append(f, e) \in Seq(Entries) /\ Len(Append(f, e)) = Len(f) + 1
      /\ \A i \in 1..Len(f) : Append(f, e)[i] = f[i]
      /\ Append(f, e)[Len(f) + 1] = e /\ Len(f) \in Nat
  BY AppendProperties, LenProperties
<1>2. \A i \in 1..(Len(f) + 1) : i \in 1..Len(f) \/ i = Len(f) + 1
  BY <1>1
<1>3. 1..Len(f) \subseteq 1..(Len(f) + 1) /\ Len(f) + 1 \in 1..(Len(f) + 1)
  BY <1>1
<1>4. QED
  BY <1>1, <1>2, <1>3 DEF Waiting

LEMMA Popped ==
  ASSUME NEW f \in Seq(Entries), f # <<>>
  PROVE  /\ Head(f) \in Entries /\ Tail(f) \in Seq(Entries)
         /\ Waiting(f) = Waiting(Tail(f)) \cup {Head(f).node}
<1>1. /\ Head(f) \in Entries /\ Tail(f) \in Seq(Entries) /\ Len(Tail(f)) = Len(f) - 1
      /\ \A i \in 1..Len(Tail(f)) : Tail(f)[i] = f[i + 1]
      /\ Len(f) \in Nat \ {0} /\ Head(f) = f[1]
  BY HeadTailProperties, EmptySeq
<1>2. ASSUME NEW n \in Waiting(f)
      PROVE  n \in Waiting(Tail(f)) \cup {Head(f).node}
  <2>1. PICK i \in 1..Len(f) : n = f[i].node
    BY DEF Waiting
  <2>2. CASE i = 1
    BY <1>1, <2>1, <2>2
  <2>3. CASE i # 1
    <3>1. i - 1 \in 1..Len(Tail(f)) /\ Tail(f)[i - 1] = f[i]
      BY <1>1, <2>1, <2>3
    <3>2. QED
      BY <2>1, <3>1 DEF Waiting
  <2>4. QED
    BY <2>2, <2>3
<1>3. Waiting(Tail(f)) \subseteq Waiting(f)
  <2>1. \A i \in 1..Len(Tail(f)) : i + 1 \in 1..Len(f)
    BY <1>1
  <2>2. QED
    BY <1>1, <2>1 DEF Waiting
<1>4. Head(f).node \in Waiting(f)
  BY <1>1 DEF Waiting
<1>5. QED
  BY <1>1, <1>2, <1>3, <1>4

LEMMA NoneWaits == Waiting(<<>>) = {} /\ \A e : Waiting(<<e>>) = {e.node}
<1>1. Len(<<>>) = 0 /\ 1..0 = {}
  BY EmptySeq
<1>2. \A e : Len(<<e>>) = 1 /\ <<e>>[1] = e
  OBVIOUS
<1>3. 1..1 = {1}
  OBVIOUS
<1>4. QED
  BY <1>1, <1>2, <1>3 DEF Waiting

\* The adjacency and the relation Needs are the same graph.
LEMMA Adjacent ==
  ASSUME TypeOK
  PROVE  /\ \A m, n \in Nodes :
               n \in Neighbours(m) <=>
                  IF query.direction = "forward" THEN <<m, n>> \in Needs ELSE <<n, m>> \in Needs
         /\ Needs \subseteq Nodes \X Nodes
         /\ \A m : Neighbours(m) \subseteq Nodes
<1>1. edges.depends \subseteq Ids \X Ids /\ edges.defines \subseteq Ids \X Ids
  BY TablesAssumption DEF TypeOK
<1>2. Needs \subseteq Nodes \X Nodes
  BY <1>1 DEF Needs, Nodes
<1>3. \A m : Neighbours(m) \subseteq Nodes
  BY DEF Neighbours
<1>4. ASSUME NEW a \in Ids, NEW b \in Ids
      PROVE  /\ <<<<"file", a>>, <<"sym", b>>>> \in Needs <=> <<a, b>> \in edges.depends
             /\ <<<<"sym", b>>, <<"file", a>>>> \in Needs <=> <<a, b>> \in edges.defines
             /\ <<<<"sym", a>>, <<"sym", b>>>> \notin Needs
             /\ <<<<"file", a>>, <<"file", b>>>> \notin Needs
  BY <1>1 DEF Needs
<1>5. ASSUME NEW m \in Nodes, NEW n \in Nodes
      PROVE  n \in Neighbours(m) <=>
                IF query.direction = "forward" THEN <<m, n>> \in Needs ELSE <<n, m>> \in Needs
  <2>1. PICK a \in Ids, b \in Ids : m \in {<<"file", a>>, <<"sym", a>>} /\ n \in {<<"file", b>>, <<"sym", b>>}
    BY DEF Nodes
  <2>2. CASE m = <<"file", a>> /\ n = <<"file", b>>
    BY <1>4, <2>2 DEF Neighbours
  <2>3. CASE m = <<"file", a>> /\ n = <<"sym", b>>
    BY <1>4, <2>3 DEF Neighbours
  <2>4. CASE m = <<"sym", a>> /\ n = <<"file", b>>
    BY <1>4, <2>4 DEF Neighbours
  <2>5. CASE m = <<"sym", a>> /\ n = <<"sym", b>>
    BY <1>4, <2>5 DEF Neighbours
  <2>6. QED
    BY <2>1, <2>2, <2>3, <2>4, <2>5
<1>6. QED
  BY <1>2, <1>3, <1>5

LEMMA ClosedIsNeighbours ==
  ASSUME TypeOK, NEW C \in SUBSET Nodes
  PROVE  Closed(C) <=> \A m \in C : Neighbours(m) \subseteq C
<1>1. ASSUME Closed(C), NEW m \in C, NEW n \in Neighbours(m)
      PROVE  n \in C
  <2>1. m \in Nodes /\ n \in Nodes
    BY <1>1, Adjacent
  <2>2. IF query.direction = "forward" THEN <<m, n>> \in Needs ELSE <<n, m>> \in Needs
    BY <1>1, <2>1, Adjacent
  <2>3. CASE query.direction = "forward"
    <3>1. <<m, n>>[1] \in C => <<m, n>>[2] \in C
      BY <1>1, <2>2, <2>3 DEF Closed
    <3>2. QED
      BY <1>1, <3>1
  <2>4. CASE query.direction # "forward"
    <3>1. <<n, m>>[2] \in C => <<n, m>>[1] \in C
      BY <1>1, <2>2, <2>4 DEF Closed
    <3>2. QED
      BY <1>1, <3>1
  <2>5. QED
    BY <2>3, <2>4
<1>2. ASSUME \A m \in C : Neighbours(m) \subseteq C, NEW e \in Needs
      PROVE  IF query.direction = "forward" THEN e[1] \in C => e[2] \in C
                                            ELSE e[2] \in C => e[1] \in C
  <2>1. e[1] \in Nodes /\ e[2] \in Nodes /\ e = <<e[1], e[2]>>
    BY Adjacent
  <2>2. QED
    BY <1>2, <2>1, Adjacent
<1>3. QED
  BY <1>1, <1>2 DEF Closed

\* A call keeps its snapshot and its question.
LEMMA CallKept ==
  ASSUME [Next]_vars
  PROVE  /\ UNCHANGED call /\ Starts' = Starts
         /\ \A n : Neighbours(n)' = Neighbours(n)
         /\ \A id : StartOf(id)' = StartOf(id)
         /\ \A C : Closed(C)' <=> Closed(C)
<1>1. UNCHANGED <<edges, query, maxDepth, maxNodes>>
  BY DEF Next, StartWalk, Seed, SeedsDone, Pop, Visit, EndWalk, Gather, Return, vars, call
<1>2. QED
  BY <1>1 DEF call, Starts, Neighbours, StartOf, IsFile, Closed, Needs

-----------------------------------------------------------------------------
(* What the actions do, without their choices. *)

LEMMA StartEffect ==
  ASSUME TypeOK, StartWalk
  PROVE  \E root \in todo :
            /\ StartOf(root) \in Nodes
            /\ todo' = todo \ {root} /\ visited' = {StartOf(root)}
            /\ \/ phase' = "walk" /\ pending' = {}
                  /\ frontier' = <<[node |-> StartOf(root), depth |-> 0]>>
               \/ phase' = "seed" /\ frontier' = <<>>
                  /\ pending' = Neighbours(StartOf(root)) \ {StartOf(root)}
<1>1. PICK root \in todo : StartWalk!2!(root)
  BY DEF StartWalk
<1>2. root \in Ids
  BY QueriesAssumption DEF TypeOK
<1>3. StartOf(root) \in Nodes
  BY <1>2 DEF StartOf, Nodes
<1>4. QED
  BY <1>1, <1>3

LEMMA AdmitEffect ==
  ASSUME TypeOK, NEW n \in Nodes, Admit(n)
  PROVE  /\ visited' = visited \cup {n} /\ cut' = cut
         /\ frontier' \in Seq(Entries) /\ Waiting(frontier') = Waiting(frontier) \cup {n}
         /\ emitted' \subseteq Ids /\ emitted \subseteq emitted'
         /\ emitted' = emitted \/ emitted' = emitted \cup {n[2]}
         /\ n[1] = "file" => n[2] \in emitted'
         /\ emitted' \subseteq emitted \cup FilesOf({n})
<1>1. [node |-> n, depth |-> depth + 1] \in Entries
  BY DEF TypeOK, Entries
<1>2. frontier' \in Seq(Entries) /\ Waiting(frontier') = Waiting(frontier) \cup {n}
  BY <1>1, Pushed DEF TypeOK, Entries, Admit
<1>3. n[2] \in Ids /\ (n[1] = "file" => n = <<"file", n[2]>>)
  BY DEF Nodes
<1>4. QED
  BY <1>2, <1>3 DEF TypeOK, Admit, FilesOf

LEMMA SeedEffect ==
  ASSUME TypeOK, Seed
  PROVE  /\ phase = "seed"
         /\ \/ \E n \in pending : /\ pending' = pending \ {n} /\ phase' = phase
                                  /\ Admits /\ Admit(n)
            \/ /\ pending' = {} /\ frontier' = <<>> /\ phase' = "walk" /\ cut' = TRUE
               /\ UNCHANGED <<visited, emitted>>
BY DEF Seed, Least

LEMMA VisitEffect ==
  ASSUME TypeOK, Visit
  PROVE  /\ phase = "walk" /\ phase' = phase
         /\ \E n \in pending :
               /\ pending' = pending \ {n}
               /\ \/ n \in visited /\ UNCHANGED <<visited, frontier, emitted, cut>>
                  \/ Admits /\ Admit(n)
                  \/ cut' = TRUE /\ UNCHANGED <<visited, frontier, emitted>>
BY DEF Visit, Least, Refuse

-----------------------------------------------------------------------------
LEMMA TypeStep ==
  ASSUME TypeOK, [Next]_vars
  PROVE  TypeOK'
<1>a. UNCHANGED call
  BY CallKept
<1> USE <1>a DEF call
<1>b. /\ \A n : Neighbours(n) \subseteq Nodes
      /\ \A id : id \in todo => id \in Ids
  BY Adjacent, QueriesAssumption DEF TypeOK
<1>1. CASE StartWalk
  <2>1. PICK root \in todo :
            /\ StartOf(root) \in Nodes
            /\ todo' = todo \ {root} /\ visited' = {StartOf(root)}
            /\ \/ phase' = "walk" /\ pending' = {}
                  /\ frontier' = <<[node |-> StartOf(root), depth |-> 0]>>
               \/ phase' = "seed" /\ frontier' = <<>>
                  /\ pending' = Neighbours(StartOf(root)) \ {StartOf(root)}
    BY <1>1, StartEffect
  <2>2. [node |-> StartOf(root), depth |-> 0] \in Entries
    BY <2>1 DEF Entries
  <2>3. frontier' \in Seq(Entries)
    <3>1. <<>> \in Seq(Entries) /\ <<[node |-> StartOf(root), depth |-> 0]>> \in Seq(Entries)
      BY <2>2
    <3>2. QED
      BY <2>1, <3>1
  <2>4. budget' \in Nat
    <3>1. maxNodes \in Nat /\ IsFiniteSet(affected) /\ IsFiniteSet(query.ids)
      BY IdsAssumption, BoundsAssumption, QueriesAssumption, FS_Subset DEF TypeOK
    <3>2. Cardinality(affected) \in Nat /\ Cardinality(query.ids) \in Nat
      BY <3>1, FS_CardinalityType
    <3>3. QED
      BY <1>1, <3>1, <3>2 DEF StartWalk, WalkBudget
  <2>5. UNCHANGED <<affected, truncated>> /\ depth' = 0 /\ emitted' = {} /\ cut' = FALSE
    BY <1>1 DEF StartWalk
  <2>6. todo' \subseteq query.ids /\ visited' \subseteq Nodes /\ pending' \subseteq Nodes
        /\ phase' \in {"next", "seed", "walk", "done"}
    BY <1>b, <2>1 DEF TypeOK
  <2>7. QED
    BY <2>3, <2>4, <2>5, <2>6 DEF TypeOK, Entries
<1>2. CASE Seed
  <2>1. ASSUME NEW n \in pending, pending' = pending \ {n}, phase' = phase, Admit(n)
        PROVE  TypeOK'
    <3>1. /\ n \in Nodes /\ visited' = visited \cup {n} /\ frontier' \in Seq(Entries)
          /\ emitted' \subseteq Ids /\ cut' = cut
      BY <2>1, AdmitEffect DEF TypeOK
    <3>2. UNCHANGED <<todo, affected, truncated, budget, depth>>
      BY <1>2 DEF Seed
    <3>3. QED
      BY <2>1, <3>1, <3>2 DEF TypeOK, Entries
  <2>2. CASE /\ pending' = {} /\ frontier' = <<>> /\ phase' = "walk" /\ cut' = TRUE
             /\ UNCHANGED <<visited, emitted>>
    BY <1>2, <2>2, EmptySeq DEF Seed, TypeOK
  <2>3. QED
    BY <1>2, <2>1, <2>2, SeedEffect
<1>3. CASE SeedsDone
  BY <1>3 DEF TypeOK, SeedsDone
<1>4. CASE Pop
  <2>1. Head(frontier) \in Entries /\ Tail(frontier) \in Seq(Entries)
    BY <1>4, Popped DEF Pop, TypeOK, Entries
  <2>2. QED
    BY <1>4, <1>b, <2>1 DEF Pop, TypeOK, Entries
<1>5. CASE Visit
  <2>1. PICK n \in pending :
               /\ pending' = pending \ {n}
               /\ \/ n \in visited /\ UNCHANGED <<visited, frontier, emitted, cut>>
                  \/ Admits /\ Admit(n)
                  \/ cut' = TRUE /\ UNCHANGED <<visited, frontier, emitted>>
    BY <1>5, VisitEffect
  <2>2. UNCHANGED <<todo, affected, truncated, phase, budget, depth>>
    BY <1>5 DEF Visit
  <2>3. CASE Admit(n)
    <3>1. /\ n \in Nodes /\ visited' = visited \cup {n} /\ frontier' \in Seq(Entries)
          /\ emitted' \subseteq Ids /\ cut' = cut
      BY <2>3, AdmitEffect DEF TypeOK
    <3>2. QED
      BY <2>1, <2>2, <3>1 DEF TypeOK, Entries
  <2>4. CASE UNCHANGED <<visited, frontier, emitted>> /\ cut' \in {cut, TRUE}
    BY <2>1, <2>2, <2>4 DEF TypeOK
  <2>5. QED
    BY <2>1, <2>3, <2>4
<1>6. CASE EndWalk
  BY <1>6 DEF TypeOK, EndWalk, Gather
<1>7. CASE Return
  BY <1>7 DEF TypeOK, Return
<1>8. CASE UNCHANGED vars
  BY <1>8 DEF TypeOK, vars
<1>9. QED
  BY <1>1, <1>2, <1>3, <1>4, <1>5, <1>6, <1>7, <1>8 DEF Next

LEMMA TypeInit ==
  ASSUME Init
  PROVE  TypeOK
BY QueriesAssumption, EmptySeq DEF Init, TypeOK

(* Every variable of a walk keeps its type, on any snapshot and for any    *)
(* bounds.                                                                 *)
THEOREM TypeCorrect == Spec => []TypeOK
BY TypeInit, TypeStep, PTL DEF Spec

-----------------------------------------------------------------------------
(* Nothing without a cause. *)

LEMMA SoundStep ==
  ASSUME TypeOK, [Next]_vars, NEW C, Cause(C), SoundFor(C)
  PROVE  SoundFor(C)'
<1>a. /\ UNCHANGED call /\ C \in SUBSET Nodes
      /\ \A m \in C : Neighbours(m) \subseteq C
      /\ \A id \in query.ids : StartOf(id) \in C
  BY CallKept, ClosedIsNeighbours DEF Cause, Starts
<1>b. ASSUME NEW n \in C, Admit(n)
      PROVE  /\ visited' \subseteq C /\ Waiting(frontier') \subseteq C
             /\ emitted' \subseteq FilesOf(C)
  <2>1. FilesOf({n}) \subseteq FilesOf(C)
    BY DEF FilesOf
  <2>2. QED
    BY <1>a, <1>b, <2>1, AdmitEffect DEF SoundFor
<1> USE <1>a DEF call
<1>1. CASE StartWalk
  <2>1. PICK root \in todo :
            /\ StartOf(root) \in Nodes
            /\ todo' = todo \ {root} /\ visited' = {StartOf(root)}
            /\ \/ phase' = "walk" /\ pending' = {}
                  /\ frontier' = <<[node |-> StartOf(root), depth |-> 0]>>
               \/ phase' = "seed" /\ frontier' = <<>>
                  /\ pending' = Neighbours(StartOf(root)) \ {StartOf(root)}
    BY <1>1, StartEffect
  <2>2. StartOf(root) \in C
    BY <2>1 DEF TypeOK
  <2>3. visited' \subseteq C /\ pending' \subseteq C
    BY <2>1, <2>2
  <2>4. Waiting(frontier') \subseteq C
    BY <2>1, <2>2, NoneWaits
  <2>5. UNCHANGED affected /\ emitted' = {}
    BY <1>1 DEF StartWalk
  <2>6. QED
    BY <2>3, <2>4, <2>5 DEF SoundFor
<1>2. CASE Seed
  <2>1. UNCHANGED affected
    BY <1>2 DEF Seed
  <2>2. ASSUME NEW n \in pending, pending' = pending \ {n}, Admit(n)
        PROVE  SoundFor(C)'
    BY <1>b, <2>1, <2>2 DEF SoundFor
  <2>3. CASE pending' = {} /\ frontier' = <<>> /\ UNCHANGED <<visited, emitted>>
    BY <2>1, <2>3, NoneWaits DEF SoundFor
  <2>4. QED
    BY <1>2, <2>2, <2>3, SeedEffect
<1>3. CASE Pop
  <2>1. /\ Waiting(frontier) = Waiting(Tail(frontier)) \cup {Head(frontier).node}
        /\ pending' = Neighbours(Head(frontier).node) /\ frontier' = Tail(frontier)
        /\ UNCHANGED <<affected, visited, emitted>>
    BY <1>3, Popped DEF Pop, TypeOK, Entries
  <2>2. QED
    BY <2>1 DEF SoundFor
<1>4. CASE Visit
  <2>1. UNCHANGED affected
    BY <1>4 DEF Visit
  <2>2. ASSUME NEW n \in pending, pending' = pending \ {n}, Admit(n)
        PROVE  SoundFor(C)'
    BY <1>b, <2>1, <2>2 DEF SoundFor
  <2>3. CASE pending' \subseteq pending /\ UNCHANGED <<visited, frontier, emitted>>
    BY <2>1, <2>3 DEF SoundFor
  <2>4. QED
    BY <1>4, <2>2, <2>3, VisitEffect
<1>5. CASE EndWalk
  BY <1>5 DEF EndWalk, Gather, SoundFor
<1>6. CASE UNCHANGED <<visited, pending, frontier, emitted, affected>>
  BY <1>6 DEF SoundFor
<1>7. QED
  BY <1>1, <1>2, <1>3, <1>4, <1>5, <1>6 DEF Next, SeedsDone, Return, vars

(* Whatever cycles, diamonds and shared names a table has, what a call     *)
(* gathers lies in every set of nodes that holds its starts and is closed  *)
(* under the edges.                                                        *)
THEOREM NothingWithoutCause == Spec => []Sound
<1> DEFINE SoundInv == \A C : Cause(C) => SoundFor(C)
<1>1. Init => SoundInv
  BY NoneWaits DEF Init, SoundFor, FilesOf
<1>2. TypeOK /\ SoundInv /\ [Next]_vars => SoundInv'
  <2> SUFFICES ASSUME TypeOK, SoundInv, [Next]_vars, NEW C, Cause(C)'
               PROVE  SoundFor(C)'
    OBVIOUS
  <2>1. Cause(C)
    BY CallKept DEF Cause
  <2>2. QED
    BY <2>1, SoundStep
<1>3. SoundInv => Sound
  BY DEF Cause, SoundFor, Sound
<1>4. QED
  BY <1>1, <1>2, <1>3, TypeCorrect, PTL DEF Spec

-----------------------------------------------------------------------------
(* The node budget. *)

\* Every set of ids is finite.
LEMMA Sizes ==
  ASSUME TypeOK
  PROVE  /\ \A S \in SUBSET Ids : IsFiniteSet(S) /\ Cardinality(S) \in Nat
         /\ affected \in SUBSET Ids /\ emitted \in SUBSET Ids /\ query.ids \in SUBSET Ids
         /\ maxNodes \in Nat /\ budget \in Nat
BY IdsAssumption, BoundsAssumption, QueriesAssumption, FS_Subset, FS_CardinalityType DEF TypeOK

LEMMA CapAdmit ==
  ASSUME TypeOK, CapInv, phase \in {"seed", "walk"}, NEW n \in Nodes, Admits, Admit(n)
  PROVE  Cardinality(emitted') <= budget
<1>1. PICK x : emitted' = emitted \/ emitted' = emitted \cup {x}
  BY AdmitEffect
<1>2. /\ IsFiniteSet(emitted) /\ Cardinality(emitted) \in Nat /\ budget \in Nat
      /\ Cardinality(emitted) < budget
  BY Sizes DEF Admits
<1>3. /\ IsFiniteSet(emitted \cup {x})
      /\ Cardinality(emitted \cup {x})
            = IF x \in emitted THEN Cardinality(emitted) ELSE Cardinality(emitted) + 1
  BY <1>2, FS_AddElement
<1>4. QED
  BY <1>1, <1>2, <1>3

LEMMA CapStep ==
  ASSUME TypeOK, CapInv, [Next]_vars
  PROVE  CapInv'
<1>a. UNCHANGED call
  BY CallKept
<1>b. Cardinality(affected) \in Nat /\ Cardinality(query.ids) \in Nat /\ maxNodes \in Nat
  BY Sizes
<1> USE <1>a, <1>b DEF call
<1>1. CASE StartWalk
  <2>1. /\ budget' = WalkBudget /\ emitted' = {} /\ UNCHANGED affected
        /\ Cardinality({}) = 0
    BY <1>1, FS_EmptySet DEF StartWalk
  <2>2. budget' = maxNodes - Gathered
    BY <2>1 DEF WalkBudget, CapInv, Gathered
  <2>3. QED
    BY <2>1, <2>2 DEF CapInv, Gathered
<1>2. CASE Seed
  <2>1. UNCHANGED <<affected, budget>>
    BY <1>2 DEF Seed
  <2>2. Cardinality(emitted') <= budget
    <3>1. CASE UNCHANGED emitted
      BY <1>2, <3>1 DEF Seed, CapInv
    <3>2. ASSUME NEW n \in pending, Admits, Admit(n)
          PROVE  Cardinality(emitted') <= budget
      BY <1>2, <3>2, CapAdmit DEF TypeOK, Seed
    <3>3. QED
      BY <1>2, <3>1, <3>2, SeedEffect
  <2>3. QED
    BY <1>2, <2>1, <2>2 DEF CapInv, Gathered, Seed
<1>3. CASE Visit
  <2>1. UNCHANGED <<affected, budget, phase>>
    BY <1>3 DEF Visit
  <2>2. Cardinality(emitted') <= budget
    <3>1. CASE UNCHANGED emitted
      BY <1>3, <3>1 DEF Visit, CapInv
    <3>2. ASSUME NEW n \in pending, Admits, Admit(n)
          PROVE  Cardinality(emitted') <= budget
      BY <1>3, <3>2, CapAdmit DEF TypeOK, Visit
    <3>3. QED
      BY <1>3, <3>1, <3>2, VisitEffect
  <2>3. QED
    BY <1>3, <2>1, <2>2 DEF CapInv, Gathered
<1>4. CASE EndWalk
  <2>1. affected' = affected \cup emitted /\ phase = "walk" /\ phase' = "next"
    BY <1>4 DEF EndWalk, Gather
  <2>2. /\ Cardinality(affected \cup emitted)
             = Cardinality(affected) + Cardinality(emitted) - Cardinality(affected \cap emitted)
        /\ Cardinality(affected \cap emitted) \in Nat /\ Cardinality(emitted) \in Nat
    BY Sizes, FS_Union
  <2>3. budget \in Nat
    BY Sizes
  <2>4. QED
    BY <2>1, <2>2, <2>3 DEF CapInv, Gathered
<1>5. CASE UNCHANGED <<affected, budget, emitted>> /\ (phase' = phase \/ phase' = "done" \/ phase = "seed")
  BY <1>5 DEF CapInv, Gathered
<1>6. QED
  BY <1>1, <1>2, <1>3, <1>4, <1>5 DEF Next, SeedsDone, Pop, Return, vars

(* The files a call gathers beyond the ones it was asked about are at most *)
(* max_nodes, over all its walks.                                          *)
THEOREM BudgetIsShared == Spec => []Capped
<1>1. Init => CapInv
  <2> SUFFICES ASSUME Init PROVE CapInv
    OBVIOUS
  <2>1. TypeOK
    BY TypeInit
  <2>2. Gathered = 0 /\ maxNodes \in Nat
    BY <2>1, Sizes DEF Init, Gathered
  <2>3. QED
    BY <2>2 DEF Init, CapInv
<1>2. TypeOK /\ CapInv /\ [Next]_vars => CapInv'
  BY CapStep
<1>3. TypeOK /\ CapInv => Capped
  <2> SUFFICES ASSUME TypeOK, CapInv PROVE Capped
    OBVIOUS
  <2>1. affected \cap query.ids = query.ids
    BY DEF CapInv
  <2>2. Cardinality(affected \ query.ids) = Cardinality(affected) - Cardinality(query.ids)
    BY <2>1, Sizes, FS_Difference
  <2>3. QED
    BY <2>2 DEF CapInv, Capped, Gathered
<1>4. QED
  BY <1>1, <1>2, <1>3, TypeCorrect, PTL DEF Spec

-----------------------------------------------------------------------------
(* Nothing missed in silence. *)

LEMMA WalkAdmit ==
  ASSUME TypeOK, WalkInv, NEW n \in pending, pending' = pending \ {n}, Admit(n), [Next]_vars
  PROVE  WalkInv'
<1>1. /\ n \in Nodes /\ visited' = visited \cup {n} /\ cut' = cut
      /\ Waiting(frontier') = Waiting(frontier) \cup {n}
      /\ emitted \subseteq emitted' /\ (n[1] = "file" => n[2] \in emitted')
  BY AdmitEffect DEF TypeOK
<1>2. query' = query /\ \A v : Neighbours(v)' = Neighbours(v)
  BY CallKept DEF call
<1>3. FilesOf(visited') \subseteq emitted' \cup query.ids
  BY <1>1 DEF WalkInv, FilesOf
<1>4. ASSUME ~cut', NEW v \in visited'
      PROVE  Neighbours(v) \subseteq visited' \cup pending' \/ v \in Waiting(frontier')
  BY <1>1, <1>4 DEF WalkInv
<1>5. FilesOf(visited)' = FilesOf(visited')
  BY DEF FilesOf
<1>6. QED
  BY <1>2, <1>3, <1>4, <1>5 DEF WalkInv

LEMMA CoveredKept ==
  ASSUME TypeOK, [Next]_vars, todo' = todo, affected' = affected, visited \subseteq visited', NEW C
  PROVE  /\ CoveredBy(C, visited) => CoveredBy(C, visited)'
         /\ CoveredBy(C, {}) => CoveredBy(C, {})'
<1>1. /\ UNCHANGED query
      /\ Closed(C)' <=> Closed(C)
      /\ \A id : StartOf(id)' = StartOf(id)
  BY CallKept DEF call
<1>2. BegunStarts' = BegunStarts
  BY <1>1 DEF BegunStarts, Begun
<1>3. FilesOf(C)' = FilesOf(C)
  BY DEF FilesOf
<1>4. ASSUME CoveredBy(C, visited)
      PROVE  CoveredBy(C, visited)'
  <2>1. /\ C \in SUBSET Nodes /\ Closed(C)' /\ BegunStarts' \subseteq C \cup visited'
        /\ FilesOf(C) \subseteq affected' \cup query'.ids
    BY <1>1, <1>2, <1>4 DEF CoveredBy
  <2>2. QED
    BY <1>3, <2>1 DEF CoveredBy
<1>5. ASSUME CoveredBy(C, {})
      PROVE  CoveredBy(C, {})'
  <2>1. /\ C \in SUBSET Nodes /\ Closed(C)' /\ BegunStarts' \subseteq C
        /\ FilesOf(C) \subseteq affected' \cup query'.ids
    BY <1>1, <1>2, <1>5 DEF CoveredBy
  <2>2. QED
    BY <1>3, <2>1 DEF CoveredBy
<1>6. QED
  BY <1>4, <1>5

LEMMA CompleteStep ==
  ASSUME TypeOK, CompleteInv, [Next]_vars
  PROVE  CompleteInv'
<1>a. /\ UNCHANGED query /\ \A v : Neighbours(v)' = Neighbours(v)
      /\ \A id : StartOf(id)' = StartOf(id) /\ \A C : Closed(C)' <=> Closed(C)
  BY CallKept DEF call
<1>1. CASE StartWalk
  <2>1. PICK root \in todo :
            /\ StartOf(root) \in Nodes
            /\ todo' = todo \ {root} /\ visited' = {StartOf(root)}
            /\ \/ phase' = "walk" /\ pending' = {}
                  /\ frontier' = <<[node |-> StartOf(root), depth |-> 0]>>
               \/ phase' = "seed" /\ frontier' = <<>>
                  /\ pending' = Neighbours(StartOf(root)) \ {StartOf(root)}
    BY <1>1, StartEffect
  <2>2. UNCHANGED <<affected, truncated>> /\ emitted' = {} /\ phase = "next"
    BY <1>1 DEF StartWalk
  <2>3. root \in query.ids
    BY <2>1 DEF TypeOK
  <2>4. WalkInv'
    <3>1. FilesOf({StartOf(root)}) \subseteq {root}
      BY DEF FilesOf, StartOf
    <3>2. Neighbours(StartOf(root)) \subseteq visited' \cup pending' \/ StartOf(root) \in Waiting(frontier')
      BY <2>1, NoneWaits
    <3>3. QED
      BY <1>a, <2>1, <2>2, <2>3, <3>1, <3>2 DEF WalkInv, FilesOf
  <2>5. ASSUME ~truncated'
        PROVE  \E C : CoveredBy(C, visited)'
    <3>1. PICK C : CoveredBy(C, {})
      BY <2>2, <2>5 DEF CompleteInv
    <3>2. BegunStarts' \subseteq BegunStarts \cup {StartOf(root)}
      BY <1>a, <2>1 DEF BegunStarts, Begun
    <3>3. CoveredBy(C, visited)'
      BY <1>a, <2>1, <2>2, <3>1, <3>2 DEF CoveredBy
    <3>4. QED
      BY <3>3
  <2>6. phase' \in {"walk", "seed"}
    BY <2>1
  <2>7. QED
    BY <2>4, <2>5, <2>6 DEF CompleteInv
<1>2. CASE Seed
  <2>1. phase = "seed" /\ UNCHANGED <<todo, affected, truncated>>
    BY <1>2 DEF Seed
  <2>2. visited \subseteq visited' /\ WalkInv' /\ phase' \in {"seed", "walk"}
    <3>1. ASSUME NEW n \in pending, pending' = pending \ {n}, phase' = phase, Admit(n)
          PROVE  visited \subseteq visited' /\ WalkInv' /\ phase' \in {"seed", "walk"}
      BY <2>1, <3>1, WalkAdmit, AdmitEffect DEF CompleteInv, TypeOK
    <3>2. CASE phase' = "walk" /\ cut' = TRUE /\ UNCHANGED <<visited, emitted>>
      BY <1>a, <2>1, <3>2 DEF CompleteInv, WalkInv, FilesOf
    <3>3. QED
      BY <1>2, <3>1, <3>2, SeedEffect
  <2>3. QED
    BY <2>1, <2>2, CoveredKept DEF CompleteInv
<1>3. CASE SeedsDone
  <2>1. /\ phase = "seed" /\ phase' = "walk"
        /\ UNCHANGED <<todo, affected, truncated, visited, pending, frontier, emitted, cut>>
    BY <1>3 DEF SeedsDone
  <2>2. WalkInv'
    BY <1>a, <2>1 DEF CompleteInv, WalkInv, FilesOf
  <2>3. QED
    BY <2>1, <2>2, CoveredKept DEF CompleteInv
<1>4. CASE Pop
  <2>1. /\ phase = "walk" /\ pending = {} /\ frontier # <<>>
        /\ pending' = Neighbours(Head(frontier).node) /\ frontier' = Tail(frontier)
        /\ UNCHANGED <<phase, todo, affected, truncated, visited, emitted, cut>>
    BY <1>4 DEF Pop
  <2>2. Waiting(frontier) = Waiting(frontier') \cup {Head(frontier).node}
    BY <2>1, Popped DEF TypeOK, Entries
  <2>3. WalkInv
    BY <2>1 DEF CompleteInv
  <2>4. \A v \in visited : ~cut => Neighbours(v) \subseteq visited \cup pending' \/ v \in Waiting(frontier')
    BY <2>1, <2>2, <2>3 DEF WalkInv
  <2>5. WalkInv'
    BY <1>a, <2>1, <2>3, <2>4 DEF WalkInv, FilesOf
  <2>6. QED
    BY <2>1, <2>5, CoveredKept DEF CompleteInv
<1>5. CASE Visit
  <2>1. phase = "walk" /\ UNCHANGED <<phase, todo, affected, truncated>>
    BY <1>5 DEF Visit
  <2>2. visited \subseteq visited' /\ WalkInv'
    <3>1. ASSUME NEW n \in pending, pending' = pending \ {n}, Admit(n)
          PROVE  visited \subseteq visited' /\ WalkInv'
      BY <2>1, <3>1, WalkAdmit, AdmitEffect DEF CompleteInv, TypeOK
    <3>2. ASSUME NEW n \in pending, pending' = pending \ {n}, n \in visited,
                 UNCHANGED <<visited, frontier, emitted, cut>>
          PROVE  visited \subseteq visited' /\ WalkInv'
      BY <1>a, <2>1, <3>2 DEF CompleteInv, WalkInv, FilesOf
    <3>3. CASE cut' = TRUE /\ UNCHANGED <<visited, frontier, emitted>>
      BY <1>a, <2>1, <3>3 DEF CompleteInv, WalkInv, FilesOf
    <3>4. QED
      BY <1>5, <3>1, <3>2, <3>3, VisitEffect
  <2>3. QED
    BY <2>1, <2>2, CoveredKept DEF CompleteInv
<1>6. CASE EndWalk
  <2>1. /\ phase = "walk" /\ pending = {} /\ frontier = <<>> /\ phase' = "next"
        /\ affected' = affected \cup emitted /\ truncated' = (truncated \/ cut)
        /\ UNCHANGED <<todo, visited>>
    BY <1>6 DEF EndWalk, Gather
  <2>2. ASSUME ~truncated'
        PROVE  \E C : CoveredBy(C, {})'
    <3>1. ~truncated /\ ~cut
      BY <2>1, <2>2
    <3>2. PICK C : CoveredBy(C, visited)
      BY <2>1, <3>1 DEF CompleteInv
    <3>3. FilesOf(visited) \subseteq emitted \cup query.ids
      BY <2>1 DEF CompleteInv, WalkInv
    <3>4. \A v \in visited : Neighbours(v) \subseteq visited
      BY <2>1, <3>1, NoneWaits DEF CompleteInv, WalkInv
    <3>5. C \cup visited \in SUBSET Nodes /\ Closed(C \cup visited)
      BY <3>2, <3>4, ClosedIsNeighbours DEF CoveredBy, TypeOK
    <3>6. FilesOf(C \cup visited) \subseteq affected' \cup query.ids
      BY <2>1, <3>2, <3>3 DEF CoveredBy, FilesOf
    <3>7. BegunStarts' \subseteq C \cup visited
      BY <1>a, <2>1, <3>2 DEF CoveredBy, BegunStarts, Begun
    <3>8. CoveredBy(C \cup visited, {})'
      BY <1>a, <2>1, <3>5, <3>6, <3>7 DEF CoveredBy, FilesOf
    <3>9. QED
      BY <3>8
  <2>3. QED
    BY <2>1, <2>2 DEF CompleteInv
<1>7. CASE Return
  <2>1. /\ phase = "next" /\ todo = {} /\ phase' = "done"
        /\ UNCHANGED <<todo, affected, truncated, visited>>
    BY <1>7 DEF Return
  <2>2. QED
    BY <2>1, CoveredKept DEF CompleteInv
<1>8. CASE UNCHANGED vars
  <2>1. UNCHANGED <<phase, todo, affected, truncated, visited, pending, frontier, emitted, cut>>
    BY <1>8 DEF vars
  <2>2. WalkInv => WalkInv'
    BY <1>a, <2>1 DEF WalkInv, FilesOf
  <2>3. QED
    BY <2>1, <2>2, CoveredKept DEF CompleteInv
<1>9. QED
  BY <1>1, <1>2, <1>3, <1>4, <1>5, <1>6, <1>7, <1>8 DEF Next

(* An answer that does not say truncated has every file that transitively  *)
(* depends on a changed one, on any snapshot and at any bound.             *)
THEOREM NothingMissed == Spec => []Complete
<1>1. Init => CompleteInv
  <2> SUFFICES ASSUME Init PROVE CompleteInv
    OBVIOUS
  <2>1. Closed({})
    BY DEF Closed
  <2>2. BegunStarts = {} /\ FilesOf({}) = {}
    BY DEF Init, BegunStarts, Begun, FilesOf
  <2>3. CoveredBy({}, {})
    BY <2>1, <2>2 DEF CoveredBy
  <2>4. QED
    BY <2>3 DEF Init, CompleteInv
<1>2. TypeOK /\ CompleteInv /\ [Next]_vars => CompleteInv'
  BY CompleteStep
<1>3. CompleteInv => Complete
  BY DEF CompleteInv, CoveredBy, Complete, BegunStarts, Begun, Starts
<1>4. QED
  BY <1>1, <1>2, <1>3, TypeCorrect, PTL DEF Spec

-----------------------------------------------------------------------------
(* Shortest paths.  A layering of the nodes by their distance to the start *)
(* of the only walk of a call: B[k] is what lies within k edges of it.     *)

Layering(B, r) ==
    /\ B \in [0..maxDepth -> SUBSET Nodes]
    /\ B[0] = {StartOf(r)}
    /\ \A k \in 1..maxDepth :
          B[k] = B[k - 1] \cup {n \in Nodes : \E m \in B[k - 1] : n \in Neighbours(m)}

\* A frontier has the nodes of at most two layers, the nearer ones first, each
\* under its exact distance.
Queued(f, B, d) ==
    /\ \A i \in 1..Len(f) :
          /\ d <= f[i].depth /\ f[i].depth <= d + 1 /\ f[i].depth <= maxDepth
          /\ f[i].node \in B[f[i].depth]
          /\ \A k \in 0..maxDepth : f[i].node \in B[k] => f[i].depth <= k
    /\ \A i, j \in 1..Len(f) : i < j => f[i].depth <= f[j].depth

\* The layers up to the depth reached are visited; a visited node that is not
\* in the frontier has its neighbours visited or pending.
Searching(B) ==
    /\ depth <= maxDepth
    /\ visited \subseteq B[maxDepth]
    /\ B[depth] \subseteq visited
    /\ depth < maxDepth => pending \subseteq B[depth + 1]
    /\ Queued(frontier, B, depth)
    /\ FilesOf(visited) \subseteq emitted \cup query.ids
    /\ emitted \subseteq FilesOf(visited)
    /\ depth < maxDepth =>
          \A v \in visited : Neighbours(v) \subseteq visited \cup pending \/ v \in Waiting(frontier)

SearchInv(B) ==
    /\ phase = "next" /\ todo # {} => affected = query.ids
    /\ phase \in {"next", "done"} /\ todo = {} => affected = query.ids \cup FilesOf(B[maxDepth])
    /\ phase = "done" => todo = {}
    /\ phase = "seed" => pending \cap visited = {}
    /\ phase \in {"seed", "walk"} =>
          todo = {} /\ affected = query.ids /\ budget = maxNodes /\ Searching(B)

LEMMA Induction ==
  ASSUME NEW S \in SUBSET Nat, 0 \in S, \A n \in S : n + 1 \in S
  PROVE  S = Nat
<1> DEFINE T == Nat \ S
<1>1. SUFFICES ASSUME T # {} PROVE FALSE
  OBVIOUS
<1>2. PICK x \in T : \A y \in T : ~ (<<y, x>> \in OpToRel(<, Nat))
  <2> HIDE DEF T
  <2>1. T \subseteq Nat
    BY DEF T
  <2>2. QED
    BY <1>1, <2>1, NatLessThanWellFounded, WFMin
<1>3. x \in Nat /\ x # 0 /\ x - 1 \in Nat /\ x - 1 < x
  OBVIOUS
<1>4. <<x - 1, x>> \in OpToRel(<, Nat)
  BY <1>3 DEF OpToRel
<1>5. x - 1 \in S
  BY <1>2, <1>3, <1>4
<1>6. QED
  BY <1>3, <1>5

LEMMA LayersGrow ==
  ASSUME TypeOK, NEW B, NEW r, Layering(B, r), NEW j \in 0..maxDepth
  PROVE  \A k \in 0..maxDepth : j <= k => B[j] \subseteq B[k]
<1> DEFINE D == {k \in Nat : j <= k /\ k <= maxDepth => B[j] \subseteq B[k]}
<1>0. maxDepth \in Nat
  BY BoundsAssumption DEF TypeOK
<1>1. 0 \in D
  BY <1>0
<1>2. ASSUME NEW k \in D PROVE k + 1 \in D
  <2>1. SUFFICES ASSUME j <= k + 1, k + 1 <= maxDepth PROVE B[j] \subseteq B[k + 1]
    OBVIOUS
  <2>2. CASE j = k + 1
    BY <2>2
  <2>3. CASE j <= k
    <3>1. k + 1 \in 1..maxDepth /\ (k + 1) - 1 = k
      BY <1>0, <2>1
    <3>2. B[k] \subseteq B[k + 1]
      BY <3>1 DEF Layering
    <3>3. B[j] \subseteq B[k]
      BY <1>0, <2>1, <2>3
    <3>4. QED
      BY <3>2, <3>3
  <2>4. QED
    BY <1>0, <2>1, <2>2, <2>3
<1>3. D = Nat
  <2>1. D \in SUBSET Nat
    OBVIOUS
  <2> HIDE DEF D
  <2>2. QED
    BY <1>1, <1>2, <2>1, Induction
<1>4. QED
  <2>1. \A k \in 0..maxDepth : k \in D
    <3> HIDE DEF D
    <3>1. QED
      BY <1>0, <1>3
  <2>2. QED
    BY <1>0, <2>1

\* Nodes closed under the neighbours, from some layer on, hold all later ones.
LEMMA ClosedHoldsLayers ==
  ASSUME TypeOK, NEW B, NEW r, Layering(B, r), NEW V,
         \A v \in V : Neighbours(v) \subseteq V, NEW j \in 0..maxDepth, B[j] \subseteq V
  PROVE  B[maxDepth] \subseteq V
<1> DEFINE D == {k \in Nat : j <= k /\ k <= maxDepth => B[k] \subseteq V}
<1>0. maxDepth \in Nat
  BY BoundsAssumption DEF TypeOK
<1>1. 0 \in D
  BY <1>0
<1>2. ASSUME NEW k \in D PROVE k + 1 \in D
  <2>1. SUFFICES ASSUME j <= k + 1, k + 1 <= maxDepth PROVE B[k + 1] \subseteq V
    OBVIOUS
  <2>2. CASE j = k + 1
    BY <2>2
  <2>3. CASE j <= k
    <3>1. k + 1 \in 1..maxDepth /\ (k + 1) - 1 = k
      BY <1>0, <2>1
    <3>2. B[k + 1] = B[k] \cup {n \in Nodes : \E m \in B[k] : n \in Neighbours(m)}
      BY <3>1 DEF Layering
    <3>3. B[k] \subseteq V
      BY <1>0, <2>1, <2>3
    <3>4. QED
      BY <3>2, <3>3
  <2>4. QED
    BY <1>0, <2>1, <2>2, <2>3
<1>3. D = Nat
  <2>1. D \in SUBSET Nat
    OBVIOUS
  <2> HIDE DEF D
  <2>2. QED
    BY <1>1, <1>2, <2>1, Induction
<1>4. maxDepth \in D
  <2> HIDE DEF D
  <2>1. QED
    BY <1>0, <1>3
<1>5. QED
  BY <1>0, <1>4

LEMMA QueuePushed ==
  ASSUME TypeOK, NEW B, NEW f \in Seq(Entries), NEW d \in Nat, Queued(f, B, d), d < maxDepth,
         NEW n \in Nodes, n \in B[d + 1], \A k \in 0..d : n \notin B[k]
  PROVE  Queued(Append(f, [node |-> n, depth |-> d + 1]), B, d)
<1> DEFINE e == [node |-> n, depth |-> d + 1]
           g == Append(f, e)
<1>0. maxDepth \in Nat /\ e \in Entries
  BY BoundsAssumption DEF TypeOK, Entries
<1>1. /\ Len(g) = Len(f) + 1 /\ \A i \in 1..Len(f) : g[i] = f[i]
      /\ g[Len(f) + 1] = e /\ Len(f) \in Nat
  BY <1>0, AppendProperties, LenProperties
<1>2. e.depth = d + 1 /\ e.node = n
  OBVIOUS
<1>3. \A i \in 1..Len(g) : i \in 1..Len(f) \/ i = Len(f) + 1
  BY <1>1
<1> HIDE DEF g, e
<1>4. ASSUME NEW i \in 1..Len(g)
      PROVE  /\ d <= g[i].depth /\ g[i].depth <= d + 1 /\ g[i].depth <= maxDepth
             /\ g[i].node \in B[g[i].depth]
             /\ \A k \in 0..maxDepth : g[i].node \in B[k] => g[i].depth <= k
  <2>1. CASE i \in 1..Len(f)
    BY <1>1, <2>1 DEF Queued
  <2>2. CASE i = Len(f) + 1
    <3>1. g[i].depth = d + 1 /\ g[i].node = n
      BY <1>1, <1>2, <2>2
    <3>2. \A k \in 0..maxDepth : n \in B[k] => d + 1 <= k
      BY <1>0
    <3>3. QED
      BY <1>0, <3>1, <3>2
  <2>3. QED
    BY <1>3, <2>1, <2>2
<1>5. ASSUME NEW i \in 1..Len(g), NEW j \in 1..Len(g), i < j
      PROVE  g[i].depth <= g[j].depth
  <2>1. i \in 1..Len(f)
    BY <1>1, <1>5
  <2>2. CASE j \in 1..Len(f)
    BY <1>1, <1>5, <2>1, <2>2 DEF Queued
  <2>3. CASE j = Len(f) + 1
    BY <1>1, <1>2, <1>4, <2>1, <2>3
  <2>4. QED
    BY <1>3, <2>2, <2>3
<1>6. Queued(g, B, d)
  BY <1>4, <1>5 DEF Queued
<1>7. QED
  BY <1>6 DEF g, e

LEMMA QueuePopped ==
  ASSUME TypeOK, NEW B, NEW f \in Seq(Entries), NEW d \in Nat, Queued(f, B, d), f # <<>>
  PROVE  /\ d <= Head(f).depth /\ Head(f).depth <= d + 1 /\ Head(f).depth <= maxDepth
         /\ Head(f).node \in B[Head(f).depth]
         /\ Queued(Tail(f), B, Head(f).depth)
         /\ \A n \in Waiting(f) : \A k \in 0..maxDepth : n \in B[k] => Head(f).depth <= k
<1> DEFINE g == Tail(f)
           h == Head(f).depth
<1>0. maxDepth \in Nat
  BY BoundsAssumption DEF TypeOK
<1>1. /\ Head(f) \in Entries /\ g \in Seq(Entries) /\ Len(g) = Len(f) - 1
      /\ \A i \in 1..Len(g) : g[i] = f[i + 1]
      /\ Len(f) \in Nat \ {0} /\ Head(f) = f[1]
  BY HeadTailProperties, EmptySeq
<1>2. 1 \in 1..Len(f) /\ \A i \in 1..Len(g) : i + 1 \in 1..Len(f)
  BY <1>1
<1>3. \A i \in 1..Len(f) : f[i].depth \in Nat
  <2>1. ASSUME NEW i \in 1..Len(f) PROVE f[i] \in Entries
    <3> HIDE DEF Entries
    <3>1. QED
      BY ElementOfSeq
  <2>2. QED
    BY <2>1 DEF Entries
<1>4. \A i \in 1..Len(f) : h <= f[i].depth
  <2>1. \A i \in 1..Len(f) : i = 1 \/ 1 < i
    BY <1>1
  <2>2. QED
    BY <1>1, <1>2, <1>3, <2>1 DEF Queued
<1>5. d <= h /\ h <= d + 1 /\ h <= maxDepth /\ h \in Nat /\ Head(f).node \in B[h]
  BY <1>1, <1>2, <1>3 DEF Queued
<1> HIDE DEF g, h
<1>6. Queued(g, B, h)
  <2>1. ASSUME NEW i \in 1..Len(g)
        PROVE  /\ h <= g[i].depth /\ g[i].depth <= h + 1 /\ g[i].depth <= maxDepth
               /\ g[i].node \in B[g[i].depth]
               /\ \A k \in 0..maxDepth : g[i].node \in B[k] => g[i].depth <= k
    <3>1. i + 1 \in 1..Len(f) /\ g[i] = f[i + 1]
      BY <1>1, <1>2
    <3>2. QED
      BY <1>3, <1>4, <1>5, <3>1 DEF Queued
  <2>2. ASSUME NEW i \in 1..Len(g), NEW j \in 1..Len(g), i < j
        PROVE  g[i].depth <= g[j].depth
    <3>1. i + 1 \in 1..Len(f) /\ j + 1 \in 1..Len(f) /\ i + 1 < j + 1 /\ g[i] = f[i + 1] /\ g[j] = f[j + 1]
      BY <1>1, <1>2, <2>2
    <3>2. QED
      BY <3>1 DEF Queued
  <2>3. QED
    BY <2>1, <2>2 DEF Queued
<1>7. ASSUME NEW n \in Waiting(f), NEW k \in 0..maxDepth, n \in B[k]
      PROVE  h <= k
  <2>1. PICK i \in 1..Len(f) : n = f[i].node
    BY DEF Waiting
  <2>2. f[i].depth <= k
    BY <1>7, <2>1 DEF Queued
  <2>3. QED
    BY <1>3, <1>4, <1>5, <2>2
<1>8. QED
  BY <1>5, <1>6, <1>7 DEF g, h

-----------------------------------------------------------------------------
(* One walk with room for every file. *)

Lone(r) == query.ids = {r} /\ maxNodes > Cardinality(Ids)

LEMMA RoomForAll ==
  ASSUME TypeOK, NEW B, NEW r, Lone(r), SearchInv(B), phase \in {"seed", "walk"}
  PROVE  Admits <=> depth < maxDepth
<1>1. budget = maxNodes /\ maxNodes \in Nat /\ maxDepth \in Nat /\ depth \in Nat
  BY BoundsAssumption DEF SearchInv, TypeOK
<1>2. Cardinality(emitted) <= Cardinality(Ids) /\ Cardinality(emitted) \in Nat
  BY IdsAssumption, FS_Subset, FS_CardinalityType DEF TypeOK
<1>3. Cardinality(Ids) \in Nat
  BY IdsAssumption, FS_CardinalityType
<1>4. QED
  BY <1>1, <1>2, <1>3 DEF Admits, Lone

LEMMA SearchAdmit ==
  ASSUME TypeOK, [Next]_vars, NEW B, NEW r, Layering(B, r), Searching(B),
         NEW n \in pending, n \notin visited, pending' = pending \ {n}, depth < maxDepth,
         Admit(n), UNCHANGED depth
  PROVE  Searching(B)'
<1>0. maxDepth \in Nat /\ depth \in Nat /\ frontier \in Seq(Entries) /\ n \in Nodes
  BY BoundsAssumption DEF TypeOK, Entries
<1>1. /\ visited' = visited \cup {n} /\ Waiting(frontier') = Waiting(frontier) \cup {n}
      /\ emitted \subseteq emitted' /\ (n[1] = "file" => n[2] \in emitted')
      /\ emitted' \subseteq emitted \cup FilesOf({n})
      /\ frontier' = Append(frontier, [node |-> n, depth |-> depth + 1])
  BY <1>0, AdmitEffect DEF Admit
<1>2. UNCHANGED <<query, maxDepth>> /\ \A v : Neighbours(v)' = Neighbours(v)
  BY CallKept DEF call
<1>3. depth + 1 \in 0..maxDepth /\ n \in B[depth + 1]
  BY <1>0 DEF Searching
<1>4. B[depth + 1] \subseteq B[maxDepth]
  BY <1>0, <1>3, LayersGrow
<1>5. \A k \in 0..depth : n \notin B[k]
  <2>1. \A k \in 0..depth : B[k] \subseteq B[depth]
    BY <1>0, LayersGrow
  <2>2. QED
    BY <2>1 DEF Searching
<1>6. Queued(frontier', B, depth)
  BY <1>0, <1>1, <1>3, <1>5, QueuePushed DEF Searching
<1>7. FilesOf(visited') \subseteq emitted' \cup query.ids /\ emitted' \subseteq FilesOf(visited')
  BY <1>1 DEF Searching, FilesOf
<1>8. \A v \in visited' : Neighbours(v) \subseteq visited' \cup pending' \/ v \in Waiting(frontier')
  BY <1>1 DEF Searching
<1>9. Queued(frontier, B, depth)' /\ FilesOf(visited)' = FilesOf(visited')
  BY <1>2, <1>6 DEF Queued, FilesOf
<1>10. visited' \subseteq B[maxDepth] /\ B[depth] \subseteq visited' /\ pending' \subseteq B[depth + 1]
  BY <1>1, <1>3, <1>4 DEF Searching
<1>11. QED
  <2>1. /\ depth' <= maxDepth' /\ visited' \subseteq B[maxDepth'] /\ B[depth'] \subseteq visited'
        /\ pending' \subseteq B[depth' + 1] /\ Queued(frontier, B, depth)'
    BY <1>0, <1>2, <1>9, <1>10
  <2>2. /\ (FilesOf(visited) \subseteq emitted \cup query.ids)' /\ (emitted \subseteq FilesOf(visited))'
        /\ \A v \in visited' : (Neighbours(v) \subseteq visited \cup pending \/ v \in Waiting(frontier))'
    BY <1>2, <1>7, <1>8, <1>9 DEF Waiting
  <2>3. QED
    BY <2>1, <2>2 DEF Searching

\* What does not change when only the walk under way may change.
LEMMA SearchGoesOn ==
  ASSUME TypeOK, [Next]_vars, NEW B, SearchInv(B), phase \in {"seed", "walk"},
         phase' \in {"seed", "walk"}, UNCHANGED <<todo, affected, budget>>, Searching(B)',
         phase' = "seed" => pending' \cap visited' = {}
  PROVE  SearchInv(B)'
BY CallKept DEF SearchInv, call

LEMMA SearchStart ==
  ASSUME TypeOK, [Next]_vars, NEW B, NEW r, Layering(B, r), Lone(r), SearchInv(B), StartWalk
  PROVE  SearchInv(B)'
<1>0. maxDepth \in Nat /\ maxNodes \in Nat /\ r \in Ids
  BY BoundsAssumption, QueriesAssumption DEF TypeOK, Lone
<1>1. PICK root \in todo :
          /\ StartOf(root) \in Nodes
          /\ todo' = todo \ {root} /\ visited' = {StartOf(root)}
          /\ \/ phase' = "walk" /\ pending' = {}
                /\ frontier' = <<[node |-> StartOf(root), depth |-> 0]>>
             \/ phase' = "seed" /\ frontier' = <<>>
                /\ pending' = Neighbours(StartOf(root)) \ {StartOf(root)}
  BY StartEffect
<1>2. /\ UNCHANGED <<query, maxDepth, maxNodes>> /\ \A v : Neighbours(v)' = Neighbours(v)
  BY CallKept DEF call
<1>3. root = r /\ todo' = {} /\ phase = "next" /\ affected = query.ids /\ affected' = affected
  BY <1>1 DEF StartWalk, TypeOK, Lone, SearchInv
<1>4. budget' = maxNodes
  <2>1. Cardinality(query.ids) \in Nat
    BY Sizes
  <2>2. QED
    BY <1>0, <1>3, <2>1 DEF StartWalk, WalkBudget
<1>5. depth' = 0 /\ emitted' = {}
  BY DEF StartWalk
<1>6. B[0] = {StartOf(r)} /\ B[0] \subseteq B[maxDepth]
  BY <1>0, LayersGrow DEF Layering
<1>7. 0 < maxDepth => Neighbours(StartOf(r)) \subseteq B[1]
  <2> SUFFICES ASSUME 0 < maxDepth PROVE Neighbours(StartOf(r)) \subseteq B[1]
    OBVIOUS
  <2>1. 1 \in 1..maxDepth /\ 1 - 1 = 0
    BY <1>0
  <2>2. B[1] = B[0] \cup {n \in Nodes : \E m \in B[0] : n \in Neighbours(m)}
    BY <2>1 DEF Layering
  <2>3. QED
    BY <1>6, <2>2, Adjacent
<1>8. Queued(frontier', B, 0)
  <2>1. CASE frontier' = <<>>
    BY <2>1, EmptySeq DEF Queued
  <2>2. CASE frontier' = <<[node |-> StartOf(r), depth |-> 0]>>
    <3>1. Len(frontier') = 1 /\ frontier'[1].depth = 0 /\ frontier'[1].node = StartOf(r)
      BY <2>2
    <3>2. 1..1 = {1}
      OBVIOUS
    <3>3. QED
      BY <1>0, <1>6, <3>1, <3>2 DEF Queued
  <2>3. QED
    BY <1>1, <1>3, <2>1, <2>2
<1>9. Queued(frontier, B, depth)'
  BY <1>2, <1>5, <1>8 DEF Queued
<1>10. FilesOf(visited)' \subseteq query.ids
  BY <1>1, <1>3 DEF FilesOf, StartOf, Lone
<1>11. Neighbours(StartOf(r)) \subseteq visited' \cup pending' \/ StartOf(r) \in Waiting(frontier)'
  <2>1. Waiting(frontier)' = Waiting(frontier')
    BY DEF Waiting
  <2>2. QED
    BY <1>1, <1>3, <2>1, NoneWaits
<1>12. Searching(B)'
  <2>1. /\ depth' <= maxDepth' /\ visited' \subseteq B[maxDepth'] /\ B[depth'] \subseteq visited'
        /\ (depth' < maxDepth' => pending' \subseteq B[depth' + 1])
    BY <1>0, <1>1, <1>2, <1>3, <1>5, <1>6, <1>7
  <2>2. (FilesOf(visited) \subseteq emitted \cup query.ids)' /\ (emitted \subseteq FilesOf(visited))'
    BY <1>2, <1>5, <1>10
  <2>3. \A v \in visited' : (Neighbours(v) \subseteq visited \cup pending \/ v \in Waiting(frontier))'
    BY <1>1, <1>2, <1>3, <1>11
  <2>4. QED
    BY <1>9, <2>1, <2>2, <2>3 DEF Searching
<1>13. /\ phase' \in {"seed", "walk"} /\ (phase' = "seed" => pending' \cap visited' = {})
  BY <1>1, <1>3
<1>14. QED
  BY <1>2, <1>3, <1>4, <1>12, <1>13 DEF SearchInv

LEMMA SearchStep ==
  ASSUME TypeOK, [Next]_vars, NEW B, NEW r, Layering(B, r), Lone(r), SearchInv(B)
  PROVE  SearchInv(B)'
<1>0. /\ maxDepth \in Nat /\ maxNodes \in Nat /\ depth \in Nat /\ frontier \in Seq(Entries)
  BY BoundsAssumption DEF TypeOK, Entries
<1>a. /\ UNCHANGED <<query, maxDepth, maxNodes>> /\ \A v : Neighbours(v)' = Neighbours(v)
  BY CallKept DEF call
<1>1. CASE StartWalk
  BY <1>1, SearchStart
<1>2. CASE Seed
  <2>1. phase = "seed" /\ UNCHANGED <<todo, affected, budget, depth>>
    BY <1>2 DEF Seed
  <2>2. Searching(B) /\ pending \cap visited = {}
    BY <2>1 DEF SearchInv
  <2>3. ASSUME NEW n \in pending, pending' = pending \ {n}, phase' = phase, Admits, Admit(n)
        PROVE  SearchInv(B)'
    <3>1. depth < maxDepth
      BY <2>1, <2>3, RoomForAll
    <3>2. n \notin visited
      BY <2>2, <2>3
    <3>3. Searching(B)'
      BY <2>1, <2>2, <2>3, <3>1, <3>2, SearchAdmit
    <3>4. visited' = visited \cup {n}
      BY <2>3 DEF Admit
    <3>5. QED
      BY <2>1, <2>2, <2>3, <3>3, <3>4, SearchGoesOn
  <2>4. CASE /\ pending' = {} /\ frontier' = <<>> /\ phase' = "walk" /\ cut' = TRUE
             /\ UNCHANGED <<visited, emitted>> /\ ~Admits
    <3>1. ~ (depth < maxDepth)
      BY <2>1, <2>4, RoomForAll
    <3>2. Queued(frontier, B, depth)'
      BY <2>4, EmptySeq DEF Queued
    <3>3. FilesOf(visited)' = FilesOf(visited)
      BY <2>4 DEF FilesOf
    <3>4. Searching(B)'
      BY <1>a, <2>1, <2>2, <2>4, <3>1, <3>2, <3>3 DEF Searching
    <3>5. QED
      BY <2>1, <2>4, <3>4, SearchGoesOn
  <2>5. QED
    BY <1>2, <2>3, <2>4 DEF Seed, Least
<1>3. CASE SeedsDone
  <2>1. /\ phase = "seed" /\ phase' = "walk"
        /\ UNCHANGED <<todo, affected, budget, depth, pending, visited, frontier, emitted>>
    BY <1>3 DEF SeedsDone
  <2>2. Searching(B)
    BY <2>1 DEF SearchInv
  <2>3. Searching(B)'
    BY <1>a, <2>1, <2>2 DEF Searching, Queued, FilesOf, Waiting
  <2>4. QED
    BY <2>1, <2>3, SearchGoesOn
<1>4. CASE Pop
  <2>1. /\ phase = "walk" /\ pending = {} /\ frontier # <<>> /\ depth' = Head(frontier).depth
        /\ pending' = Neighbours(Head(frontier).node) /\ frontier' = Tail(frontier)
        /\ UNCHANGED <<phase, todo, affected, budget, visited, emitted>>
    BY <1>4 DEF Pop
  <2>2. Searching(B)
    BY <2>1 DEF SearchInv
  <2> DEFINE h == Head(frontier).depth
             v0 == Head(frontier).node
  <2>3. /\ Waiting(frontier) = Waiting(Tail(frontier)) \cup {v0} /\ h \in Nat /\ v0 \in Nodes
    BY <1>0, <2>1, Popped DEF Entries
  <2>4. /\ depth <= h /\ h <= depth + 1 /\ h <= maxDepth /\ v0 \in B[h]
        /\ Queued(Tail(frontier), B, h)
        /\ \A n \in Waiting(frontier) : \A k \in 0..maxDepth : n \in B[k] => h <= k
    BY <1>0, <2>1, <2>2, QueuePopped DEF Searching
  <2> HIDE DEF h, v0
  <2>5. B[h] \subseteq visited
    <3>1. CASE h = depth
      BY <2>2, <3>1 DEF Searching
    <3>2. CASE h = depth + 1
      <4>1. depth \in 0..maxDepth /\ depth + 1 \in 1..maxDepth /\ depth < maxDepth
        BY <1>0, <2>3, <2>4, <3>2
      <4>2. ASSUME NEW v \in B[depth] PROVE Neighbours(v) \subseteq visited
        <5>1. v \notin Waiting(frontier)
          BY <1>0, <2>3, <2>4, <3>2, <4>1, <4>2
        <5>2. QED
          BY <2>1, <2>2, <4>1, <4>2, <5>1 DEF Searching
      <4>3. B[depth + 1] = B[depth] \cup {n \in Nodes : \E m \in B[depth] : n \in Neighbours(m)}
        <5>1. (depth + 1) - 1 = depth
          BY <1>0
        <5>2. QED
          BY <4>1, <5>1 DEF Layering
      <4>4. QED
        BY <2>2, <3>2, <4>2, <4>3 DEF Searching
    <3>3. QED
      BY <1>0, <2>3, <2>4, <3>1, <3>2
  <2>6. h < maxDepth => Neighbours(v0) \subseteq B[h + 1]
    <3> SUFFICES ASSUME h < maxDepth PROVE Neighbours(v0) \subseteq B[h + 1]
      OBVIOUS
    <3>1. h + 1 \in 1..maxDepth /\ (h + 1) - 1 = h
      BY <1>0, <2>3
    <3>2. B[h + 1] = B[h] \cup {n \in Nodes : \E m \in B[h] : n \in Neighbours(m)}
      BY <3>1 DEF Layering
    <3>3. QED
      BY <2>4, <3>2, Adjacent
  <2>7. h < maxDepth => \A v \in visited : Neighbours(v) \subseteq visited \cup pending' \/ v \in Waiting(frontier')
    <3>1. h < maxDepth => depth < maxDepth
      BY <1>0, <2>3, <2>4
    <3>2. QED
      BY <2>1, <2>2, <2>3, <3>1 DEF Searching, v0
  <2>8. depth' = h /\ pending' = Neighbours(v0)
    BY <2>1 DEF h, v0
  <2>9. Searching(B)'
    <3>1. /\ depth' <= maxDepth' /\ visited' \subseteq B[maxDepth'] /\ B[depth'] \subseteq visited'
          /\ (depth' < maxDepth' => pending' \subseteq B[depth' + 1])
      BY <1>a, <2>1, <2>2, <2>4, <2>5, <2>6, <2>8 DEF Searching
    <3>2. Queued(frontier, B, depth)'
      BY <1>a, <2>1, <2>4, <2>8 DEF Queued
    <3>3. /\ (FilesOf(visited) \subseteq emitted \cup query.ids)' /\ (emitted \subseteq FilesOf(visited))'
      BY <1>a, <2>1, <2>2 DEF Searching, FilesOf
    <3>4. depth' < maxDepth' =>
            \A v \in visited' : (Neighbours(v) \subseteq visited \cup pending \/ v \in Waiting(frontier))'
      BY <1>a, <2>1, <2>7, <2>8 DEF Waiting
    <3>5. QED
      BY <3>1, <3>2, <3>3, <3>4 DEF Searching
  <2>10. QED
    BY <2>1, <2>9, SearchGoesOn
<1>5. CASE Visit
  <2>1. phase = "walk" /\ UNCHANGED <<phase, todo, affected, budget, depth>>
    BY <1>5 DEF Visit
  <2>2. Searching(B)
    BY <2>1 DEF SearchInv
  <2>3. PICK n \in pending :
           /\ pending' = pending \ {n}
           /\ IF n \in visited THEN UNCHANGED <<visited, frontier, emitted, cut>>
              ELSE IF Admits THEN Admit(n) ELSE Refuse
    BY <1>5 DEF Visit, Least
  <2>4. CASE n \notin visited /\ Admits
    <3>1. depth < maxDepth
      BY <2>1, <2>4, RoomForAll
    <3>2. Searching(B)'
      BY <2>1, <2>2, <2>3, <2>4, <3>1, SearchAdmit
    <3>3. QED
      BY <2>1, <3>2, SearchGoesOn
  <2>5. CASE n \in visited \/ ~Admits
    <3>1. UNCHANGED <<visited, frontier, emitted>> /\ (n \in visited \/ ~ (depth < maxDepth))
      BY <2>1, <2>3, <2>5, RoomForAll DEF Refuse
    <3>2. FilesOf(visited)' = FilesOf(visited) /\ Waiting(frontier)' = Waiting(frontier)
      BY <3>1 DEF FilesOf, Waiting
    <3>3. Queued(frontier, B, depth)'
      BY <1>a, <2>1, <2>2, <3>1 DEF Searching, Queued
    <3>4. depth < maxDepth => \A v \in visited : Neighbours(v) \subseteq visited \cup pending' \/ v \in Waiting(frontier)
      BY <2>2, <2>3, <3>1 DEF Searching
    <3>5. depth < maxDepth => pending' \subseteq B[depth + 1]
      BY <2>2, <2>3 DEF Searching
    <3>6. Searching(B)'
      BY <1>a, <2>1, <2>2, <3>1, <3>2, <3>3, <3>4, <3>5 DEF Searching
    <3>7. QED
      BY <2>1, <3>6, SearchGoesOn
  <2>6. QED
    BY <2>4, <2>5
<1>6. CASE EndWalk
  <2>1. /\ phase = "walk" /\ pending = {} /\ frontier = <<>> /\ phase' = "next"
        /\ affected' = affected \cup emitted /\ UNCHANGED <<todo, visited>>
    BY <1>6 DEF EndWalk, Gather
  <2>2. Searching(B) /\ todo = {} /\ affected = query.ids
    BY <2>1 DEF SearchInv
  <2>3. B[maxDepth] \subseteq visited
    <3>1. CASE depth = maxDepth
      BY <2>2, <3>1 DEF Searching
    <3>2. CASE depth < maxDepth
      <4>1. \A v \in visited : Neighbours(v) \subseteq visited
        BY <2>1, <2>2, <3>2, NoneWaits DEF Searching
      <4>2. depth \in 0..maxDepth /\ B[depth] \subseteq visited
        BY <1>0, <2>2, <3>2 DEF Searching
      <4>3. QED
        BY <4>1, <4>2, ClosedHoldsLayers
    <3>3. QED
      BY <1>0, <2>2, <3>1, <3>2 DEF Searching
  <2>4. visited = B[maxDepth]
    BY <2>2, <2>3 DEF Searching
  <2>5. affected' = query.ids \cup FilesOf(B[maxDepth])
    BY <2>1, <2>2, <2>4 DEF Searching
  <2>6. QED
    BY <1>a, <2>1, <2>2, <2>5 DEF SearchInv, FilesOf
<1>7. CASE Return
  <2>1. phase = "next" /\ todo = {} /\ phase' = "done" /\ UNCHANGED <<todo, affected>>
    BY <1>7 DEF Return
  <2>2. QED
    BY <1>a, <2>1 DEF SearchInv, FilesOf
<1>8. CASE UNCHANGED vars
  BY <1>8 DEF vars, SearchInv, Searching, Queued, FilesOf, Waiting, Neighbours
<1>9. QED
  BY <1>1, <1>2, <1>3, <1>4, <1>5, <1>6, <1>7, <1>8 DEF Next

-----------------------------------------------------------------------------
(* A counted loop has a state after each of its rounds.                    *)
LoopOf(f, S, start, n, step) ==
    f \in [0..n -> S] /\ f[0] = start /\ \A i \in 1..n : f[i] = step[i][f[i - 1]]

LEMMA LoopStates ==
  ASSUME NEW S, NEW start \in S, NEW n \in Nat, NEW step \in [1..n -> [S -> S]]
  PROVE  \E f : LoopOf(f, S, start, n, step)
<1> DEFINE Good(g, k) == /\ g \in [0..k -> S] /\ g[0] = start
                         /\ \A i \in 1..k : g[i] = step[i][g[i - 1]]
           D == {k \in Nat : k <= n => \E g \in [0..k -> S] : Good(g, k)}
<1>1. 0 \in D
  <2>1. Good([i \in 0..0 |-> start], 0)
    OBVIOUS
  <2>2. QED
    BY <2>1
<1>2. ASSUME NEW k \in D PROVE k + 1 \in D
  <2>1. SUFFICES ASSUME k + 1 <= n PROVE \E g \in [0..(k+1) -> S] : Good(g, k+1)
    OBVIOUS
  <2>2. PICK g : Good(g, k)
    BY <1>2, <2>1
  <2> DEFINE h == [i \in 0..(k + 1) |-> IF i = k + 1 THEN step[k + 1][g[k]] ELSE g[i]]
  <2>3. h \in [0..(k+1) -> S]
    BY <2>1, <2>2
  <2>4. Good(h, k + 1)
    BY <2>1, <2>2, <2>3
  <2>5. QED
    BY <2>3, <2>4
<1>3. D = Nat
  <2> HIDE DEF D
  <2>1. D \in SUBSET Nat
    BY DEF D
  <2>2. QED
    BY <1>1, <1>2, <2>1, Induction
<1>4. n \in D
  BY <1>3
<1>5. QED
  BY <1>4 DEF LoopOf

\* The recursion of Ball has a solution, and it is a layering.
LEMMA BallIsLayered ==
  ASSUME TypeOK, NEW r \in Ids
  PROVE  \E B : Layering(B, r) /\ Ball(StartOf(r)) = B[maxDepth]
<1> DEFINE start == StartOf(r)
           Leads(m, n) == IF query.direction = "forward" THEN <<m, n>> \in Needs ELSE <<n, m>> \in Needs
           More(V) == V \cup {n \in Nodes : \E m \in V : Leads(m, n)}
           step == [k \in 1..maxDepth |-> [V \in SUBSET Nodes |-> More(V)]]
           ball == CHOOSE g : g = [k \in 0..maxDepth |-> IF k = 0 THEN {start} ELSE More(g[k - 1])]
<1>0. maxDepth \in Nat /\ start \in Nodes
  BY BoundsAssumption DEF TypeOK, StartOf, Nodes
<1>1. Ball(start) = ball[maxDepth]
  BY DEF Ball
<1>2. \A m, n \in Nodes : Leads(m, n) <=> n \in Neighbours(m)
  BY Adjacent
<1> HIDE DEF Leads
<1>3. step \in [1..maxDepth -> [SUBSET Nodes -> SUBSET Nodes]]
  OBVIOUS
<1>4. PICK f : LoopOf(f, SUBSET Nodes, {start}, maxDepth, step)
  <2> HIDE DEF step, ball
  <2>1. {start} \in SUBSET Nodes
    BY <1>0
  <2>2. QED
    BY <1>0, <1>3, <2>1, LoopStates
<1>5. f = [k \in 0..maxDepth |-> IF k = 0 THEN {start} ELSE More(f[k - 1])]
  <2>1. f \in [0..maxDepth -> SUBSET Nodes] /\ f[0] = {start}
        /\ \A k \in 1..maxDepth : f[k] = step[k][f[k - 1]]
    BY <1>4 DEF LoopOf
  <2>2. \A k \in 1..maxDepth : f[k] = More(f[k - 1])
    <3>1. ASSUME NEW k \in 1..maxDepth PROVE f[k] = More(f[k - 1])
      <4>1. k - 1 \in 0..maxDepth
        BY <1>0
      <4>2. f[k - 1] \in SUBSET Nodes
        BY <2>1, <4>1
      <4> HIDE DEF More
      <4>3. QED
        BY <2>1, <4>2
    <3>2. QED
      BY <3>1
  <2> HIDE DEF More
  <2>3. QED
    BY <1>0, <2>1, <2>2
<1> HIDE DEF More, step
<1>6. ball = [k \in 0..maxDepth |-> IF k = 0 THEN {start} ELSE More(ball[k - 1])]
  BY <1>5
<1> HIDE DEF ball
<1>7. ball[0] = {start} /\ \A k \in 1..maxDepth : ball[k] = More(ball[k - 1])
  <2> HIDE DEF start
  <2>1. \A k \in 0..maxDepth : ball[k] = IF k = 0 THEN {start} ELSE More(ball[k - 1])
    BY <1>6, Zenon
  <2>2. 0 \in 0..maxDepth /\ \A k \in 1..maxDepth : k \in 0..maxDepth /\ k # 0
    BY <1>0
  <2>3. QED
    BY <2>1, <2>2, Zenon
<1>8. ball \in [0..maxDepth -> SUBSET Nodes]
  <2> DEFINE D == {k \in Nat : k <= maxDepth => ball[k] \in SUBSET Nodes}
  <2>1. 0 \in D
    BY <1>0, <1>7
  <2>2. ASSUME NEW k \in D PROVE k + 1 \in D
    <3>1. SUFFICES ASSUME k + 1 <= maxDepth PROVE ball[k + 1] \in SUBSET Nodes
      OBVIOUS
    <3>2. k + 1 \in 1..maxDepth /\ (k + 1) - 1 = k /\ k <= maxDepth
      BY <1>0, <3>1
    <3>3. ball[k + 1] = More(ball[k])
      BY <1>7, <3>2
    <3>4. QED
      BY <2>2, <3>2, <3>3 DEF More
  <2>3. D \in SUBSET Nat
    OBVIOUS
  <2>4. D = Nat
    <3> HIDE DEF D
    <3>1. QED
      BY <2>1, <2>2, <2>3, Induction
  <2>5. \A k \in 0..maxDepth : ball[k] \in SUBSET Nodes
    BY <1>0, <2>4
  <2>6. QED
    BY <1>6, <2>5
<1>9. ASSUME NEW k \in 1..maxDepth
      PROVE  ball[k] = ball[k - 1] \cup {n \in Nodes : \E m \in ball[k - 1] : n \in Neighbours(m)}
  <2>1. ball[k - 1] \in SUBSET Nodes /\ ball[k] = More(ball[k - 1])
    BY <1>0, <1>7, <1>8
  <2>2. QED
    BY <1>2, <2>1 DEF More
<1>10. Layering(ball, r)
  BY <1>7, <1>8, <1>9 DEF Layering
<1>11. QED
  BY <1>1, <1>10

(* Whatever detours the table has, a walk with room for every file finds   *)
(* exactly the files within max_depth edges of its start.                  *)
THEOREM DepthIsShortestPath == Spec => []ShortestFirst
<1> DEFINE SearchesInv == \A B, r : Layering(B, r) /\ Lone(r) => SearchInv(B)
<1>1. Init => SearchesInv
  <2> SUFFICES ASSUME Init, NEW B, NEW r, Lone(r) PROVE SearchInv(B)
    OBVIOUS
  <2>1. todo = query.ids /\ affected = query.ids /\ phase = "next" /\ todo # {}
    BY DEF Init, Lone
  <2>2. QED
    BY <2>1 DEF SearchInv
<1>2. TypeOK /\ SearchesInv /\ [Next]_vars => SearchesInv'
  <2> SUFFICES ASSUME TypeOK, SearchesInv, [Next]_vars, NEW B, NEW r, Layering(B, r)', Lone(r)'
               PROVE  SearchInv(B)'
    OBVIOUS
  <2>1. Layering(B, r) /\ Lone(r)
    BY CallKept DEF Layering, Lone, call
  <2>2. QED
    BY <2>1, SearchStep
<1>3. TypeOK /\ SearchesInv => ShortestFirst
  <2> SUFFICES ASSUME TypeOK, SearchesInv, phase = "done", Cardinality(query.ids) = 1,
                      maxNodes > Cardinality(Ids), NEW id \in query.ids
               PROVE  affected = query.ids \cup FilesOf(Ball(StartOf(id)))
    BY DEF ShortestFirst
  <2>1. Lone(id) /\ id \in Ids
    <3>1. IsFiniteSet(query.ids) /\ id \in Ids
      BY Sizes
    <3>2. PICK x : query.ids = {x}
      BY <3>1, FS_Singleton
    <3>3. QED
      BY <3>1, <3>2 DEF Lone
  <2>2. PICK B : Layering(B, id) /\ Ball(StartOf(id)) = B[maxDepth]
    BY <2>1, BallIsLayered
  <2>3. SearchInv(B)
    BY <2>1, <2>2
  <2>4. QED
    BY <2>2, <2>3 DEF SearchInv
<1>4. QED
  BY <1>1, <1>2, <1>3, TypeCorrect, PTL DEF Spec
=============================================================================

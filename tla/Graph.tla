------------------------------- MODULE Graph -------------------------------
(***************************************************************************)
(* The bounded walks over the file and symbol edges of one snapshot        *)
(* (runner/mncs_index/graph.py): traverse_dependencies (forward, from one  *)
(* file), traverse_dependents (reverse, from a file or a symbol) and       *)
(* invalidation_set, which runs one reverse walk per changed path and      *)
(* shrinks its node budget by what the earlier ones gathered.              *)
(*                                                                         *)
(* A path and a symbol are the same strings to the code, so both are Ids   *)
(* here and a node is a pair <<kind, id>>; Ids are integers and their      *)
(* order stands for the byte order the neighbours are sorted in.  One step *)
(* is one candidate of one frontier entry.                                 *)
(***************************************************************************)
EXTENDS Integers, Sequences, FiniteSets

CONSTANTS
    Ids,         \* paths and symbols
    EdgeTables,  \* the snapshots asked about: records of depends-on and defines edges <<src, dst>>
    Queries,     \* the calls: records of a direction and the ids asked for
    Depths,      \* values of max_depth
    Caps         \* values of max_nodes

ASSUME IdsAssumption == Ids \subseteq Int /\ IsFiniteSet(Ids)
ASSUME TablesAssumption ==
    EdgeTables \subseteq [depends : SUBSET (Ids \X Ids), defines : SUBSET (Ids \X Ids)]
ASSUME QueriesAssumption ==
    /\ Queries \subseteq [direction : {"forward", "reverse"}, ids : SUBSET Ids]
    /\ \A q \in Queries : q.direction = "forward" => \E r \in Ids : q.ids = {r}
ASSUME BoundsAssumption == Depths \subseteq Nat /\ Caps \subseteq Nat

Nodes == {"file", "sym"} \X Ids

VARIABLES
    edges,      \* the adjacency of build_graph
    query,      \* the call under way
    maxDepth, maxNodes,
    todo,       \* changed paths whose walk has not begun
    affected,   \* the files gathered so far, and the ids asked for
    truncated,  \* the flag of the answer
    phase,      \* "next" walk, "seed", "walk" or "done"
    budget,     \* max_nodes of the current walk
    depth,      \* depth of the entry whose neighbours are tried
    pending,    \* its neighbours not tried yet
    visited, frontier, emitted,
    cut         \* the walk refused a candidate

vars == <<edges, query, maxDepth, maxNodes, todo, affected, truncated, phase,
          budget, depth, pending, visited, frontier, emitted, cut>>
call == <<edges, query, maxDepth, maxNodes>>

\* The first of some neighbours, which are all of one kind.
Least(S) == {n \in S : \A m \in S : n[2] <= m[2]}

FilesOf(S) == {id \in Ids : <<"file", id>> \in S}

\* Fault: a file leads to the symbols it depends on in both directions.
NeighboursForward(node) ==
    LET fromSym == IF query.direction = "forward" THEN edges.defines ELSE edges.depends
    IN  IF node[1] = "file"
        THEN {n \in Nodes : n[1] = "sym" /\ <<node[2], n[2]>> \in edges.depends}
        ELSE {n \in Nodes : n[1] = "file" /\ <<n[2], node[2]>> \in fromSym}

(* What build_graph projects an edge table onto, for the direction asked:  *)
(* a file leads to the symbols it depends on (defines), a symbol to the    *)
(* files that define it (depend on it).                                    *)
Neighbours(node) ==
    LET fromFile == IF query.direction = "forward" THEN edges.depends ELSE edges.defines
        fromSym  == IF query.direction = "forward" THEN edges.defines ELSE edges.depends
    IN  IF node[1] = "file"
        THEN {n \in Nodes : n[1] = "sym" /\ <<node[2], n[2]>> \in fromFile}
        ELSE {n \in Nodes : n[1] = "file" /\ <<n[2], node[2]>> \in fromSym}

(* A reverse walk takes an id for a file when the table knows it as one. *)
IsFile(id) == \E e \in edges.depends \cup edges.defines : e[1] = id

StartOf(id) ==
    IF query.direction = "forward" \/ IsFile(id) THEN <<"file", id>> ELSE <<"sym", id>>

Init ==
    /\ edges \in EdgeTables
    /\ query \in Queries
    /\ maxDepth \in Depths
    /\ maxNodes \in Caps
    /\ todo = query.ids
    /\ affected = query.ids
    /\ truncated = FALSE
    /\ phase = "next"
    /\ budget = 0
    /\ depth = 0
    /\ pending = {}
    /\ visited = {}
    /\ frontier = <<>>
    /\ emitted = {}
    /\ cut = FALSE

-----------------------------------------------------------------------------
\* Fault: every walk gets the whole budget.
WalkBudgetWhole == maxNodes

(* max_nodes of the walk from the next changed path. *)
WalkBudget ==
    LET gathered == Cardinality(affected) - Cardinality(query.ids)
    IN  IF gathered <= maxNodes THEN maxNodes - gathered ELSE 0

(* A forward walk starts with the root in its frontier; a reverse walk     *)
(* first admits the neighbours of its start, the seeds.                    *)
StartWalk ==
    /\ phase = "next"
    /\ \E root \in todo :
         /\ \A other \in todo : root <= other
         /\ todo' = todo \ {root}
         /\ visited' = {StartOf(root)}
         /\ IF query.direction = "forward"
            THEN /\ phase' = "walk"
                 /\ pending' = {}
                 /\ frontier' = <<[node |-> StartOf(root), depth |-> 0]>>
            ELSE /\ phase' = "seed"
                 /\ pending' = Neighbours(StartOf(root)) \ {StartOf(root)}
                 /\ frontier' = <<>>
    /\ budget' = WalkBudget
    /\ depth' = 0
    /\ emitted' = {}
    /\ cut' = FALSE
    /\ UNCHANGED <<call, affected, truncated>>

(* Kernels.should_visit over a candidate that is not visited. *)
Admits == depth + 1 <= maxDepth /\ Cardinality(emitted) < budget

Admit(n) ==
    /\ visited' = visited \cup {n}
    /\ frontier' = Append(frontier, [node |-> n, depth |-> depth + 1])
    /\ emitted' = IF n[1] = "file" THEN emitted \cup {n[2]} ELSE emitted
    /\ UNCHANGED cut

\* Fault: a refused candidate is skipped like a visited one.
RefuseSilently == UNCHANGED <<visited, frontier, emitted, cut>>

Refuse == cut' = TRUE /\ UNCHANGED <<visited, frontier, emitted>>

(* The answer of a walk joins the answer of the call. *)
Gather ==
    /\ affected' = affected \cup emitted
    /\ truncated' = (truncated \/ cut)
    /\ phase' = "next"
    /\ UNCHANGED <<call, todo, budget, depth, pending, visited, frontier, emitted, cut>>

(* A seed that is refused ends its walk with what was admitted before it. *)
Seed ==
    /\ phase = "seed" /\ pending # {}
    /\ IF Admits
       THEN /\ \E n \in Least(pending) : pending' = pending \ {n} /\ Admit(n)
            /\ UNCHANGED phase
       ELSE /\ pending' = {}
            /\ frontier' = <<>>
            /\ phase' = "walk"
            /\ cut' = TRUE
            /\ UNCHANGED <<visited, emitted>>
    /\ UNCHANGED <<call, todo, affected, truncated, budget, depth>>

SeedsDone ==
    /\ phase = "seed" /\ pending = {}
    /\ phase' = "walk"
    /\ UNCHANGED <<call, todo, affected, truncated, budget, depth, pending,
                   visited, frontier, emitted, cut>>

\* Fault: the frontier is used as a stack.
PopLast ==
    /\ phase = "walk" /\ pending = {} /\ frontier # <<>>
    /\ depth' = frontier[Len(frontier)].depth
    /\ pending' = Neighbours(frontier[Len(frontier)].node)
    /\ frontier' = SubSeq(frontier, 1, Len(frontier) - 1)
    /\ UNCHANGED <<call, todo, affected, truncated, phase, budget, visited, emitted, cut>>

(* frontier.pop(0): first in, first out. *)
Pop ==
    /\ phase = "walk" /\ pending = {} /\ frontier # <<>>
    /\ depth' = Head(frontier).depth
    /\ pending' = Neighbours(Head(frontier).node)
    /\ frontier' = Tail(frontier)
    /\ UNCHANGED <<call, todo, affected, truncated, phase, budget, visited, emitted, cut>>

Visit ==
    /\ phase = "walk"
    /\ \E n \in Least(pending) :
         /\ pending' = pending \ {n}
         /\ IF n \in visited THEN UNCHANGED <<visited, frontier, emitted, cut>>
            ELSE IF Admits THEN Admit(n)
            ELSE Refuse
    /\ UNCHANGED <<call, todo, affected, truncated, phase, budget, depth>>

EndWalk ==
    /\ phase = "walk" /\ pending = {} /\ frontier = <<>>
    /\ Gather

Return ==
    /\ phase = "next" /\ todo = {}
    /\ phase' = "done"
    /\ UNCHANGED <<call, todo, affected, truncated, budget, depth, pending,
                   visited, frontier, emitted, cut>>

Next == StartWalk \/ Seed \/ SeedsDone \/ Pop \/ Visit \/ EndWalk \/ Return

Spec == Init /\ [][Next]_vars

-----------------------------------------------------------------------------
(* Properties *)

(* The dependency relation a walk follows, backwards when it is reverse: a  *)
(* file needs its symbols, a symbol needs the files that define it.        *)
Needs ==
    {<<<<"file", e[1]>>, <<"sym", e[2]>>>> : e \in edges.depends}
    \cup {<<<<"sym", e[2]>>, <<"file", e[1]>>>> : e \in edges.defines}

Closed(C) ==
    \A e \in Needs : IF query.direction = "forward" THEN e[1] \in C => e[2] \in C
                                                   ELSE e[2] \in C => e[1] \in C

Starts == {StartOf(id) : id \in query.ids}

TypeOK ==
    /\ edges \in EdgeTables
    /\ query \in Queries
    /\ maxDepth \in Depths
    /\ maxNodes \in Caps
    /\ todo \subseteq query.ids
    /\ affected \in SUBSET Ids
    /\ truncated \in BOOLEAN
    /\ phase \in {"next", "seed", "walk", "done"}
    /\ budget \in Nat
    /\ depth \in Nat
    /\ pending \subseteq Nodes
    /\ visited \subseteq Nodes
    /\ frontier \in Seq([node : Nodes, depth : Nat])
    /\ emitted \in SUBSET Ids
    /\ cut \in BOOLEAN

(* Nothing is invalidated without a cause: what the walks gathered lies    *)
(* in every set of nodes that contains the starts and is closed under the  *)
(* edges, whatever cycles, diamonds and names shared by a path and a       *)
(* symbol the table has.                                                   *)
Sound ==
    phase = "done" =>
        \A C \in SUBSET Nodes :
            Starts \subseteq C /\ Closed(C) => affected \subseteq query.ids \cup FilesOf(C)

(* Nothing is missed without notice: an answer that does not say truncated *)
(* contains the files of some closed set around the starts, hence every    *)
(* file that transitively depends on a changed one.                        *)
Complete ==
    phase = "done" /\ ~truncated =>
        \E C \in SUBSET Nodes :
            Starts \subseteq C /\ Closed(C) /\ FilesOf(C) \subseteq affected \cup query.ids

(* max_nodes bounds the files of all the walks together; the changed paths *)
(* themselves are always there.                                            *)
Capped ==
    /\ query.ids \subseteq affected
    /\ Cardinality(affected \ query.ids) <= maxNodes

(* Within k edges of the start, by layers. *)
Ball(start) ==
    LET ball[k \in 0..maxDepth] ==
            IF k = 0 THEN {start}
            ELSE ball[k - 1] \cup {n \in Nodes : \E m \in ball[k - 1] :
                    IF query.direction = "forward" THEN <<m, n>> \in Needs ELSE <<n, m>> \in Needs}
    IN  ball[maxDepth]

(* Depth is counted along shortest paths: when the node budget cannot bite *)
(* a walk finds exactly the files within max_depth edges, so no detour     *)
(* taken first hides a file that is near enough.                           *)
ShortestFirst ==
    phase = "done" /\ Cardinality(query.ids) = 1 /\ maxNodes > Cardinality(Ids) =>
        \A id \in query.ids : affected = query.ids \cup FilesOf(Ball(StartOf(id)))
=============================================================================

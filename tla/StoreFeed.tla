----------------------------- MODULE StoreFeed -----------------------------
(***************************************************************************)
(* The derived relation index over the commit feed of a canonical Store    *)
(* (runner/mncs_index/store_feed.py).  The Store is external: it commits   *)
(* numbered generations, and its consumer may hand them to the index late, *)
(* twice, out of order, damaged or not at all, hear of a generation before *)
(* its commit arrives, and destroy or rebuild the index at any time.       *)
(***************************************************************************)
EXTENDS Integers, Sequences

CONSTANTS
    Identities,   \* (kind, source, target, ordinal) of a relation
    MaxGen        \* bound on the generations the Store commits

ASSUME FeedAssumption == MaxGen \in Nat /\ Identities # {}

VARIABLES
    commits,     \* the Store: the identities that each generation writes
    relations,   \* _relations: the generation of each, 0 when there is none
    through,     \* index_through_generation
    seen,        \* store_generation
    accepted,    \* the generations accepted since the index was empty
    told         \* the newest generation heard of since then

index == <<relations, through, seen>>
vars == <<commits, index, accepted, told>>

Newest(S) == CHOOSE g \in S : \A h \in S : h <= g
Larger(a, b) == IF a < b THEN b ELSE a
Committed == 1..Len(commits)

\* A new DerivedStoreIndex.
Nothing == [relations |-> [i \in Identities |-> 0], through |-> 0, seen |-> 0]

Init ==
    /\ commits = <<>>
    /\ relations = Nothing.relations /\ through = 0 /\ seen = 0
    /\ accepted = {}
    /\ told = 0

Become(ix) ==
    /\ relations' = ix.relations
    /\ through' = ix.through
    /\ seen' = ix.seen

(* The Store commits: later generations may write an identity again. *)
Commit(ids) ==
    /\ Len(commits) < MaxGen
    /\ commits' = Append(commits, ids)
    /\ UNCHANGED <<index, accepted, told>>

-----------------------------------------------------------------------------
\* Fault: the head follows the commit, also back.
AcceptFollows(ix, g) ==
    [relations |-> [i \in Identities |-> IF i \in commits[g] THEN g ELSE ix.relations[i]],
     through |-> g, seen |-> g]

(* _accept: later rows replace earlier ones of the same identity. *)
Accept(ix, g) ==
    [relations |-> [i \in Identities |-> IF i \in commits[g] THEN g ELSE ix.relations[i]],
     through |-> g, seen |-> Larger(ix.seen, g)]

Index == [relations |-> relations, through |-> through, seen |-> seen]

\* Fault: any commit may be applied again.
Applicable(g) == TRUE

(* apply refuses what does not advance, and _accept what does not          *)
(* validate: either raises and leaves the index as it was.                 *)
Advances(g) == g > through

Apply(g) ==
    /\ g \in Committed /\ Advances(g)
    /\ Become(Accept(Index, g))
    /\ accepted' = accepted \cup {g}
    /\ told' = Larger(told, g)
    /\ UNCHANGED commits

(* sorted(commits, key=generation): the list rearranged so that generations *)
(* do not descend.                                                         *)
Orders(n) == {p \in [1..n -> 1..n] : \A j \in 1..n : \E i \in 1..n : p[i] = j}
Sorted(given) ==
    LET n == Len(given)
    IN  {list \in {[i \in 1..n |-> given[p[i]]] : p \in Orders(n)} :
            \A i, j \in 1..n : i < j => list[i] <= list[j]}

(* The loop of rebuild over an empty index; its state after each commit.   *)
Accepting(list) ==
    LET ix[i \in 0..Len(list)] == IF i = 0 THEN Nothing ELSE Accept(ix[i - 1], list[i])
    IN  ix

(* rebuild: a new index over the commits it is given.                      *)
Rebuild(given) ==
    /\ \E list \in Sorted(given) : Become(Accepting(list)[Len(list)])
    /\ accepted' = {given[i] : i \in DOMAIN given}
    /\ told' = Newest(accepted' \cup {0})
    /\ UNCHANGED commits

(* observe_store_generation; a generation behind the head raises. *)
Observe(g) ==
    /\ g \in Committed /\ g >= seen
    /\ seen' = g
    /\ told' = Larger(told, g)
    /\ UNCHANGED <<commits, relations, through, accepted>>

Destroy ==
    /\ Become(Nothing)
    /\ accepted' = {} /\ told' = 0
    /\ UNCHANGED commits

Next ==
    \/ \E ids \in SUBSET Identities : Commit(ids)
    \/ \E g \in Committed : Apply(g)
    \/ \E n \in 0..MaxGen : \E given \in [1..n -> Committed] : Rebuild(given)
    \/ \E g \in Committed : Observe(g)
    \/ Destroy

Spec == Init /\ [][Next]_vars

Freshness == CASE through = seen -> "complete"
               [] through < seen -> "stale"
               [] OTHER -> "future_invalid"

-----------------------------------------------------------------------------
(* Properties *)

(* However the feed lost, repeated, reordered or damaged its commits, and  *)
(* whichever way the index was built, its rows are those of the commits it *)
(* accepted, each identity as the newest of them wrote it.                 *)
RowsOfAccepted ==
    /\ accepted \subseteq Committed
    /\ \A i \in Identities :
         LET writers == {g \in accepted : i \in commits[g]}
         IN  relations[i] = IF writers = {} THEN 0 ELSE Newest(writers)

(* The index never pretends to have caught up: it answers complete only    *)
(* through the newest generation it was told of, by a commit or by an      *)
(* observation, since it was empty, and never from the future.             *)
NeverPretends ==
    /\ Freshness = "complete" => through = told
    /\ Freshness # "future_invalid"
=============================================================================

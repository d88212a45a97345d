------------------------------ MODULE GenStore ------------------------------
(***************************************************************************)
(* What the snapshot store of mncs-index promises its clients (module      *)
(* docstring of runner/mncs_index/store.py): a line of numbered            *)
(* generations, each committed in one atomic step on top of its            *)
(* predecessor, never altered afterwards, and possibly reclaimed once a    *)
(* newer one exists.  There is no directory, no lock, no staging file and  *)
(* no crash here; Store implements this specification.                     *)
(***************************************************************************)
EXTENDS Integers, Sequences

CONSTANTS Writers,   \* the identities under which edits are published
          MaxGen     \* bound: the highest generation number explored

Gen    == 0 .. MaxGen
NoGen  == -1          \* "no generation published yet"
Absent == << >>       \* a payload always holds at least one edit

VARIABLES head,       \* the newest committed generation, or NoGen
          avail       \* avail[g]: payload of g, Absent if reclaimed or future

vars == <<head, avail>>

Init == /\ head = NoGen
        /\ avail = [g \in Gen |-> Absent]

\* A candidate is built from the corpus alone or on the payload at HEAD.
Candidates(w) == {<<w>>} \cup
                 (IF head = NoGen THEN {} ELSE {Append(avail[head], w)})

\* Compare-and-swap publication: the next number, on the current HEAD.
Publish(w) == /\ head < MaxGen
              /\ head' = head + 1
              /\ \E p \in Candidates(w) :
                    avail' = [avail EXCEPT ![head + 1] = p]

\* Only a generation strictly below HEAD may go away.
Reclaim(g) == /\ g < head
              /\ avail[g] # Absent
              /\ avail' = [avail EXCEPT ![g] = Absent]
              /\ UNCHANGED head

Next == \/ \E w \in Writers : Publish(w)
        \/ \E g \in Gen : Reclaim(g)

Spec == Init /\ [][Next]_vars

-----------------------------------------------------------------------------
TypeOK == /\ head \in Gen \cup {NoGen}
          /\ avail \in [Gen -> Seq(Writers)]

=============================================================================

------------------------------ MODULE MCStore ------------------------------
(* Small instances of Store for TLC.                                       *)
EXTENDS Store, TLC

Job(o, k, i) == [op |-> o, kind |-> k, n |-> i]

ReclaimAll == {Job("reclaim", "prune", 0)}
ScheduledJobs == {Job("reclaim", "keep-recent", 1), Job("compact", "checkpoint", 2)}

WriterSymmetry == Permutations(Writers)

=============================================================================

----------------------------- MODULE MCJobQueue -----------------------------
(* Small queues for JobQueue.  Jobs of one kind are interchangeable, and   *)
(* so are workers.                                                         *)
EXTENDS JobQueue, TLC

CONSTANTS m1, m2, c1, w1, w2

Symmetric == Permutations({m1, m2}) \cup Permutations({w1, w2})
=============================================================================

--------------------------- MODULE MCReplication ---------------------------
(* Replication on small instances: the worker layouts of the runs.     *)
EXTENDS Replication, TLC

CONSTANTS b1, b2, b3, w1, w2

OneWorker == w1 :> {b2}
TwoWorkers == w1 :> {b2} @@ w2 :> {b2}
NoWorkers == [w \in {} |-> {}]
=============================================================================

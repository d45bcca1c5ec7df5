----------------------------- MODULE MCJobStore -----------------------------
(* JobStore on three backends and two workers with overlapping targets.    *)
EXTENDS JobStore, TLC

CONSTANTS b1, b2, b3, w1, w2

MCBackend == {b1, b2, b3}
MCWorker == {w1, w2}
MCTargets == (w1 :> {b2, b3} @@ w2 :> {b2})
=============================================================================

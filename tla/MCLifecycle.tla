---------------------------- MODULE MCLifecycle ----------------------------
(* Lifecycle on small instances. *)
EXTENDS Lifecycle

CONSTANTS f1, b1, b2, d1, v1
=============================================================================

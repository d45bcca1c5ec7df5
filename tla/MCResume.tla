------------------------------ MODULE MCResume ------------------------------
(* Resume on small instances. *)
EXTENDS Resume

CONSTANTS w1, w2
=============================================================================

----------------------------- MODULE MCCapacity -----------------------------
(* Capacity on small instances: backends with room for the file of size 1  *)
(* or for that of size 2, and one without limit.                           *)
EXTENDS Capacity

CONSTANTS f1, f2, b1, b2, b3

Tight == [b \in Backend |-> IF b = b3 THEN 0 ELSE 2]
Sizes == [f \in File |-> IF f = f2 THEN 2 ELSE 1]
=============================================================================

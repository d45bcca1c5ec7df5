------------------------------ MODULE MCUpload ------------------------------
(* Upload on small instances: the files sent and the backends configured.  *)
EXTENDS Upload, TLC

CONSTANTS n1, b1, b2, f1

SameFile == [n \in Nonce |-> f1]
PrimaryAndReplica == b1 :> "primary" @@ b2 :> "replica"
=============================================================================

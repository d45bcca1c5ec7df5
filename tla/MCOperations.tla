---------------------------- MODULE MCOperations ----------------------------
(* The backups and the alerts share no state: in every behaviour of this   *)
(* specification one of them runs and the other rests.                     *)
EXTENDS Backups, Alerts

CONSTANTS a1, b1, b2

VARIABLE part

Ones == [k \in {"auto", "admin", "offsite"} |-> 1]

Init == BackupsInit /\ AlertsInit /\ part \in {"backups", "alerts"}

BackupsRun == part = "backups" /\ BackupsNext /\ UNCHANGED <<alertVars, part>>
AlertsRun == part = "alerts" /\ AlertsNext /\ UNCHANGED <<backupVars, part>>

Next == BackupsRun \/ AlertsRun

vars == <<backupVars, alertVars, part>>

\* The fairness of Alerts, where it runs.
Spec == Init /\ [][Next]_vars /\ WF_vars(part = "alerts" /\ RoundStep /\ UNCHANGED <<backupVars, part>>)

\* The types of both.
OperationsTypeOK == BackupsTypeOK /\ AlertsTypeOK
=============================================================================

------------------------------- MODULE Alerts -------------------------------
(***************************************************************************)
(* alert_loop: every 300 s it looks at the disk, the backends and the      *)
(* queue and tells the administrator what is wrong, once: three local      *)
(* variables hold what the last complete round found.  A message may fail, *)
(* which ends the round; a restart forgets the variables.                  *)
(*                                                                         *)
(* admin_user_id is set.  A change of a threshold is a change of what is   *)
(* compared with it.                                                       *)
(***************************************************************************)
EXTENDS Naturals, FiniteSets

CONSTANTS
    Backend,    \* enabled backends
    MaxChanges, \* bound on changes of disk, queue and backends
    MaxMishaps  \* bound on messages that fail and restarts

ASSUME ChangesAssumption == MaxChanges \in Nat /\ MaxMishaps \in Nat

VARIABLES
    high,       \* which of disk and queue are over their thresholds
    unhealthy,  \* backends with unhealthy_until ahead
    alerted,    \* disk_alerted, storage_alerted, queue_alerted
    round,      \* what the round is at
    seen,       \* what it found
    told,       \* told[a]: messages since a round last found a gone (history)
    changes,
    mishaps

alertVars == <<high, unhealthy, alerted, round, seen, told, changes, mishaps>>

Alert == {"disk", "storage", "queue"}
Round == {"sleep", "look", "disk", "storage", "queue", "done"}

AlertsTypeOK ==
    /\ high \subseteq {"disk", "queue"}
    /\ unhealthy \subseteq Backend
    /\ alerted \subseteq Alert
    /\ round \in Round
    /\ seen \subseteq Alert
    /\ told \in [Alert -> Nat]
    /\ changes \in 0 .. MaxChanges
    /\ mishaps \in 0 .. MaxMishaps

AlertsInit ==
    /\ high = {}
    /\ unhealthy = {}
    /\ alerted = {}
    /\ round = "sleep"
    /\ seen = {}
    /\ told = [a \in Alert |-> 0]
    /\ changes = 0
    /\ mishaps = 0

\* What is wrong now.
Wrong == high \cup (IF unhealthy = {} THEN {} ELSE {"storage"})

\* The disk is read first; three reads of the tables are awaited before the rest.
LookAtDisk ==
    /\ round = "sleep"
    /\ seen' = Wrong \cap {"disk"}
    /\ round' = "look"
    /\ UNCHANGED <<high, unhealthy, alerted, told, changes, mishaps>>

Look ==
    /\ round = "look"
    /\ seen' = seen \cup (Wrong \ {"disk"})
    /\ round' = "disk"
    /\ UNCHANGED <<high, unhealthy, alerted, told, changes, mishaps>>

After == [disk |-> "storage", storage |-> "queue", queue |-> "done"]

Send(a) ==
    /\ round = a
    /\ round' = After[a]
    /\ told' = IF a \in seen \ alerted THEN [told EXCEPT ![a] = @ + 1] ELSE told
    /\ UNCHANGED <<high, unhealthy, alerted, seen, changes, mishaps>>

Mishap == mishaps < MaxMishaps /\ mishaps' = mishaps + 1

\* Mutant: the variables are set although the message failed.
SendFailsLatched(a) ==
    /\ round = a /\ a \in seen \ alerted
    /\ Mishap
    /\ round' = "sleep"
    /\ alerted' = seen
    /\ UNCHANGED <<high, unhealthy, seen, told, changes>>

\* Telegram may have delivered the message all the same.
SendFails(a) ==
    /\ round = a /\ a \in seen \ alerted
    /\ Mishap
    /\ round' = "sleep"
    /\ told' \in {told, [told EXCEPT ![a] = @ + 1]}
    /\ UNCHANGED <<high, unhealthy, alerted, seen, changes>>

\* Mutant: queue_alerted is not set.
RememberTwo ==
    /\ round = "done"
    /\ alerted' = seen \ {"queue"}
    /\ round' = "sleep"
    /\ told' = [a \in Alert |-> IF a \in seen THEN told[a] ELSE 0]
    /\ UNCHANGED <<high, unhealthy, seen, changes, mishaps>>

\* Mutant: storage_alerted = unhealthy, the list and not whether it is empty.
RememberNames ==
    /\ round = "done"
    /\ alerted' = IF "storage" \in seen THEN seen \cup unhealthy ELSE seen
    /\ round' = "sleep"
    /\ told' = [a \in Alert |-> IF a \in seen THEN told[a] ELSE 0]
    /\ UNCHANGED <<high, unhealthy, seen, changes, mishaps>>

Remember ==
    /\ round = "done"
    /\ alerted' = seen
    /\ round' = "sleep"
    /\ told' = [a \in Alert |-> IF a \in seen THEN told[a] ELSE 0]
    /\ UNCHANGED <<high, unhealthy, seen, changes, mishaps>>

\* Disk and queue fill and empty, health_check marks and clears backends.
Change ==
    /\ changes < MaxChanges /\ changes' = changes + 1
    /\ \/ \E a \in {"disk", "queue"} :
              /\ high' = IF a \in high THEN high \ {a} ELSE high \cup {a}
              /\ UNCHANGED unhealthy
       \/ \E b \in Backend :
              /\ unhealthy' = IF b \in unhealthy THEN unhealthy \ {b} ELSE unhealthy \cup {b}
              /\ UNCHANGED high
    /\ UNCHANGED <<alerted, round, seen, told, mishaps>>

\* A new process knows no alert and no health.
Restart ==
    /\ Mishap
    /\ alerted' = {}
    /\ unhealthy' = {}
    /\ round' = "sleep"
    /\ UNCHANGED <<high, seen, told, changes>>

RoundStep == LookAtDisk \/ Look \/ (\E a \in Alert : Send(a)) \/ Remember

AlertsNext ==
    \/ RoundStep
    \/ \E a \in Alert : SendFails(a)
    \/ Change \/ Restart

\* The loop goes round; messages that are not refused arrive.
AlertsFairness == WF_alertVars(RoundStep)

AlertsSpec == AlertsInit /\ [][AlertsNext]_alertVars /\ AlertsFairness

-----------------------------------------------------------------------------
(* Properties.                                                             *)

\* "The bot sends one alert" (README.md:133): one for as long as rounds find
\* the condition, and at most one more for each failed message and restart.
AlertedOnce == \A a \in Alert : told[a] <= 1 + mishaps

\* What stays wrong is told, whatever messages failed before.
AlertsArrive == \A a \in Alert : a \in Wrong ~> (told[a] > 0 \/ a \notin Wrong)

=============================================================================

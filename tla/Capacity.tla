------------------------------ MODULE Capacity ------------------------------
(***************************************************************************)
(* Room on the S3 backends.  An upload, or the migration of a local file,  *)
(* adds up what the tables say each backend holds (storage.backend_usage), *)
(* chooses backends with room for one file more (_candidates), transfers   *)
(* for minutes, and chooses the replicas' backends from the same figures   *)
(* (replication_targets).  Meanwhile other uploads do the same, jobs are   *)
(* completed, files expire, are extended and deleted, and backends fail    *)
(* and recover.                                                            *)
(*                                                                         *)
(* Room[b] stands for capacity_bytes - reserve_bytes, 0 for no limit.      *)
(* Utilization, failures, priority and latency order the candidates: here  *)
(* any order.  Roles do not change (they do in Backends).                  *)
(***************************************************************************)
EXTENDS Naturals, FiniteSets

CONSTANTS
    File,           \* files to store
    OnDisk,         \* those that are local files, for the migration
    Backend,
    Primary,        \* backends with the role primary; the others are replicas
    Room,           \* Room[b]: bytes b may hold, 0 for any number
    Size,           \* Size[f]: bytes of f
    Copies,         \* replication_count
    None,
    MaxForms,       \* bound on expiries extended
    MaxFaults       \* bound on failures of backends

ASSUME FilesAssumption == OnDisk \subseteq File /\ IsFiniteSet(File)
ASSUME BackendsAssumption == Primary \subseteq Backend /\ None \notin Backend
ASSUME RoomAssumption == Room \in [Backend -> Nat] /\ Size \in [File -> Nat \ {0}]
ASSUME BoundsAssumption == Copies \in Nat \ {0} /\ MaxForms \in Nat /\ MaxFaults \in Nat

VARIABLES
    row,        \* row[f]: backend of its row, None before and after
    replicas,   \* replicas[f]: backends of its rows in file_replicas
    jobs,       \* jobs[f]: targets of its jobs
    goal,       \* goal[f]: target of the job that promotes, if any
    live,       \* files that have not expired
    ill,        \* backends with unhealthy_until ahead
    up,         \* what the upload of each file is at
    gained,     \* gained[f]: backends where files arrived, or jobs were done,
                \* since the upload of f began to read (history)
    strained,   \* backends taken without regard to their room (history)
    forms,
    faults

tables == <<row, replicas, jobs, goal>>
history == <<gained, strained>>
counters == <<forms, faults>>
vars == <<tables, live, ill, up, history, counters>>

\* want: destination chosen by the user; seen: figures read so far; left:
\* candidates not tried; at: where the object is; targets: replicas to come;
\* made: those the migration has made.
PC == {"new", "rows", "replicas", "jobs", "choose", "send", "targets", "copy", "done"}
NoUpload == [pc |-> "new", want |-> None, seen |-> [b \in Backend |-> 0], left |-> {},
             at |-> None, targets |-> {}, made |-> {}]
UpState == [pc : PC, want : Backend \cup {None}, seen : [Backend -> Nat],
            left : SUBSET Backend, at : Backend \cup {None},
            targets : SUBSET Backend, made : SUBSET Backend]

TypeOK ==
    /\ row \in [File -> Backend \cup {None}]
    /\ replicas \in [File -> SUBSET Backend]
    /\ jobs \in [File -> SUBSET Backend]
    /\ goal \in [File -> Backend \cup {None}]
    /\ live \subseteq File
    /\ ill \subseteq Backend
    /\ up \in [File -> UpState]
    /\ gained \in [File -> SUBSET Backend]
    /\ strained \subseteq Backend
    /\ forms \in 0 .. MaxForms
    /\ faults \in 0 .. MaxFaults

Init ==
    /\ row = [f \in File |-> None]
    /\ replicas = [f \in File |-> {}]
    /\ jobs = [f \in File |-> {}]
    /\ goal = [f \in File |-> None]
    /\ live = {}
    /\ ill = {}
    /\ up = [f \in File |-> NoUpload]
    /\ gained = [f \in File |-> {}]
    /\ strained = {}
    /\ forms = 0
    /\ faults = 0

Stored(f) == row[f] # None
Fault == faults < MaxFaults /\ faults' = faults + 1
At(f, pc) == up[f].pc = pc
UnderWay(f) == up[f].pc \notin {"new", "done"}

\* A file is the set of its bytes, and the sum of sizes their number.
Content == UNION {{f} \X (1 .. Size[f]) : f \in File}
Weight(F) == Cardinality({x \in Content : x[1] \in F})

\* Bytes of the live files among F.
Bytes(F) == Weight(F \cap live)
InRows(b) == Bytes({f \in File : row[f] = b})
InReplicas(b) == Bytes({f \in File : b \in replicas[f]})
InJobs(b) == Bytes({f \in File : b \in jobs[f]})
Used(b) == InRows(b) + InReplicas(b) + InJobs(b)

\* B gains files, or jobs of B are done: whoever has begun to read may miss it.
Gain(B) == gained' = [g \in File |-> IF UnderWay(g) THEN gained[g] \cup B ELSE gained[g]]

-----------------------------------------------------------------------------
(* Uploads.                                                                *)

\* The migration moves one file after the other; it has no destination.
Begin(f, want) ==
    /\ At(f, "new")
    /\ f \in OnDisk => want = None /\ \A g \in OnDisk : ~UnderWay(g)
    /\ up' = [up EXCEPT ![f].pc = "rows", ![f].want = want]
    /\ UNCHANGED <<tables, live, ill, history, counters>>

\* backend_usage: three queries, each of its own moment.
Read(f, pc, next, part(_)) ==
    /\ At(f, pc)
    /\ up' = [up EXCEPT ![f].pc = next, ![f].seen = [b \in Backend |-> @[b] + part(b)]]
    /\ UNCHANGED <<tables, live, ill, history, counters>>

ReadRows(f) == Read(f, "rows", "replicas", InRows)
ReadReplicas(f) == Read(f, "replicas", "jobs", InReplicas)
ReadJobs(f) == Read(f, "jobs", "choose", InJobs)

\* Mutant: the file itself is not counted.
FitsAlready(f, b) == Room[b] = 0 \/ up[f].seen[b] <= Room[b]

Fits(f, b) == Room[b] = 0 \/ up[f].seen[b] + Size[f] <= Room[b]
Candidates(f, roles) == {b \in roles \ ill : Fits(f, b)}

Give(f) == up' = [up EXCEPT ![f].pc = "done"]

\* A destination with the role replica is reached through a transit backend,
\* and its own room is not looked at.
Choose(f) ==
    LET want == up[f].want
        transit == want \in Backend \ Primary
        first == Candidates(f, Primary) IN
    /\ At(f, "choose")
    /\ \E C \in SUBSET Backend :
           /\ \/ want = None /\ C = first
              \/ want \in Primary /\ C = {want} \cap first
              \/ transit /\ first # {} /\ \E b \in first : C = {b}
              \/ transit /\ first = {} /\ C = {}
           /\ IF C = {} THEN Give(f)
              ELSE up' = [up EXCEPT ![f].pc = "send", ![f].left = C]
    /\ UNCHANGED <<tables, live, ill, history, counters>>

Sent(f, b) ==
    /\ At(f, "send")
    /\ b \in up[f].left
    /\ up' = [up EXCEPT ![f].pc = "targets", ![f].at = b]
    /\ UNCHANGED <<tables, live, ill, history, counters>>

\* A candidate that fails is ill for a while; after the last the upload ends.
SendFails(f, b) ==
    /\ At(f, "send")
    /\ b \in up[f].left
    /\ Fault
    /\ ill' = ill \cup {b}
    /\ up' = [up EXCEPT ![f].left = @ \ {b},
                        ![f].pc = IF up[f].left = {b} THEN "done" ELSE @]
    /\ UNCHANGED <<tables, live, history, forms>>

\* As many of C as are wanted, or all.
Replicas(C) ==
    {T \in SUBSET C : Cardinality(T) = IF Cardinality(C) < Copies THEN Cardinality(C)
                                       ELSE Copies - 1}

\* Mutant: the backend of the object is among the targets.
TargetsWithPrimary(f) ==
    Replicas(Candidates(f, Backend))

\* replication_targets, from the figures read before the transfer.
TargetSets(f) ==
    Replicas(Candidates(f, Backend) \ {up[f].at})

\* A chosen destination has no replicas.
Arrive(f, B) ==
    /\ Give(f)
    /\ live' = live \cup {f}
    /\ Gain(B)

Register(f) ==
    LET want == up[f].want
        promoted == want \in Backend \ Primary IN
    /\ At(f, "targets") /\ f \notin OnDisk
    /\ \E T \in (IF want = None THEN TargetSets(f) ELSE {{want} \ Primary}) :
           /\ row' = [row EXCEPT ![f] = up[f].at]
           /\ jobs' = [jobs EXCEPT ![f] = T]
           /\ goal' = [goal EXCEPT ![f] = IF promoted THEN want ELSE None]
           /\ Arrive(f, T \cup {up[f].at})
           /\ strained' = strained \cup ((T \cup {up[f].at}) \cap (gained[f] \cup ({want} \ Primary)))
    /\ UNCHANGED <<replicas, ill, counters>>

-----------------------------------------------------------------------------
(* The migration makes its replicas itself before the row changes.         *)

MigrateTargets(f) ==
    /\ At(f, "targets") /\ f \in OnDisk
    /\ \E T \in TargetSets(f) : up' = [up EXCEPT ![f].pc = "copy", ![f].targets = T]
    /\ UNCHANGED <<tables, live, ill, history, counters>>

Copy(f, b) ==
    /\ At(f, "copy")
    /\ b \in up[f].targets
    /\ \/ /\ up' = [up EXCEPT ![f].targets = @ \ {b}, ![f].made = @ \cup {b}]
          /\ UNCHANGED <<ill, faults>>
       \/ /\ Fault
          /\ ill' = ill \cup {b}
          /\ up' = [up EXCEPT ![f].targets = @ \ {b}]
    /\ UNCHANGED <<tables, live, history, forms>>

MarkMigrated(f) ==
    LET B == up[f].made \cup {up[f].at} IN
    /\ At(f, "copy") /\ up[f].targets = {}
    /\ row' = [row EXCEPT ![f] = up[f].at]
    /\ replicas' = [replicas EXCEPT ![f] = up[f].made]
    /\ Arrive(f, B)
    /\ strained' = strained \cup (B \cap gained[f])
    /\ UNCHANGED <<jobs, goal, ill, counters>>

-----------------------------------------------------------------------------
(* What happens to registered files.                                       *)

\* complete_replication_job: a replica, or a promotion.
CompleteJob(f, b) ==
    /\ b \in jobs[f]
    /\ jobs' = [jobs EXCEPT ![f] = @ \ {b}]
    /\ IF goal[f] = b THEN row' = [row EXCEPT ![f] = b] /\ UNCHANGED replicas
       ELSE replicas' = [replicas EXCEPT ![f] = @ \cup {b}] /\ UNCHANGED row
    /\ Gain({b})
    /\ UNCHANGED <<goal, live, ill, up, strained, counters>>

Delete(f) ==
    /\ Stored(f)
    /\ row' = [row EXCEPT ![f] = None]
    /\ replicas' = [replicas EXCEPT ![f] = {}]
    /\ jobs' = [jobs EXCEPT ![f] = {}]
    /\ UNCHANGED <<goal, live, ill, up, history, counters>>

Expire(f) ==
    /\ Stored(f) /\ f \in live
    /\ live' = live \ {f}
    /\ UNCHANGED <<tables, ill, up, history, counters>>

\* Mutant: the form does not find out that the file has been deleted.
ExtendDeleted(f) ==
    LET B == {row[f]} \cup replicas[f] \cup jobs[f] IN
    /\ up[f].pc = "done" /\ f \notin live
    /\ forms < MaxForms /\ forms' = forms + 1
    /\ live' = live \cup {f}
    /\ Gain(B)
    /\ strained' = strained \cup B
    /\ UNCHANGED <<tables, ill, up, faults>>

\* change_file_expiry brings a file back that was no longer counted.
Extend(f) ==
    LET B == {row[f]} \cup replicas[f] \cup jobs[f] IN
    /\ Stored(f) /\ f \notin live
    /\ forms < MaxForms /\ forms' = forms + 1
    /\ live' = live \cup {f}
    /\ Gain(B)
    /\ strained' = strained \cup B
    /\ UNCHANGED <<tables, ill, up, faults>>

\* health_check, or the time of unhealthy_until.
Recover(b) ==
    /\ b \in ill
    /\ ill' = ill \ {b}
    /\ UNCHANGED <<tables, live, up, history, counters>>

CheckFails(b) ==
    /\ Fault
    /\ ill' = ill \cup {b}
    /\ UNCHANGED <<tables, live, up, history, forms>>

-----------------------------------------------------------------------------
UploadStep(f) ==
    \/ \E want \in Backend \cup {None} : Begin(f, want)
    \/ ReadRows(f) \/ ReadReplicas(f) \/ ReadJobs(f) \/ Choose(f)
    \/ \E b \in Backend : Sent(f, b) \/ SendFails(f, b) \/ Copy(f, b)
    \/ Register(f) \/ MigrateTargets(f) \/ MarkMigrated(f)

Next ==
    \/ \E f \in File :
           \/ UploadStep(f)
           \/ \E b \in Backend : CompleteJob(f, b)
           \/ Delete(f) \/ Expire(f) \/ Extend(f)
    \/ \E b \in Backend : Recover(b) \/ CheckFails(b)

Spec == Init /\ [][Next]_vars

-----------------------------------------------------------------------------
(* Properties.                                                             *)

\* "It does not upload to a space that lacks the capacity"
\* (SERVER_COMMANDS_FA.md:364): what the tables assign to a backend fits,
\* except where the code cannot know or does not look: files arrived there,
\* or jobs of it were done, after an upload began to read; it is the
\* destination of a promotion; or an expired file was extended.
OverfullForCause ==
    \A b \in Backend : Room[b] # 0 /\ Used(b) > Room[b] => b \in strained

\* "The original and the replicas are put on different services"
\* (README.md:147), through failover, promotion and migration.
OnDifferentServices ==
    \A f \in File : /\ row[f] \notin replicas[f] \cup jobs[f]
                    /\ replicas[f] \cap jobs[f] = {}

=============================================================================

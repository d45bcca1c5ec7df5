------------------------------ MODULE JobStore ------------------------------
(***************************************************************************)
(* The SQLite tables behind replication (app/storage.py) and the           *)
(* transactions on them: files, file_replicas, replication_jobs and        *)
(* replication_workers.  Every method of Storage opens a connection of its *)
(* own and commits once, so each is one action here, and of the cancel     *)
(* form's method, which reads outside its transaction, the DELETE is;      *)
(* StoreNext lets any caller run any of them in any order, and the modules *)
(* that extend this one say who really does.                               *)
(*                                                                         *)
(* A job is the pair <<token, target_backend>>: the table declares that    *)
(* pair UNIQUE, and jobs are inserted only together with their file, so    *)
(* the pair is used once and stands for the AUTOINCREMENT id.  Instants    *)
(* are abstracted to what the WHERE clauses ask of them: has the file      *)
(* expired, is the lease still running, has next_attempt_at come, was the  *)
(* worker heard of in the last 600 s.  Each answer changes by an action of *)
(* its own, at any time.                                                   *)
(***************************************************************************)
EXTENDS Naturals, FiniteSets

CONSTANTS
    Token,      \* tokens of uploaded files
    Backend,    \* S3 backends
    Worker,     \* remote replication workers
    Targets,    \* Targets[w]: the TARGET_BACKENDS worker w is configured with
    None        \* no row, no promotion target, claimed_by = ''

ASSUME TargetsAssumption == Targets \in [Worker -> SUBSET Backend]
ASSUME NoneAssumption == None \notin Token \cup Backend \cup Worker \cup (Token \X Backend)

VARIABLES
    issued,     \* tokens ever given to a file
    files,      \* files[t]: backend_name of t's row, None when there is no row
    unexpired,  \* tokens whose row has expires_at > now
    replicas,   \* rows of file_replicas
    jobs,       \* rows of replication_jobs
    kind,       \* promote_target of every job id ever inserted
    claimedBy,  \* claimed_by of each job row
    leased,     \* jobs with lease_until > now
    due,        \* jobs with next_attempt_at <= now
    heard,      \* workers with last_seen in the last 600 s
    disabled    \* workers with enabled = 0

fileVars == <<issued, files, unexpired, replicas>>
jobVars == <<jobs, kind, claimedBy, leased, due>>
workerVars == <<heard, disabled>>
storeVars == <<fileVars, jobVars, workerVars>>

Job == Token \X Backend
Kinds == {"unused", "replica", "promotion"}

StoreTypeOK ==
    /\ issued \subseteq Token
    /\ files \in [Token -> Backend \cup {None}]
    /\ unexpired \subseteq Token
    /\ replicas \subseteq Job
    /\ jobs \subseteq Job
    /\ kind \in [Job -> Kinds]
    /\ claimedBy \in [Job -> Worker \cup {None}]
    /\ leased \subseteq Job
    /\ due \subseteq Job
    /\ heard \subseteq Worker
    /\ disabled \subseteq Worker

StoreInit ==
    /\ issued = {}
    /\ files = [t \in Token |-> None]
    /\ unexpired = {}
    /\ replicas = {}
    /\ jobs = {}
    /\ kind = [j \in Job |-> "unused"]
    /\ claimedBy = [j \in Job |-> None]
    /\ leased = {}
    /\ due = {}
    /\ heard = {}
    /\ disabled = {}

Row(t) == files[t] # None
JobsOf(t) == {j \in jobs : j[1] = t}

-----------------------------------------------------------------------------
(* Parts of transactions.                                                  *)

\* Mutant: the lease is forgotten, lease_until stays.
UnclaimKeepsLease(J) ==
    /\ claimedBy' = [j \in Job |-> IF j \in J THEN None ELSE claimedBy[j]]
    /\ UNCHANGED leased

\* Clears claimed_by and lease_until of the jobs in J.
Unclaim(J) ==
    /\ claimedBy' = [j \in Job |-> IF j \in J THEN None ELSE claimedBy[j]]
    /\ leased' = leased \ J

\* DELETE FROM replication_jobs: the columns go with the row.  kind is
\* kept, because a caller may still hold the row it read.
DropJobs(J) ==
    /\ jobs' = jobs \ J
    /\ Unclaim(J)
    /\ due' = due \ J
    /\ UNCHANGED kind

\* A backend becomes t's primary; UPDATE files touches nothing without a row.
MoveFile(t, b) ==
    files' = IF Row(t) THEN [files EXCEPT ![t] = b] ELSE files

\* The condition shared by due_replication_jobs and claim_replication_job.
Due(j) ==
    /\ j \in jobs
    /\ Row(j[1])
    /\ j \in due
    /\ j[1] \in unexpired
    /\ j \notin leased

Claimable(w) == {j \in jobs : Due(j) /\ j[2] \in Targets[w]}

\* The row finish_claimed_replication_job looks up.  It asks for the
\* claimant only: a lease that ran out is still good here.
Holds(w, j) == j \in jobs /\ claimedBy[j] = w /\ Row(j[1])

\* Targets left to the remote workers heard of in the last 600 s; the mutant
\* trusts the silent ones as well.
ActiveTargetsSilent == UNION {Targets[w] : w \in Worker \ disabled}
ActiveTargets == UNION {Targets[w] : w \in heard \ disabled}

-----------------------------------------------------------------------------
(* Transactions.                                                           *)

\* Mutants: every backend but the chosen one is a target; the chosen backend
\* is one target of several.
TargetsAll(b, T, p) == p = None \/ T = {p}
TargetsMixed(b, T, p) == b \notin T /\ (p = None \/ p \in T)

\* The targets perform_upload can queue for a file on b: not b itself, and
\* the backend p the user chose alone.
ValidTargets(b, T, p) == b \notin T /\ (p = None \/ T = {p})

\* perform_upload inserts the file with its jobs: a single promotion to the
\* backend p the user chose, or one job for each replica target.
AddWithReplicationJobs(t, b, T, p) ==
    /\ t \notin issued
    /\ ValidTargets(b, T, p)
    /\ issued' = issued \cup {t}
    /\ files' = [files EXCEPT ![t] = b]
    /\ unexpired' = unexpired \cup {t}
    /\ jobs' = jobs \cup ({t} \X T)
    /\ kind' = [j \in Job |-> IF j \notin {t} \X T THEN kind[j]
                             ELSE IF j[2] = p THEN "promotion" ELSE "replica"]
    /\ due' = due \cup ({t} \X T)
    /\ UNCHANGED <<replicas, claimedBy, leased, workerVars>>

ClaimReplicationJob(w, j) ==
    /\ j \in Claimable(w)
    /\ claimedBy' = [claimedBy EXCEPT ![j] = w]
    /\ leased' = leased \cup {j}
    /\ heard' = heard \cup {w}
    /\ UNCHANGED <<fileVars, jobs, kind, due, disabled>>

ClaimNothing(w) ==
    /\ Claimable(w) = {}
    /\ heard' = heard \cup {w}
    /\ UNCHANGED <<fileVars, jobVars, disabled>>

FinishClaimedJob(w, j) ==
    /\ Holds(w, j)
    /\ IF kind[j] = "promotion"
       THEN MoveFile(j[1], j[2]) /\ replicas' = replicas \ {j}
       ELSE replicas' = replicas \cup {j} /\ UNCHANGED files
    /\ DropJobs({j})
    /\ heard' = heard \cup {w}
    /\ UNCHANGED <<issued, unexpired, disabled>>

FailClaimedJob(w, j) ==
    /\ Holds(w, j)
    /\ Unclaim({j})
    /\ due' = due \ {j}
    /\ heard' = heard \cup {w}
    /\ UNCHANGED <<fileVars, jobs, kind, disabled>>

RenewReplicationLease(w, j) ==
    /\ leased' = IF j \in jobs /\ claimedBy[j] = w THEN leased \cup {j} ELSE leased
    /\ heard' = heard \cup {w}
    /\ UNCHANGED <<fileVars, jobs, kind, claimedBy, due, disabled>>

ReleaseWorkerLease(w) ==
    LET held == {j \in jobs : claimedBy[j] = w} IN
    /\ Unclaim(held)
    /\ due' = due \cup held
    /\ UNCHANGED <<fileVars, jobs, kind, workerVars>>

SetWorkerEnabled(w, on) ==
    /\ disabled' = IF on THEN disabled \ {w} ELSE disabled \cup {w}
    /\ UNCHANGED <<fileVars, jobVars, heard>>

\* The DELETE.  The SELECT that finds the job free is outside its transaction,
\* and the DELETE asks for the id only: the job may have been claimed since, or
\* be gone.  Every job was free when it was queued, so there is none that a
\* form which read it then may not delete now.
CancelReplicationJob(j) ==
    /\ kind[j] # "unused"
    /\ DropJobs({j})
    /\ UNCHANGED <<fileVars, workerVars>>

\* Mutant: every result becomes the primary.
CompleteAlwaysPromotes(j) ==
    /\ kind[j] # "unused"
    /\ MoveFile(j[1], j[2])
    /\ DropJobs({j})
    /\ UNCHANGED <<issued, unexpired, replicas, workerVars>>

\* The controller's own loop records the result of a job it once read,
\* without asking whether the job or the file is still there.
CompleteReplicationJob(j) ==
    /\ kind[j] # "unused"
    /\ IF kind[j] = "promotion"
       THEN MoveFile(j[1], j[2]) /\ UNCHANGED replicas
       ELSE replicas' = replicas \cup {j} /\ UNCHANGED files
    /\ DropJobs({j})
    /\ UNCHANGED <<issued, unexpired, workerVars>>

\* Leaves a claim that was made meanwhile in place.
FailReplicationJob(j) ==
    /\ due' = due \ {j}
    /\ UNCHANGED <<fileVars, jobs, kind, claimedBy, leased, workerVars>>

RetryReplicationJobs ==
    /\ due' = jobs
    /\ UNCHANGED <<fileVars, jobs, kind, claimedBy, leased, workerVars>>

\* Mutant: left to the declared ON DELETE CASCADE, which is not in force.
DeleteRecordCascades(t) ==
    /\ files' = [files EXCEPT ![t] = None]
    /\ unexpired' = unexpired \ {t}
    /\ UNCHANGED <<issued, replicas, jobVars, workerVars>>

\* One transaction over the three tables.
DeleteRecord(t) ==
    /\ DropJobs(JobsOf(t))
    /\ replicas' = {r \in replicas : r[1] # t}
    /\ files' = [files EXCEPT ![t] = None]
    /\ unexpired' = unexpired \ {t}
    /\ UNCHANGED <<issued, workerVars>>

UpdateExpiry(t) ==
    /\ unexpired' = IF Row(t) THEN unexpired \cup {t} ELSE unexpired
    /\ UNCHANGED <<issued, files, replicas, jobVars, workerVars>>

-----------------------------------------------------------------------------
(* The clock reaches expires_at, lease_until, next_attempt_at or           *)
(* last_seen + 600.                                                        *)

Expire(t) ==
    /\ unexpired' = unexpired \ {t}
    /\ UNCHANGED <<issued, files, replicas, jobVars, workerVars>>

LeaseLapse(j) ==
    /\ leased' = leased \ {j}
    /\ UNCHANGED <<fileVars, jobs, kind, claimedBy, due, workerVars>>

BackoffOver(j) ==
    /\ j \in jobs
    /\ due' = due \cup {j}
    /\ UNCHANGED <<fileVars, jobs, kind, claimedBy, leased, workerVars>>

WorkerSilent(w) ==
    /\ heard' = heard \ {w}
    /\ UNCHANGED <<fileVars, jobVars, disabled>>

-----------------------------------------------------------------------------
StoreNext ==
    \/ \E t \in Token, b \in Backend, T \in SUBSET Backend, p \in Backend \cup {None} :
           AddWithReplicationJobs(t, b, T, p)
    \/ \E w \in Worker, j \in Job :
           \/ ClaimReplicationJob(w, j)
           \/ FinishClaimedJob(w, j)
           \/ FailClaimedJob(w, j)
           \/ RenewReplicationLease(w, j)
    \/ \E w \in Worker :
           \/ ClaimNothing(w)
           \/ ReleaseWorkerLease(w)
           \/ SetWorkerEnabled(w, TRUE)
           \/ SetWorkerEnabled(w, FALSE)
           \/ WorkerSilent(w)
    \/ \E j \in Job :
           \/ CancelReplicationJob(j)
           \/ CompleteReplicationJob(j)
           \/ FailReplicationJob(j)
           \/ LeaseLapse(j)
           \/ BackoffOver(j)
    \/ \E t \in Token : DeleteRecord(t) \/ UpdateExpiry(t) \/ Expire(t)
    \/ RetryReplicationJobs

StoreSpec == StoreInit /\ [][StoreNext]_storeVars

-----------------------------------------------------------------------------
(* What the tables promise to every caller.                                *)

\* A queue row never outlives its file: every insertion carries the file and
\* delete_record removes both (the declared ON DELETE CASCADE is not in
\* force, foreign keys are off).
JobsHaveFiles == \A j \in jobs : Row(j[1])

\* Leases and claims go together: a running lease has a claimant, and a claim
\* is on a row of the queue.  cancel_replication_job, release_worker_lease
\* and the two finishers all depend on it.
LeaseHasHolder ==
    /\ \A j \in leased : claimedBy[j] # None
    /\ \A j \in Job : claimedBy[j] # None => j \in jobs

\* The copies of a file are on different backends: no replica row, and no
\* job that will become one, names the backend of the primary.
CopiesOnDistinctBackends ==
    \A j \in replicas \cup jobs : files[j[1]] # j[2]

\* A file queued for promotion has no other job and no replica, so moving its
\* primary and deleting the transit object cannot orphan a listed copy.
PromotionStandsAlone ==
    \A j \in jobs : kind[j] = "promotion" =>
        /\ JobsOf(j[1]) = {j}
        /\ \A r \in replicas : r[1] # j[1]

\* The primary of a file moves once at most, and to the target of the
\* promotion it was uploaded with.
PrimaryMovesOnce ==
    [][\A t \in Token : Row(t) /\ files'[t] \notin {files[t], None} =>
           /\ kind[<<t, files'[t]>>] = "promotion"
           /\ kind[<<t, files[t]>>] = "unused"]_storeVars
=============================================================================

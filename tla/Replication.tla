----------------------------- MODULE Replication -----------------------------
(***************************************************************************)
(* Who works on the replication queue of JobStore, and what happens to the *)
(* S3 objects and to the spool files on the controller's disk:             *)
(*                                                                         *)
(*   Worker    replication-worker/worker.py, through the HTTP handlers of  *)
(*             app/replication_api.py.  worker[w] is where its single main *)
(*             thread stands; a request it stopped waiting for (30 s) may  *)
(*             still be served, and waits in late.                         *)
(*   loop      replication_loop of app/main.py, which takes no lease.      *)
(*   deleter   delete_stored_item of app/main.py and delete_file of        *)
(*             app/admin_web.py, for the cleanup loop and the admins.      *)
(*   admin     the forms of the panel that write to the queue.             *)
(*                                                                         *)
(* A file has one object key on every backend, so <<t, b>> names an object *)
(* as it names a job.  What goes wrong (requests timing out, S3 errors,    *)
(* crashes, outages) is limited to MaxFaults events.                       *)
(***************************************************************************)
EXTENDS JobStore

CONSTANTS
    Deleter,    \* concurrent deletions
    BatchLimit, \* limit of due_replication_jobs (5 in the code)
    AdminOps,   \* the admin operations that are used
    PausedAtStart, \* replication_paused as the controller finds it
    MaxFaults   \* bound on failures

ASSUME BoundsAssumption == BatchLimit \in Nat \ {0} /\ MaxFaults \in Nat
ASSUME PausedAssumption == PausedAtStart \in BOOLEAN
ASSUME AdminOpsAssumption ==
    AdminOps \subseteq {"delete", "cancel", "release", "enable", "pause", "retry", "extend"}

VARIABLES
    objects,    \* objects present in S3
    spool,      \* tokens with their file in data/files
    worker,     \* worker[w]: pc, the job in hand and its source_backend
    parts,      \* complete .part files <<w, j>> on the workers' disks
    late,       \* requests whose worker no longer waits
    paused,     \* the setting replication_paused
    loop,       \* pc, excluded targets, batch, job and backend in hand
    sweeps,     \* handlers that have completed or cancelled a job
    deleter,    \* pc, token, primary read and replicas read of each deletion
    doomed,     \* tokens whose deletion was started (history)
    strayed,    \* objects whose deletion was dropped, or whose job was
                \* cancelled under a transfer (history)
    faults      \* failures so far

cloudVars == <<objects, spool>>
remoteVars == <<worker, parts, late>>
loopVars == <<loop, paused>>
sweepVars == <<sweeps, strayed>>
deleteVars == <<deleter, doomed>>
vars == <<storeVars, cloudVars, remoteVars, loopVars, sweepVars, deleteVars, faults>>

Maybe(S) == S \cup {None}
WorkerPC == {"down", "idle", "asking", "download", "upload", "report", "fail"}
LoopPC == {"idle", "fetch", "next", "source", "upload", "commit", "sweep", "count", "drop", "fail"}
DeleterPC == {"idle", "primary", "copies", "record"}
Sweeping == [job : Job, old : Maybe(Backend), step : {"object", "count", "drop"}]
Request == [op : {"claim", "complete", "fail", "renew"}, by : Worker, job : Maybe(Job)]

IdleWorker == [pc |-> "idle", job |-> None, src |-> None]
IdleLoop == [pc |-> "idle", excluded |-> {}, batch |-> {}, job |-> None, src |-> None]
IdleDeleter == [pc |-> "idle", token |-> None, src |-> None, copies |-> {}]

TypeOK ==
    /\ StoreTypeOK
    /\ objects \subseteq Job
    /\ spool \subseteq Token
    /\ worker \in [Worker -> [pc : WorkerPC, job : Maybe(Job), src : Maybe(Backend)]]
    /\ parts \subseteq Worker \X Job
    /\ late \subseteq Request
    /\ paused \in BOOLEAN
    /\ loop \in [pc : LoopPC, excluded : SUBSET Backend, batch : SUBSET Job,
                 job : Maybe(Job), src : Maybe(Backend)]
    /\ sweeps \subseteq Sweeping
    /\ deleter \in [Deleter -> [pc : DeleterPC, token : Maybe(Token),
                                src : Maybe(Backend), copies : SUBSET Backend]]
    /\ doomed \subseteq Token
    /\ strayed \subseteq Job
    /\ faults \in 0 .. MaxFaults

Init ==
    /\ StoreInit
    /\ objects = {}
    /\ spool = {}
    /\ worker = [w \in Worker |-> IdleWorker]
    /\ parts = {}
    /\ late = {}
    /\ paused = PausedAtStart
    /\ loop = IdleLoop
    /\ sweeps = {}
    /\ deleter = [d \in Deleter |-> IdleDeleter]
    /\ doomed = {}
    /\ strayed = {}
    /\ faults = 0

Fault == faults < MaxFaults /\ faults' = faults + 1

-----------------------------------------------------------------------------
(* Upload.                                                                 *)

\* The tail of perform_upload in S3 mode: the primary object is uploaded,
\* then the file is registered.  The spool file exists unless the upload
\* went straight from Telegram's cache, and stays while there are jobs.
Register(t, b, T, p) ==
    /\ AddWithReplicationJobs(t, b, T, p)
    /\ objects' = objects \cup {<<t, b>>}
    /\ spool' \in {spool, IF T = {} THEN spool ELSE spool \cup {t}}
    /\ UNCHANGED <<remoteVars, loopVars, sweepVars, deleteVars, faults>>

\* Mutants: the former primary of every job, not of promotions only; its
\* key instead of its backend.
OldBackendAlways(j) == files[j[1]]
OldBackendKey(j) == IF kind[j] = "promotion" THEN <<j[1], files[j[1]]>> ELSE None

\* Mutant: a completion does not name the former primary.
OldBackendNone(j) == None

\* old_backend of the ReplicationCompletion for job j.
OldBackend(j) == IF kind[j] = "promotion" THEN files[j[1]] ELSE None

\* What is left to do after the completion of j: delete the promoted file's
\* former object, then the spool file once no job is left.
Committed(j) == LET old == OldBackend(j) IN
    [job |-> j, old |-> old, step |-> IF old = None THEN "count" ELSE "object"]

\* An error of S3 is swallowed here, and the object stays.
DropObject(o) ==
    \/ objects' = objects \ {o} /\ UNCHANGED <<strayed, faults>>
    \/ Fault /\ strayed' = strayed \cup {o} /\ UNCHANGED objects

-----------------------------------------------------------------------------
(* Remote workers and the HTTP handlers that serve them.                   *)

At(w, pc) == worker[w].pc = pc
Go(w, pc) == worker' = [worker EXCEPT ![w].pc = pc]
Rest(w) == worker' = [worker EXCEPT ![w] = IdleWorker]
GiveUp(w, op) == late' = late \cup {[op |-> op, by |-> w, job |-> worker[w].job]}

\* claim: worker_is_enabled is read here, the claim itself is a transaction
\* of its own (GetJob).  A disabled worker gets 403 and sleeps.
AskJob(w) ==
    /\ At(w, "idle")
    /\ w \notin disabled
    /\ Go(w, "asking")
    /\ UNCHANGED <<storeVars, cloudVars, parts, late, loopVars, sweepVars, deleteVars, faults>>

GetJob(w, j) ==
    /\ At(w, "asking")
    /\ ClaimReplicationJob(w, j)
    /\ worker' = [worker EXCEPT ![w] = [pc |-> "download", job |-> j, src |-> files[j[1]]]]
    /\ UNCHANGED <<cloudVars, parts, late, loopVars, sweepVars, deleteVars, faults>>

GetNothing(w) ==
    /\ At(w, "asking")
    /\ ClaimNothing(w)
    /\ Rest(w)
    /\ UNCHANGED <<cloudVars, parts, late, loopVars, sweepVars, deleteVars, faults>>

\* resume_download: a complete .part of an earlier attempt is used as it is.
HasSource(w) ==
    LET j == worker[w].job IN <<w, j>> \in parts \/ <<j[1], worker[w].src>> \in objects

Download(w) ==
    /\ At(w, "download")
    /\ HasSource(w)
    /\ parts' = parts \cup {<<w, worker[w].job>>}
    /\ Go(w, "upload")
    /\ UNCHANGED <<storeVars, cloudVars, late, loopVars, sweepVars, deleteVars, faults>>

\* upload_file and the head_object that compares sizes.
Upload(w) ==
    /\ At(w, "upload")
    /\ objects' = objects \cup {worker[w].job}
    /\ Go(w, "report")
    /\ UNCHANGED <<storeVars, spool, parts, late, loopVars, sweepVars, deleteVars, faults>>

\* Mutant: a failed transfer is reported as done.
TransferFailsSilently(w) ==
    /\ \/ At(w, "download") /\ ~HasSource(w) /\ UNCHANGED faults
       \/ (At(w, "download") \/ At(w, "upload")) /\ Fault
    /\ Go(w, "report")
    /\ UNCHANGED <<storeVars, cloudVars, parts, late, loopVars, sweepVars, deleteVars>>

TransferFails(w) ==
    /\ \/ At(w, "download") /\ ~HasSource(w) /\ UNCHANGED faults
       \/ (At(w, "download") \/ At(w, "upload")) /\ Fault
    /\ Go(w, "fail")
    /\ UNCHANGED <<storeVars, cloudVars, parts, late, loopVars, sweepVars, deleteVars>>

\* Mutant: the handler records the result as the loop does, unfenced.
ReportDoneUnfenced(w) ==
    LET j == worker[w].job IN
    /\ At(w, "report")
    /\ CompleteReplicationJob(j)
    /\ sweeps' = sweeps \cup {Committed(j)}
    /\ parts' = parts \ {<<w, j>>}
    /\ Rest(w)
    /\ UNCHANGED <<cloudVars, late, loopVars, strayed, deleteVars, faults>>

\* complete, accepted: the handler still has to sweep before it replies.
ReportDone(w) ==
    LET j == worker[w].job IN
    /\ At(w, "report")
    /\ FinishClaimedJob(w, j)
    /\ sweeps' = sweeps \cup {Committed(j)}
    /\ parts' = parts \ {<<w, j>>}
    /\ Rest(w)
    /\ UNCHANGED <<cloudVars, late, loopVars, strayed, deleteVars, faults>>

\* complete, refused with 409: the worker treats it as any other error.
ReportRefused(w) ==
    /\ At(w, "report")
    /\ ~Holds(w, worker[w].job)
    /\ Go(w, "fail")
    /\ UNCHANGED <<storeVars, cloudVars, parts, late, loopVars, sweepVars, deleteVars, faults>>

ReportFailure(w) ==
    /\ At(w, "fail")
    /\ IF Holds(w, worker[w].job)
       THEN FailClaimedJob(w, worker[w].job)
       ELSE UNCHANGED storeVars
    /\ Rest(w)
    /\ UNCHANGED <<cloudVars, parts, late, loopVars, sweepVars, deleteVars, faults>>

\* renew_loop, while process runs.
Working(w) == worker[w].pc \in {"download", "upload", "report", "fail"}

Renew(w) ==
    /\ Working(w)
    /\ RenewReplicationLease(w, worker[w].job)
    /\ UNCHANGED <<cloudVars, remoteVars, loopVars, sweepVars, deleteVars, faults>>

\* The worker stops waiting for a reply; the request may yet be served.
Timeout(w) ==
    /\ Fault
    /\ \/ At(w, "asking") /\ GiveUp(w, "claim") /\ Rest(w)
       \/ At(w, "report") /\ GiveUp(w, "complete") /\ Go(w, "fail")
       \/ At(w, "fail") /\ GiveUp(w, "fail") /\ Rest(w)
       \/ Working(w) /\ GiveUp(w, "renew") /\ UNCHANGED worker
    /\ UNCHANGED <<storeVars, cloudVars, parts, loopVars, sweepVars, deleteVars>>

\* A request nobody waits for: the job of a late claim is held by a worker
\* that does not know it.
ServeLate(m) ==
    /\ m \in late
    /\ late' = late \ {m}
    /\ CASE m.op = "claim" ->
              \/ \E j \in Job : ClaimReplicationJob(m.by, j)
              \/ ClaimNothing(m.by)
         [] m.op = "complete" /\ Holds(m.by, m.job) -> FinishClaimedJob(m.by, m.job)
         [] m.op = "fail" /\ Holds(m.by, m.job) -> FailClaimedJob(m.by, m.job)
         [] m.op = "renew" -> RenewReplicationLease(m.by, m.job)
         [] OTHER -> UNCHANGED storeVars
    /\ sweeps' = IF m.op = "complete" /\ Holds(m.by, m.job)
                 THEN sweeps \cup {Committed(m.job)}
                 ELSE sweeps
    /\ UNCHANGED <<cloudVars, worker, parts, loopVars, strayed, deleteVars, faults>>

LoseLate(m) ==
    /\ m \in late
    /\ late' = late \ {m}
    /\ UNCHANGED <<storeVars, cloudVars, worker, parts, loopVars, sweepVars, deleteVars, faults>>

\* A handler between its commit and its reply, one await after the other.
Goes(s, S) == s \in sweeps /\ sweeps' = (sweeps \ {s}) \cup S

SweepObject(s) ==
    /\ s.step = "object"
    /\ DropObject(<<s.job[1], s.old>>)
    /\ Goes(s, {[s EXCEPT !.step = "count", !.old = None]})
    /\ UNCHANGED <<storeVars, spool, remoteVars, loopVars, deleteVars>>

\* Mutant: the spool file goes with the first job that is done.
SweepUncounted(s) ==
    /\ s.step = "count"
    /\ Goes(s, {[s EXCEPT !.step = "drop"] : r \in {files[s.job[1]]} \ {None}})
    /\ UNCHANGED <<storeVars, cloudVars, remoteVars, loopVars, strayed, deleteVars, faults>>

\* pending_replication_count, and the row with the file's name.
SweepCount(s) ==
    /\ s.step = "count"
    /\ Goes(s, IF JobsOf(s.job[1]) = {} /\ Row(s.job[1])
               THEN {[s EXCEPT !.step = "drop"]} ELSE {})
    /\ UNCHANGED <<storeVars, cloudVars, remoteVars, loopVars, strayed, deleteVars, faults>>

SweepDrop(s) ==
    /\ s.step = "drop"
    /\ spool' = spool \ {s.job[1]}
    /\ Goes(s, {})
    /\ UNCHANGED <<storeVars, objects, remoteVars, loopVars, strayed, deleteVars, faults>>

\* The .part files are on a volume and survive.
WorkerCrash(w) ==
    /\ Fault
    /\ ~At(w, "down")
    /\ worker' = [worker EXCEPT ![w] = [IdleWorker EXCEPT !.pc = "down"]]
    /\ UNCHANGED <<storeVars, cloudVars, parts, late, loopVars, sweepVars, deleteVars>>

WorkerStart(w) ==
    /\ At(w, "down")
    /\ Rest(w)
    /\ UNCHANGED <<storeVars, cloudVars, parts, late, loopVars, sweepVars, deleteVars, faults>>

-----------------------------------------------------------------------------
(* The controller's replication_loop.                                      *)

LoopAt(pc) == loop.pc = pc
LoopGo(pc) == loop' = [loop EXCEPT !.pc = pc]

\* replication_paused and the targets left to the remote workers.
LoopPoll ==
    /\ LoopAt("idle")
    /\ ~paused
    /\ loop' = [IdleLoop EXCEPT !.pc = "fetch", !.excluded = ActiveTargets]
    /\ UNCHANGED <<storeVars, cloudVars, remoteVars, paused, sweepVars, deleteVars, faults>>

\* due_replication_jobs with LIMIT; the batch is not read again.
LoopFetch ==
    LET eligible == {j \in jobs : Due(j) /\ j[2] \notin loop.excluded} IN
    /\ LoopAt("fetch")
    /\ \E B \in SUBSET eligible :
         /\ B = eligible \/ Cardinality(B) = BatchLimit
         /\ Cardinality(B) <= BatchLimit
         /\ loop' = IF B = {} THEN IdleLoop
                    ELSE [IdleLoop EXCEPT !.pc = "next", !.batch = B]
    /\ UNCHANGED <<storeVars, cloudVars, remoteVars, paused, sweepVars, deleteVars, faults>>

\* The next job of the batch; one whose file is gone is skipped.
LoopNext(j) ==
    /\ LoopAt("next")
    /\ j \in loop.batch
    /\ loop' = IF Row(j[1])
               THEN [loop EXCEPT !.pc = "source", !.batch = @ \ {j},
                                 !.job = j, !.src = files[j[1]]]
               ELSE [loop EXCEPT !.batch = @ \ {j}]
    /\ UNCHANGED <<storeVars, cloudVars, remoteVars, paused, sweepVars, deleteVars, faults>>

LoopEnd ==
    /\ LoopAt("next")
    /\ loop.batch = {}
    /\ loop' = IdleLoop
    /\ UNCHANGED <<storeVars, cloudVars, remoteVars, paused, sweepVars, deleteVars, faults>>

LoopSource ==
    /\ LoopAt("source")
    /\ loop.job[1] \in spool \/ <<loop.job[1], loop.src>> \in objects
    /\ spool' = spool \cup {loop.job[1]}
    /\ LoopGo("upload")
    /\ UNCHANGED <<storeVars, objects, remoteVars, paused, sweepVars, deleteVars, faults>>

LoopUpload ==
    /\ LoopAt("upload")
    /\ loop.job[1] \in spool
    /\ objects' = objects \cup {loop.job}
    /\ LoopGo("commit")
    /\ UNCHANGED <<storeVars, spool, remoteVars, paused, sweepVars, deleteVars, faults>>

\* The spool file may have been deleted under the upload.
LoopTransferFails ==
    /\ \/ /\ LoopAt("source")
          /\ loop.job[1] \notin spool /\ <<loop.job[1], loop.src>> \notin objects
          /\ UNCHANGED faults
       \/ LoopAt("upload") /\ loop.job[1] \notin spool /\ UNCHANGED faults
       \/ (LoopAt("source") \/ LoopAt("upload")) /\ Fault
    /\ LoopGo("fail")
    /\ UNCHANGED <<storeVars, cloudVars, remoteVars, paused, sweepVars, deleteVars>>

LoopCommit ==
    LET c == Committed(loop.job) IN
    /\ LoopAt("commit")
    /\ CompleteReplicationJob(loop.job)
    /\ loop' = [loop EXCEPT !.pc = IF c.step = "object" THEN "sweep" ELSE "count",
                            !.src = c.old]
    /\ UNCHANGED <<cloudVars, remoteVars, paused, sweepVars, deleteVars, faults>>

LoopSweep ==
    /\ LoopAt("sweep")
    /\ DropObject(<<loop.job[1], loop.src>>)
    /\ loop' = [loop EXCEPT !.pc = "count", !.src = None]
    /\ UNCHANGED <<storeVars, spool, remoteVars, paused, sweeps, deleteVars>>

\* The loop has read the row before, and does not look for it again.
LoopCount ==
    /\ LoopAt("count")
    /\ loop' = IF JobsOf(loop.job[1]) = {} THEN [loop EXCEPT !.pc = "drop"]
               ELSE [loop EXCEPT !.pc = "next", !.job = None]
    /\ UNCHANGED <<storeVars, cloudVars, remoteVars, paused, sweepVars, deleteVars, faults>>

LoopDrop ==
    /\ LoopAt("drop")
    /\ spool' = spool \ {loop.job[1]}
    /\ loop' = [loop EXCEPT !.pc = "next", !.job = None]
    /\ UNCHANGED <<storeVars, objects, remoteVars, paused, sweepVars, deleteVars, faults>>

LoopFail ==
    /\ LoopAt("fail")
    /\ FailReplicationJob(loop.job)
    /\ loop' = [loop EXCEPT !.pc = "next", !.job = None, !.src = None]
    /\ UNCHANGED <<cloudVars, remoteVars, paused, sweepVars, deleteVars, faults>>

-----------------------------------------------------------------------------
(* Deletion: primary object, replica objects, spool file, then the record. *)

\* The item is read once, by expired_files for the cleanup loop and by get
\* for an admin, and used through all the steps.
DeleteBegin(d, t) ==
    /\ deleter[d].pc = "idle"
    /\ Row(t)
    /\ t \notin unexpired \/ "delete" \in AdminOps
    /\ deleter' = [deleter EXCEPT ![d] = [IdleDeleter EXCEPT
                       !.pc = "primary", !.token = t, !.src = files[t]]]
    /\ doomed' = doomed \cup {t}
    /\ UNCHANGED <<storeVars, cloudVars, remoteVars, loopVars, sweepVars, faults>>

\* The primary object, and replicas_for.
DeletePrimary(d) ==
    LET t == deleter[d].token IN
    /\ deleter[d].pc = "primary"
    /\ objects' = objects \ {<<t, deleter[d].src>>}
    /\ deleter' = [deleter EXCEPT ![d] =
                       [pc |-> "copies", token |-> t, src |-> deleter[d].src,
                        copies |-> {b \in Backend : <<t, b>> \in replicas}]]
    /\ UNCHANGED <<storeVars, spool, remoteVars, loopVars, sweepVars, doomed, faults>>

DeleteCopies(d) ==
    LET t == deleter[d].token IN
    /\ deleter[d].pc = "copies"
    /\ objects' = objects \ ({t} \X deleter[d].copies)
    /\ spool' = spool \ {t}
    /\ deleter' = [deleter EXCEPT ![d].pc = "record"]
    /\ UNCHANGED <<storeVars, remoteVars, loopVars, sweepVars, doomed, faults>>

DeleteFinish(d) ==
    /\ deleter[d].pc = "record"
    /\ DeleteRecord(deleter[d].token)
    /\ deleter' = [deleter EXCEPT ![d] = IdleDeleter]
    /\ UNCHANGED <<cloudVars, remoteVars, loopVars, sweepVars, doomed, faults>>

\* An S3 error leaves the record, and what was deleted before stays deleted.
DeleteFails(d) ==
    /\ Fault
    /\ \/ deleter[d].pc = "primary" /\ UNCHANGED objects
       \/ /\ deleter[d].pc = "copies"
          /\ \E S \in SUBSET deleter[d].copies :
               /\ S # deleter[d].copies
               /\ objects' = objects \ ({deleter[d].token} \X S)
    /\ deleter' = [deleter EXCEPT ![d] = IdleDeleter]
    /\ UNCHANGED <<storeVars, spool, remoteVars, loopVars, sweepVars, doomed>>

\* Former objects of promoted files that a handler or the loop is to delete.
Pending == {<<s.job[1], s.old>> : s \in {r \in sweeps : r.step = "object"}}
           \cup {o \in Job : LoopAt("sweep") /\ o = <<loop.job[1], loop.src>>}

\* The controller restarts: the loop, the deletions and the requests being
\* served are lost, SQLite, S3 and the spool stay.
ControllerCrash ==
    /\ Fault
    /\ loop' = IdleLoop
    /\ sweeps' = {}
    /\ strayed' = strayed \cup Pending
    /\ late' = {}
    /\ deleter' = [d \in Deleter |-> IdleDeleter]
    /\ worker' = [w \in Worker |-> IF At(w, "asking") THEN IdleWorker ELSE worker[w]]
    /\ UNCHANGED <<storeVars, cloudVars, parts, paused, doomed>>

-----------------------------------------------------------------------------
(* The admin panel.                                                        *)

\* A runner may be at the job, or have been: what it stores is nobody's.
CancelJob(j) ==
    /\ "cancel" \in AdminOps
    /\ CancelReplicationJob(j)
    /\ strayed' = strayed \cup ({j} \cap jobs)
    /\ sweeps' = sweeps \cup {[job |-> j, old |-> None, step |-> "count"]}
    /\ UNCHANGED <<cloudVars, remoteVars, loopVars, deleteVars, faults>>

ReleaseWorker(w) ==
    /\ "release" \in AdminOps
    /\ ReleaseWorkerLease(w)
    /\ UNCHANGED <<cloudVars, remoteVars, loopVars, sweepVars, deleteVars, faults>>

ToggleWorker(w) ==
    /\ "enable" \in AdminOps
    /\ SetWorkerEnabled(w, w \in disabled)
    /\ UNCHANGED <<cloudVars, remoteVars, loopVars, sweepVars, deleteVars, faults>>

RetryJobs ==
    /\ "retry" \in AdminOps
    /\ RetryReplicationJobs
    /\ UNCHANGED <<cloudVars, remoteVars, loopVars, sweepVars, deleteVars, faults>>

ExtendFile(t) ==
    /\ "extend" \in AdminOps
    /\ UpdateExpiry(t)
    /\ UNCHANGED <<cloudVars, remoteVars, loopVars, sweepVars, deleteVars, faults>>

\* The form reads the setting and, later, writes the negation of what it read.
\* Forms may have read either value before, so either may be written now: one
\* that was never the negation of the setting is the setting itself.
TogglePause ==
    /\ "pause" \in AdminOps
    /\ paused' \in BOOLEAN
    /\ UNCHANGED <<storeVars, cloudVars, remoteVars, loop, sweepVars, deleteVars, faults>>

-----------------------------------------------------------------------------
(* Time.  A lease lapses under a worker that is at the job only when its   *)
(* renewals fail, and only a worker that is down stops being heard of.     *)

Tended(j) == \E w \in Worker : worker[w].job = j /\ claimedBy[j] = w

Lapse(j) ==
    /\ j \in leased
    /\ LeaseLapse(j)
    /\ IF Tended(j) THEN Fault ELSE UNCHANGED faults
    /\ UNCHANGED <<cloudVars, remoteVars, loopVars, sweepVars, deleteVars>>

Silence(w) ==
    /\ w \in heard
    /\ WorkerSilent(w)
    /\ IF At(w, "down") THEN UNCHANGED faults ELSE Fault
    /\ UNCHANGED <<cloudVars, remoteVars, loopVars, sweepVars, deleteVars>>

RetryTime(j) ==
    /\ j \notin due
    /\ BackoffOver(j)
    /\ UNCHANGED <<cloudVars, remoteVars, loopVars, sweepVars, deleteVars, faults>>

FileExpires(t) ==
    /\ t \in unexpired
    /\ Expire(t)
    /\ UNCHANGED <<cloudVars, remoteVars, loopVars, sweepVars, deleteVars, faults>>

-----------------------------------------------------------------------------
UploadStep == \E t \in Token, b \in Backend, T \in SUBSET Backend, p \in Maybe(Backend) :
              Register(t, b, T, p)

WorkerStep(w) ==
    \/ AskJob(w)
    \/ \E j \in Job : GetJob(w, j)
    \/ GetNothing(w)
    \/ Download(w) \/ Upload(w) \/ TransferFails(w)
    \/ ReportDone(w) \/ ReportRefused(w) \/ ReportFailure(w)
    \/ Renew(w) \/ Timeout(w) \/ WorkerCrash(w) \/ WorkerStart(w)

HandlerStep ==
    \/ \E m \in late : ServeLate(m) \/ LoseLate(m)
    \/ \E s \in sweeps : SweepObject(s) \/ SweepCount(s) \/ SweepDrop(s)

LoopStep ==
    \/ LoopPoll \/ LoopFetch \/ LoopEnd
    \/ \E j \in loop.batch : LoopNext(j)
    \/ LoopSource \/ LoopUpload \/ LoopTransferFails
    \/ LoopCommit \/ LoopSweep \/ LoopCount \/ LoopDrop \/ LoopFail

DeleterStep(d) ==
    \/ \E t \in Token : DeleteBegin(d, t)
    \/ DeletePrimary(d) \/ DeleteCopies(d) \/ DeleteFinish(d) \/ DeleteFails(d)

AdminStep ==
    \/ \E j \in Job : CancelJob(j)
    \/ \E w \in Worker : ReleaseWorker(w) \/ ToggleWorker(w)
    \/ \E t \in Token : ExtendFile(t)
    \/ RetryJobs \/ TogglePause

ClockStep ==
    \/ \E j \in Job : Lapse(j) \/ RetryTime(j)
    \/ \E w \in Worker : Silence(w)
    \/ \E t \in Token : FileExpires(t)

Next ==
    \/ UploadStep
    \/ \E w \in Worker : WorkerStep(w)
    \/ HandlerStep
    \/ LoopStep
    \/ \E d \in Deleter : DeleterStep(d)
    \/ ControllerCrash
    \/ AdminStep
    \/ ClockStep

Spec == Init /\ [][Next]_vars

-----------------------------------------------------------------------------
(* Fairness: processes run on and the clock goes on.  Nothing is assumed   *)
(* of uploads, deletions, admins, renewals, failures or restarts.          *)

WorkerGoesOn(w) ==
    \/ AskJob(w)
    \/ \E j \in Job : GetJob(w, j)
    \/ GetNothing(w)
    \/ Download(w) \/ Upload(w) \/ (TransferFails(w) /\ UNCHANGED faults)
    \/ ReportDone(w) \/ ReportRefused(w) \/ ReportFailure(w)

HandlerGoesOn(s) ==
    (SweepObject(s) /\ UNCHANGED faults) \/ SweepCount(s) \/ SweepDrop(s)

Fairness ==
    /\ \A w \in Worker : WF_vars(WorkerGoesOn(w)) /\ WF_vars(Silence(w) /\ UNCHANGED faults)
    /\ WF_vars(LoopStep /\ UNCHANGED faults)
    /\ WF_vars(\E s \in sweeps : HandlerGoesOn(s))
    /\ \A j \in Job : WF_vars(Lapse(j) /\ UNCHANGED faults) /\ WF_vars(RetryTime(j))

FairSpec == Spec /\ Fairness

-----------------------------------------------------------------------------
(* Properties.                                                             *)

\* "The link can be used until it expires" (README.md:200): unless its
\* deletion was started, a file has its object where its row says.  The jobs
\* that promote a file delete the object it had before.
LinkServed ==
    \A t \in Token : Row(t) /\ t \notin doomed => <<t, files[t]>> \in objects

\* Every replica listed for such a file exists, so that the failover of
\* resolve_download_location has something to find.
ReplicasServed ==
    \A r \in replicas : Row(r[1]) /\ r[1] \notin doomed => r \in objects

\* The temporary file is kept while jobs of its file are in the queue
\* (README.md:153), whoever finishes, cancels or fails them.
SpoolKept ==
    [][\A t \in spool \ spool' : JobsOf(t)' = {} \/ t \in doomed]_vars

\* A replica row always belongs to a file (the FOREIGN KEY of
\* app/storage.py:128).  One that does not keeps its backend undeletable:
\* backend_reference_count counts it for ever.
ReplicaRowsHaveFiles == \A r \in replicas : Row(r[1])

\* An object of a file whose deletion was not started is the primary or a
\* replica of its row, has a job that is to make it one, or is about to be
\* deleted: by the handler or the loop that promoted the file, each of which
\* answers for the transit object it replaced ("can be cleaned up later",
\* app/replication_api.py:86, but nothing does).  Excepted are the objects
\* whose deletion failed or was cut off, and those of cancelled jobs.
ObjectsAccounted ==
    \A o \in objects :
        \/ o[1] \in doomed
        \/ files[o[1]] = o[2]
        \/ o \in replicas \cup jobs \cup Pending \cup strayed

\* Every job of an unexpired file leaves the queue: a failed one is tried
\* again, one whose worker died goes to another or to the loop.  Of a file
\* whose deletion stopped half-way there may be no source left to copy.
QueueDrains ==
    \A j \in Job :
        j \in jobs ~> j \notin jobs \/ j[1] \notin unexpired \/ j[1] \in doomed \/ paused
=============================================================================

---------------------------- MODULE ServiceProofs ----------------------------
(***************************************************************************)
(* Replication keeps what it serves in S3.  The argument follows an object *)
(* through its life: it is Uploaded by a runner that has not reported yet, *)
(* then recorded as replica or primary, and it is removed by a deletion of *)
(* its file or because a promotion left it behind (Abandoned).  Five facts *)
(* about single steps say how these can change; the invariants follow.     *)
(***************************************************************************)
EXTENDS ReplicationProofs

\* A job some runner, request or batch still refers to.
InHand(j) ==
    \/ \E w \in Worker : Working(w) /\ worker[w].job = j
    \/ \E m \in late : m.op # "claim" /\ m.job = j
    \/ j \in loop.batch
    \/ loop.pc \in {"source", "upload", "commit", "sweep", "count", "drop", "fail"}
       /\ loop.job = j

\* A job whose object was uploaded and whose result is not recorded yet.
Uploaded(j) ==
    \/ \E w \in Worker : At(w, "report") /\ worker[w].job = j
    \/ \E m \in late : m.op = "complete" /\ m.job = j
    \/ LoopAt("commit") /\ loop.job = j

\* The object a promotion has replaced and is about to delete.
Abandoned(j) ==
    \/ \E s \in sweeps : s.step = "object" /\ s.job[1] = j[1] /\ s.old = j[2]
    \/ LoopAt("sweep") /\ loop.job[1] = j[1] /\ loop.src = j[2]

DoomInv == \A d \in Deleter : deleter[d].pc # "idle" => deleter[d].token \in doomed

-----------------------------------------------------------------------------
(* Facts about a single step.                                              *)

\* What a file was queued for is fixed when it is registered.
LEMMA KindStable ==
  ASSUME BaseInv, [StoreNext]_storeVars
  PROVE  /\ issued \subseteq issued'
         /\ \A j \in Job : j[1] \in issued => kind'[j] = kind[j]
  <1>1. ASSUME NEW t \in Token, NEW b \in Backend, NEW T \in SUBSET Backend,
               NEW p \in Backend \cup {None}, AddWithReplicationJobs(t, b, T, p)
        PROVE  /\ issued \subseteq issued'
               /\ \A j \in Job : j[1] \in issued => kind'[j] = kind[j]
    BY <1>1 DEF AddWithReplicationJobs
  <1>2. CASE UNCHANGED <<issued, kind>>
    BY <1>2
  <1> QED
    BY <1>1, <1>2
       DEF StoreNext, FinishClaimedJob, FailClaimedJob, ClaimReplicationJob,
           RenewReplicationLease, ClaimNothing, ReleaseWorkerLease, SetWorkerEnabled,
           WorkerSilent, CancelReplicationJob, CompleteReplicationJob, FailReplicationJob,
           LeaseLapse, BackoffOver, DeleteRecord, UpdateExpiry, Expire, RetryReplicationJobs,
           DropJobs, storeVars, fileVars, jobVars

\* A deletion marks its file first, and the mark stays.
LEMMA DoomStep ==
  ASSUME BaseInv, DoomInv, [Next]_vars
  PROVE  DoomInv' /\ doomed \subseteq doomed'
  <1> USE DEF DoomInv
  <1>1. ASSUME NEW d \in Deleter, DeleterStep(d) PROVE DoomInv' /\ doomed \subseteq doomed'
    <2> USE DEF BaseInv, TypeOK, IdleDeleter
    <2>1. ASSUME NEW t \in Token, DeleteBegin(d, t) PROVE DoomInv' /\ doomed \subseteq doomed'
      BY <2>1 DEF DeleteBegin
    <2>2. CASE DeletePrimary(d)
      BY <2>2 DEF DeletePrimary
    <2>3. CASE DeleteCopies(d)
      BY <2>3 DEF DeleteCopies
    <2>4. CASE DeleteFinish(d)
      BY <2>4 DEF DeleteFinish
    <2>5. CASE DeleteFails(d)
      BY <2>5 DEF DeleteFails
    <2> QED
      BY <1>1, <2>1, <2>2, <2>3, <2>4, <2>5 DEF DeleterStep
  <1>2. CASE ControllerCrash
    BY <1>2 DEF ControllerCrash, IdleDeleter
  <1>3. CASE UNCHANGED deleteVars
    BY <1>3 DEF deleteVars
  <1>4. ASSUME NEW w \in Worker, WorkerStep(w) PROVE UNCHANGED deleteVars
    BY <1>4 DEF WorkerStep, AskJob, GetJob, GetNothing, Download, Upload, TransferFails,
                ReportDone, ReportRefused, ReportFailure, Renew, Timeout, WorkerCrash, WorkerStart
  <1>5. HandlerStep \/ UploadStep \/ UNCHANGED vars => UNCHANGED deleteVars
    BY DEF HandlerStep, ServeLate, LoseLate, SweepObject, SweepCount, SweepDrop, UploadStep, Register, vars
  <1>6. LoopStep => UNCHANGED deleteVars
    BY DEF LoopStep, LoopPoll, LoopFetch, LoopEnd, LoopNext, LoopSource, LoopUpload,
           LoopTransferFails, LoopCommit, LoopSweep, LoopCount, LoopDrop, LoopFail
  <1>7. AdminStep \/ ClockStep => UNCHANGED deleteVars
    BY DEF AdminStep, CancelJob, ReleaseWorker, ToggleWorker, ExtendFile, RetryJobs,
           TogglePause, ClockStep, Lapse, Silence, RetryTime, FileExpires
  <1> QED
    BY <1>1, <1>2, <1>3, <1>4, <1>5, <1>6, <1>7 DEF Next

-----------------------------------------------------------------------------
\* What is in hand was taken from the queue.
HandFrom == \A j \in Job : InHand(j)' => InHand(j) \/ j \in jobs

\* An upload is reported after the object was written.
UploadedFrom == \A j \in Job : Uploaded(j)' => Uploaded(j) \/ j \in objects'

\* The step promotes file t by the result of job k.
PromotedBy(t, k) ==
    /\ k[1] = t
    /\ Uploaded(k)
    /\ kind[k] = "promotion"
    /\ k \in jobs \/ LoopAt("commit")
    /\ files'[t] = k[2]

\* What a promotion leaves behind is the primary it replaces.
AbandonedFrom ==
    \A j \in Job : Abandoned(j)' =>
        Abandoned(j) \/ (files[j[1]] = j[2] /\ \E k \in Job : PromotedBy(j[1], k))

\* Only a deletion and a promotion remove objects.
ObjectsKept ==
    \A j \in objects : j \notin objects' => j[1] \in doomed \/ Abandoned(j)

\* Copies and primaries are recorded for what was uploaded.
RecordedFrom ==
    /\ \A r \in replicas' : r \in replicas \/ (Uploaded(r) /\ kind[r] = "replica")
    /\ \A t \in Token : files'[t] \in Backend =>
          \/ files'[t] = files[t]
          \/ t \notin issued /\ <<t, files'[t]>> \in objects'
          \/ Uploaded(<<t, files'[t]>>) /\ kind[<<t, files'[t]>>] = "promotion"

\* No primary moves, and the loop goes on or is restarted.
MovesNothing ==
    /\ \A t \in Token : files'[t] \in Backend => files'[t] = files[t] \/ t \notin issued
    /\ loop' \in {loop, IdleLoop}

StepFacts == HandFrom /\ UploadedFrom /\ AbandonedFrom /\ ObjectsKept /\ RecordedFrom

\* Recording the result of an uploaded job j has the facts about the tables,
\* and OldBackend(j) is what it abandons.
LEMMA RecordFacts ==
  ASSUME BaseInv, NEW j \in Job, Uploaded(j), j \in jobs \/ LoopAt("commit"),
         kind[j] # "unused",
         IF kind[j] = "promotion"
         THEN MoveFile(j[1], j[2]) /\ replicas' \subseteq replicas
         ELSE replicas' = replicas \cup {j} /\ UNCHANGED files
  PROVE  /\ RecordedFrom
         /\ \A i \in Job : i[1] = j[1] /\ i[2] = OldBackend(j) =>
               files[i[1]] = i[2] /\ \E k \in Job : PromotedBy(i[1], k)
  <1>1. kind[j] \in {"promotion", "replica"}
    BY DEF BaseInv, StoreInv, StoreTypeOK, Kinds
  <1>2. j = <<j[1], j[2]>> /\ j[1] \in Token /\ j[2] \in Backend
    BY JobPair
  <1>3. \A t \in Token : files'[t] = files[t] \/ (t = j[1] /\ files'[t] = j[2] /\ kind[j] = "promotion")
    BY <1>1, <1>2 DEF BaseInv, StoreInv, StoreTypeOK, MoveFile
  <1>4. \A r \in replicas' : r \in replicas \/ (r = j /\ kind[j] = "replica")
    BY <1>1
  <1>5. RecordedFrom
    BY <1>2, <1>3, <1>4 DEF RecordedFrom
  <1>6. ASSUME NEW i \in Job, i[1] = j[1], i[2] = OldBackend(j)
        PROVE  kind[j] = "promotion" /\ files[i[1]] = i[2] /\ files'[j[1]] = j[2]
    <2>1. kind[j] = "promotion" /\ files[i[1]] = i[2] /\ i[2] \in Backend
      BY <1>6, JobPair, NoneAssumption DEF OldBackend
    <2> QED
      BY <1>2, <1>6, <2>1, NoneAssumption DEF MoveFile, Row, BaseInv, StoreInv, StoreTypeOK
  <1> QED
    BY <1>5, <1>6 DEF PromotedBy

\* The steps of a worker.
LEMMA WorkerFacts ==
  ASSUME BaseInv, DoomInv, NEW w \in Worker, WorkerStep(w)
  PROVE  StepFacts
  <1> USE DEF BaseInv, TypeOK, InHand, Uploaded, Abandoned, HandFrom, UploadedFrom,
              AbandonedFrom, ObjectsKept, RecordedFrom, StepFacts, Working, At, Go, Rest,
              IdleWorker, LoopAt, cloudVars, remoteVars, loopVars, sweepVars, storeVars, fileVars,
              jobVars
  <1>1. CASE AskJob(w) \/ WorkerStart(w) \/ ReportRefused(w)
    BY <1>1 DEF AskJob, WorkerStart, ReportRefused
  <1>2. CASE WorkerCrash(w) \/ TransferFails(w)
    BY <1>2 DEF WorkerCrash, TransferFails
  <1>3. CASE GetNothing(w)
    BY <1>3 DEF GetNothing, ClaimNothing
  <1>4. ASSUME NEW j \in Job, GetJob(w, j) PROVE StepFacts
    BY <1>4 DEF GetJob, ClaimReplicationJob, Claimable
  <1>5. CASE Download(w)
    BY <1>5 DEF Download
  <1>10. CASE Upload(w)
    BY <1>10 DEF Upload
  <1>6. CASE ReportFailure(w)
    BY <1>6 DEF ReportFailure, FailClaimedJob
  <1>7. CASE Renew(w)
    BY <1>7 DEF Renew, RenewReplicationLease
  <1>8. CASE Timeout(w)
    <2>1. PICK o \in {"claim", "complete", "fail", "renew"} :
            /\ late' = late \cup {[op |-> o, by |-> w, job |-> worker[w].job]}
            /\ o # "claim" => Working(w)
            /\ o = "complete" => At(w, "report")
      BY <1>8 DEF Timeout, GiveUp
    <2>2. \A v \in Worker :
            \/ worker'[v] = worker[v]
            \/ /\ worker'[v].pc \in {"idle", "fail"}
               /\ Working(v)' => Working(v) /\ worker'[v].job = worker[v].job
      BY <1>8 DEF Timeout
    <2>3. UNCHANGED <<files, replicas, objects, loop, sweeps>>
      BY <1>8 DEF Timeout
    <2> QED
      BY <2>1, <2>2, <2>3
  <1>9. CASE ReportDone(w)
    <2> DEFINE j == worker[w].job
    <2>1. j \in jobs /\ j \in Job /\ Uploaded(j) /\ At(w, "report") /\ Row(j[1])
      BY <1>9 DEF ReportDone, FinishClaimedJob, Holds, StoreTypeOK
    <2>2. /\ \A v \in Worker : worker'[v] = worker[v] \/ worker'[v].pc = "idle"
          /\ UNCHANGED <<late, loop, objects>>
          /\ sweeps' = sweeps \cup {Committed(j)}
      BY <1>9 DEF ReportDone
    <2>3. HandFrom /\ UploadedFrom /\ ObjectsKept
      BY <2>2
    <2>4. /\ kind[j] # "unused"
          /\ IF kind[j] = "promotion"
             THEN MoveFile(j[1], j[2]) /\ replicas' \subseteq replicas
             ELSE replicas' = replicas \cup {j} /\ UNCHANGED files
      BY <1>9, <2>1 DEF ReportDone, FinishClaimedJob, StoreInv, KindInv
    <2>5. \A i \in Job : Abandoned(i)' => Abandoned(i) \/ (i[1] = j[1] /\ i[2] = OldBackend(j))
      BY <2>1, <2>2, CommittedType DEF StoreInv
    <2> HIDE DEF j, Uploaded, Abandoned, RecordedFrom
    <2> QED
      BY <2>1, <2>3, <2>4, <2>5, RecordFacts
  <1> QED
    BY <1>1, <1>2, <1>3, <1>4, <1>5, <1>6, <1>7, <1>8, <1>9, <1>10 DEF WorkerStep

\* The steps of the HTTP handlers nobody waits for.
LEMMA HandlerFacts ==
  ASSUME BaseInv, DoomInv, HandlerStep
  PROVE  StepFacts
  <1> USE DEF BaseInv, TypeOK, InHand, Uploaded, Abandoned, HandFrom, UploadedFrom,
              AbandonedFrom, ObjectsKept, RecordedFrom, StepFacts, Working, At,
              LoopAt, cloudVars, remoteVars, loopVars, sweepVars, storeVars, fileVars, jobVars
  <1>1. ASSUME NEW m \in late, ServeLate(m) PROVE StepFacts
    <2>1. /\ m.by \in Worker /\ m.op \in {"claim", "complete", "fail", "renew"}
          /\ m.op # "claim" => m.job \in Job
      BY DEF Request, HandInv
    <2>2. UNCHANGED <<objects, worker, loop>> /\ late' \subseteq late
      BY <1>1 DEF ServeLate
    <2>3. HandFrom /\ UploadedFrom /\ ObjectsKept
      BY <2>2
    <2>4. CASE m.op = "complete" /\ Holds(m.by, m.job)
      <3> DEFINE j == m.job
      <3>1. j \in jobs /\ j \in Job /\ Uploaded(j)
        BY <2>1, <2>4 DEF Holds
      <3>2. /\ kind[j] # "unused"
            /\ IF kind[j] = "promotion"
               THEN MoveFile(j[1], j[2]) /\ replicas' \subseteq replicas
               ELSE replicas' = replicas \cup {j} /\ UNCHANGED files
        BY <1>1, <2>4, <3>1 DEF ServeLate, FinishClaimedJob, StoreInv, KindInv
      <3>3. \A i \in Job : Abandoned(i)' => Abandoned(i) \/ (i[1] = j[1] /\ i[2] = OldBackend(j))
        <4>1. sweeps' = sweeps \cup {Committed(j)}
          BY <1>1, <2>4 DEF ServeLate
        <4> QED
          BY <2>2, <3>1, <4>1, CommittedType DEF StoreInv
      <3> HIDE DEF j, Uploaded, Abandoned, RecordedFrom
      <3> QED
        BY <2>3, <3>1, <3>2, <3>3, RecordFacts
    <2>5. CASE ~(m.op = "complete" /\ Holds(m.by, m.job))
      <3>1. UNCHANGED <<files, replicas, sweeps>>
        BY <1>1, <2>1, <2>5
           DEF ServeLate, ClaimReplicationJob, ClaimNothing, FailClaimedJob, RenewReplicationLease
      <3> QED
        BY <2>2, <2>3, <3>1
    <2> QED
      BY <2>4, <2>5
  <1>2. ASSUME NEW m \in late, LoseLate(m) PROVE StepFacts
    BY <1>2 DEF LoseLate
  <1>3. ASSUME NEW s \in sweeps, SweepObject(s) PROVE StepFacts
    <2> DEFINE n == [s EXCEPT !.step = "count", !.old = None]
    <2>1. UNCHANGED <<files, replicas, worker, late, loop>> /\ s.step = "object"
          /\ sweeps' = (sweeps \ {s}) \cup {n}
      BY <1>3 DEF SweepObject, Goes
    <2>2. n.step = "count"
      BY DEF Sweeping
    <2>3. \A j \in objects : j \notin objects' => j = <<s.job[1], s.old>>
      BY <1>3 DEF SweepObject, DropObject
    <2>4. ObjectsKept
      BY <2>1, <2>3
    <2> HIDE DEF n
    <2> QED
      BY <2>1, <2>2, <2>4
  <1>4. ASSUME NEW s \in sweeps, SweepCount(s) \/ SweepDrop(s) PROVE StepFacts
    <2> DEFINE n == [s EXCEPT !.step = "drop"]
    <2>1. UNCHANGED <<files, replicas, worker, late, loop, objects>>
          /\ sweeps' \subseteq (sweeps \ {s}) \cup {n}
      BY <1>4 DEF SweepCount, SweepDrop, Goes
    <2>2. n.step = "drop"
      BY DEF Sweeping
    <2> HIDE DEF n
    <2> QED
      BY <2>1, <2>2
  <1> QED
    BY <1>1, <1>2, <1>3, <1>4 DEF HandlerStep

\* The steps of the controller's loop.
LEMMA LoopFacts ==
  ASSUME BaseInv, DoomInv, LoopStep
  PROVE  StepFacts
  <1> USE DEF BaseInv, TypeOK, InHand, Uploaded, Abandoned, HandFrom, UploadedFrom,
              AbandonedFrom, ObjectsKept, RecordedFrom, StepFacts, Working, At,
              LoopAt, LoopGo, IdleLoop, cloudVars, remoteVars, sweepVars, storeVars, fileVars,
              jobVars
  <1>1. CASE LoopPoll \/ LoopEnd
    <2>1. UNCHANGED <<files, replicas, objects, worker, late, sweeps>>
      BY <1>1 DEF LoopPoll, LoopEnd
    <2>2. loop'.pc \in {"fetch", "idle"} /\ loop'.batch = {}
      <3>1. CASE LoopPoll
        BY <3>1 DEF LoopPoll
      <3>2. CASE LoopEnd
        BY <3>2 DEF LoopEnd
      <3> QED
        BY <1>1, <3>1, <3>2
    <2> QED
      BY <2>1, <2>2
  <1>2. CASE LoopFetch
    BY <1>2 DEF LoopFetch
  <1>3. ASSUME NEW j \in loop.batch, LoopNext(j) PROVE StepFacts
    BY <1>3 DEF LoopNext
  <1>4. CASE LoopSource
    BY <1>4 DEF LoopSource
  <1>5. CASE LoopUpload
    BY <1>5 DEF LoopUpload
  <1>6. CASE LoopTransferFails
    BY <1>6 DEF LoopTransferFails
  <1>7. CASE LoopFail
    BY <1>7 DEF LoopFail, FailReplicationJob
  <1>8. CASE LoopSweep
    <2>1. UNCHANGED <<files, replicas, worker, late, sweeps>>
      BY <1>8 DEF LoopSweep
    <2>2. loop.pc = "sweep" /\ loop'.pc = "count" /\ loop'.batch = loop.batch /\ loop'.job = loop.job
      BY <1>8 DEF LoopSweep
    <2>3. \A j \in objects : j \notin objects' => j = <<loop.job[1], loop.src>>
      BY <1>8 DEF LoopSweep, DropObject
    <2>4. ObjectsKept
      BY <1>8, <2>3 DEF LoopSweep
    <2>5. RecordedFrom
      BY <2>1
    <2>6. HandFrom /\ UploadedFrom /\ AbandonedFrom
      BY <2>1, <2>2
    <2> QED
      BY <2>4, <2>5, <2>6
  <1>9. CASE LoopCommit
    <2> DEFINE j == loop.job
    <2>1. j \in Job /\ Uploaded(j) /\ kind[j] # "unused" /\ LoopAt("commit")
      BY <1>9 DEF LoopCommit, CompleteReplicationJob, HandInv
    <2>2. /\ UNCHANGED <<objects, worker, late, sweeps>>
          /\ loop'.pc \in {"sweep", "count"} /\ loop'.job = j /\ loop'.src = OldBackend(j)
          /\ loop'.batch = loop.batch /\ loop.pc = "commit"
      BY <1>9, <2>1, CommittedType DEF LoopCommit, StoreInv
    <2>3. HandFrom /\ UploadedFrom /\ ObjectsKept
      BY <2>2
    <2>4. IF kind[j] = "promotion"
          THEN MoveFile(j[1], j[2]) /\ replicas' \subseteq replicas
          ELSE replicas' = replicas \cup {j} /\ UNCHANGED files
      BY <1>9 DEF LoopCommit, CompleteReplicationJob
    <2>5. \A i \in Job : Abandoned(i)' => Abandoned(i) \/ (i[1] = j[1] /\ i[2] = OldBackend(j))
      BY <2>2
    <2> HIDE DEF j, Uploaded, Abandoned, RecordedFrom, LoopAt
    <2> QED
      BY <2>1, <2>3, <2>4, <2>5, RecordFacts
  <1>10. CASE LoopCount \/ LoopDrop
    <2>1. UNCHANGED <<files, replicas, objects, worker, late, sweeps>>
      BY <1>10 DEF LoopCount, LoopDrop
    <2>2. /\ loop'.batch = loop.batch
          /\ loop.pc \in {"count", "drop"}
          /\ loop'.pc = "next" \/ (loop'.pc = "drop" /\ loop'.job = loop.job)
      BY <1>10 DEF LoopCount, LoopDrop
    <2> QED
      BY <2>1, <2>2
  <1> QED
    BY <1>1, <1>2, <1>3, <1>4, <1>5, <1>6, <1>7, <1>8, <1>9, <1>10 DEF LoopStep

\* Uploads, deletions, restarts, the panel and the clock.
LEMMA OtherFacts ==
  ASSUME BaseInv, DoomInv,
         \/ UploadStep \/ (\E d \in Deleter : DeleterStep(d)) \/ ControllerCrash
         \/ AdminStep \/ ClockStep \/ UNCHANGED vars
  PROVE  StepFacts /\ MovesNothing
  <1> USE DEF MovesNothing, BaseInv, TypeOK, InHand, Uploaded, Abandoned, HandFrom, UploadedFrom,
              AbandonedFrom, ObjectsKept, RecordedFrom, StepFacts, Working, At, LoopAt,
              cloudVars, remoteVars, loopVars, sweepVars, storeVars, fileVars, jobVars
  <1>1. CASE UploadStep
    <2>1. PICK t \in Token, b \in Backend, T \in SUBSET Backend, p \in Maybe(Backend) :
            Register(t, b, T, p)
      BY <1>1 DEF UploadStep
    <2>2. /\ UNCHANGED <<worker, late, loop, sweeps, replicas>>
          /\ t \notin issued /\ files' = [files EXCEPT ![t] = b]
          /\ objects' = objects \cup {<<t, b>>}
      BY <2>1 DEF Register, AddWithReplicationJobs
    <2>3. \A s \in Token : files'[s] = files[s] \/ (s = t /\ files'[s] = b)
      BY <2>2 DEF StoreInv, StoreTypeOK
    <2> QED
      BY <2>2, <2>3
  <1>2. ASSUME NEW d \in Deleter, DeleterStep(d) PROVE StepFacts /\ MovesNothing
    <2>1. UNCHANGED <<worker, late, loop, sweeps>>
      BY <1>2 DEF DeleterStep, DeleteBegin, DeletePrimary, DeleteCopies, DeleteFinish, DeleteFails
    <2>2. /\ replicas' \subseteq replicas
          /\ \A t \in Token : files'[t] \in Backend => files'[t] = files[t]
      <3>1. CASE DeleteFinish(d)
        BY <3>1, NoneAssumption DEF DeleteFinish, DeleteRecord, StoreInv, StoreTypeOK
      <3>2. CASE UNCHANGED storeVars
        BY <3>2
      <3> QED
        BY <1>2, <3>1, <3>2 DEF DeleterStep, DeleteBegin, DeletePrimary, DeleteCopies, DeleteFails
    <2>3. ObjectsKept
      <3>1. CASE deleter[d].pc # "idle" /\ objects \ objects' \subseteq {deleter[d].token} \X Backend
        BY <3>1 DEF DoomInv, Job
      <3>2. CASE DeletePrimary(d)
        <4>1. \A j \in objects : j \notin objects' => j = <<deleter[d].token, deleter[d].src>>
          BY <3>2 DEF DeletePrimary
        <4> QED
          BY <3>1, <3>2, <4>1, JobPair DEF DeletePrimary
      <3>3. CASE DeleteCopies(d)
        <4>1. deleter[d].copies \subseteq Backend
          OBVIOUS
        <4> QED
          BY <3>1, <3>3, <4>1 DEF DeleteCopies
      <3>4. CASE DeleteFails(d)
        <4>1. deleter[d].copies \subseteq Backend
          OBVIOUS
        <4> QED
          BY <3>1, <3>4, <4>1 DEF DeleteFails
      <3>5. CASE UNCHANGED objects
        BY <3>5
      <3> QED
        BY <1>2, <3>2, <3>3, <3>4, <3>5 DEF DeleterStep, DeleteBegin, DeleteFinish
    <2> QED
      BY <2>1, <2>2, <2>3
  <1>3. CASE ControllerCrash
    BY <1>3 DEF ControllerCrash, IdleLoop, IdleWorker
  <1>7. ASSUME NEW k \in Job, CancelJob(k) PROVE StepFacts /\ MovesNothing
    <2> DEFINE n == [job |-> k, old |-> None, step |-> "count"]
    <2>1. UNCHANGED <<files, replicas, objects, worker, late, loop>> /\ sweeps' = sweeps \cup {n}
      BY <1>7 DEF CancelJob, CancelReplicationJob
    <2>2. n.step = "count"
      OBVIOUS
    <2> HIDE DEF n
    <2> QED
      BY <2>1, <2>2
  <1>4. CASE AdminStep /\ ~(\E k \in Job : CancelJob(k))
    <2>1. UNCHANGED <<files, replicas, objects, worker, late, loop, sweeps>>
      BY <1>4 DEF AdminStep, CancelJob, CancelReplicationJob, ReleaseWorker, ReleaseWorkerLease,
                  ToggleWorker, SetWorkerEnabled, ExtendFile, UpdateExpiry, RetryJobs,
                  RetryReplicationJobs, TogglePause
    <2> QED
      BY <2>1
  <1>5. CASE ClockStep
    <2>1. UNCHANGED <<files, replicas, objects, worker, late, loop, sweeps>>
      BY <1>5 DEF ClockStep, Lapse, LeaseLapse, Silence, WorkerSilent, RetryTime, BackoffOver,
                  FileExpires, Expire
    <2> QED
      BY <2>1
  <1>6. CASE UNCHANGED vars
    BY <1>6 DEF vars
  <1> QED
    BY <1>1, <1>2, <1>3, <1>4, <1>5, <1>6, <1>7

\* The five facts hold of every step.
LEMMA Facts == BaseInv /\ DoomInv /\ [Next]_vars => StepFacts
  BY WorkerFacts, HandlerFacts, LoopFacts, OtherFacts DEF Next

-----------------------------------------------------------------------------
(* Replicas.                                                               *)

\* What is in hand was queued, so kind says for ever what it is for.
HandKind == \A j \in Job : InHand(j) => kind[j] # "unused" /\ j[1] \in issued

\* A promotion never abandons a replica's object.
AbandonKind == \A j \in Job : Abandoned(j) => kind[j] # "replica" /\ j[1] \in issued

ReplicaUploads ==
    \A j \in Job : Uploaded(j) /\ kind[j] = "replica" /\ j[1] \notin doomed => j \in objects

ReplicaObjects == \A r \in replicas : r[1] \notin doomed => r \in objects

ReplicaInv ==
    BaseInv /\ DoomInv /\ HandKind /\ AbandonKind /\ ReplicaUploads /\ ReplicaObjects

\* The invariant behind ReplicasServed is inductive.
LEMMA ReplicaStep == ReplicaInv /\ [Next]_vars => ReplicaInv'
  <1> SUFFICES ASSUME ReplicaInv, [Next]_vars PROVE ReplicaInv'
    OBVIOUS
  <1> USE DEF ReplicaInv
  <1>1. BaseInv' /\ DoomInv' /\ doomed \subseteq doomed'
    BY StepBase, DoomStep
  <1>2. /\ issued \subseteq issued'
        /\ \A j \in Job : j[1] \in issued => kind'[j] = kind[j]
    BY StepIsStoreStep, KindStable DEF BaseInv
  <1>3. HandFrom /\ UploadedFrom /\ AbandonedFrom /\ ObjectsKept /\ RecordedFrom
    BY Facts DEF StepFacts
  <1>4. \A j \in Job : Uploaded(j) => InHand(j)
    BY DEF Uploaded, InHand, At, Working, LoopAt
  <1>5. HandKind'
    <2>1. \A j \in jobs : kind[j] # "unused" /\ j[1] \in issued
      BY DEF BaseInv, StoreInv, KindInv, StoreTypeOK
    <2> QED
      BY <1>2, <1>3, <2>1 DEF HandKind, HandFrom
  <1>6. AbandonKind'
    <2>1. \A j \in Job : files[j[1]] = j[2] => kind[j] # "replica" /\ j[1] \in issued
      BY JobPair, NoneAssumption DEF BaseInv, StoreInv, KindInv, Row
    <2> QED
      BY <1>2, <1>3, <2>1 DEF AbandonKind, AbandonedFrom
  <1>7. ReplicaUploads'
    <2> SUFFICES ASSUME NEW j \in Job, Uploaded(j)', kind'[j] = "replica", j[1] \notin doomed',
                        j \notin objects'
                 PROVE  FALSE
      BY DEF ReplicaUploads
    <2>1. Uploaded(j)
      BY <1>3 DEF UploadedFrom
    <2>2. kind[j] = "replica"
      BY <1>2, <1>4, <2>1 DEF HandKind
    <2>3. j \in objects /\ ~Abandoned(j) /\ j[1] \notin doomed
      BY <1>1, <2>1, <2>2 DEF ReplicaUploads, AbandonKind
    <2> QED
      BY <1>3, <2>3 DEF ObjectsKept
  <1>8. ReplicaObjects'
    <2> SUFFICES ASSUME NEW r \in replicas', r[1] \notin doomed', r \notin objects'
                 PROVE  FALSE
      BY DEF ReplicaObjects
    <2>1. r \in Job
      BY <1>1 DEF BaseInv, StoreInv, StoreTypeOK
    <2>2. kind[r] = "replica" /\ (r \in replicas \/ Uploaded(r))
      BY <1>3 DEF RecordedFrom, BaseInv, StoreInv, KindInv
    <2>3. r \in objects /\ ~Abandoned(r) /\ r[1] \notin doomed
      BY <1>1, <2>1, <2>2 DEF ReplicaUploads, ReplicaObjects, AbandonKind
    <2> QED
      BY <1>3, <2>3 DEF ObjectsKept
  <1> QED
    BY <1>1, <1>5, <1>6, <1>7, <1>8

\* Nothing is in hand at the start.
LEMMA ReplicaInit == Init => ReplicaInv
  <1>1. Init => DoomInv /\ HandKind /\ AbandonKind /\ ReplicaUploads /\ ReplicaObjects
    BY DEF Init, StoreInit, DoomInv, HandKind, AbandonKind, ReplicaUploads, ReplicaObjects,
           InHand, Uploaded, Abandoned, Working, At, LoopAt, IdleWorker, IdleLoop, IdleDeleter
  <1> QED
    BY <1>1, InitBase DEF ReplicaInv

LEMMA ReplicaInvariant == Spec => []ReplicaInv
  BY ReplicaInit, ReplicaStep, PTL DEF Spec

\* Every replica a file lists is in S3 until the deletion of the file is
\* started, whichever runners worked on it, however often and how late.
THEOREM Failover == Spec => []ReplicasServed
  <1>1. ReplicaInv => ReplicasServed
    BY DEF ReplicaInv, ReplicaObjects, ReplicasServed
  <1> QED
    BY <1>1, ReplicaInvariant, PTL

-----------------------------------------------------------------------------
(* Links, where one kind of runner works on the queue: the loop alone, or  *)
(* remote workers alone with the loop paused for good.                     *)

\* The loop of the controller is paused and nobody can start it.
PausedForGood == PausedAtStart /\ "pause" \notin AdminOps
PauseInv == paused /\ loop = IdleLoop /\ "pause" \notin AdminOps

LEMMA PauseStep == PauseInv /\ [Next]_vars => PauseInv'
  <1> SUFFICES ASSUME PauseInv, [Next]_vars PROVE PauseInv'
    OBVIOUS
  <1>1. ~LoopStep
    BY DEF PauseInv, LoopStep, LoopPoll, LoopFetch, LoopEnd, LoopNext, LoopSource, LoopUpload,
           LoopTransferFails, LoopCommit, LoopSweep, LoopCount, LoopDrop, LoopFail, LoopAt, IdleLoop
  <1>2. \A w \in Worker : WorkerStep(w) => UNCHANGED loopVars
    BY DEF WorkerStep, AskJob, GetJob, GetNothing, Download, Upload, TransferFails,
           ReportDone, ReportRefused, ReportFailure, Renew, Timeout, WorkerCrash, WorkerStart
  <1>3. HandlerStep \/ UploadStep \/ (\E d \in Deleter : DeleterStep(d)) => UNCHANGED loopVars
    BY DEF HandlerStep, ServeLate, LoseLate, SweepObject, SweepCount, SweepDrop, UploadStep, Register, DeleterStep,
           DeleteBegin, DeletePrimary, DeleteCopies, DeleteFinish, DeleteFails
  <1>4. AdminStep \/ ClockStep => UNCHANGED loopVars
    BY DEF PauseInv, AdminStep, CancelJob, ReleaseWorker, ToggleWorker, ExtendFile, RetryJobs,
           TogglePause, ClockStep, Lapse, Silence, RetryTime, FileExpires
  <1>5. ControllerCrash => loop' = IdleLoop /\ UNCHANGED paused
    BY DEF ControllerCrash
  <1>6. UNCHANGED vars => UNCHANGED loopVars
    BY DEF vars
  <1> QED
    BY <1>1, <1>2, <1>3, <1>4, <1>5, <1>6 DEF Next, PauseInv, loopVars, IdleLoop

OneRunner == Worker = {} \/ PausedForGood

RunnerInv ==
    \/ Worker = {} /\ late = {}
    \/ PauseInv

\* The loop is not at a promotion that was done before.
LoopFresh ==
    /\ loop.job \notin loop.batch
    /\ \A j \in Job :
          /\ kind[j] = "promotion"
          /\ \/ j \in loop.batch
             \/ loop.pc \in {"source", "upload", "commit", "fail"} /\ loop.job = j
          => files[j[1]] # j[2]

\* An abandoned object is not the primary again.
AbandonMoved ==
    \A j \in Job : Abandoned(j) => kind[j] = "unused" /\ files[j[1]] # j[2]

AllUploads == \A j \in Job : Uploaded(j) /\ j[1] \notin doomed => j \in objects

LinkInv == ReplicaInv /\ RunnerInv /\ LoopFresh /\ AbandonMoved /\ AllUploads /\ LinkServed

\* There stays one kind of runner.
LEMMA RunnerStep ==
  ASSUME BaseInv, RunnerInv, [Next]_vars
  PROVE  RunnerInv'
  <1>1. CASE Worker = {} /\ late = {}
    <2>1. \A w \in Worker : WorkerStep(w) => FALSE
      BY <1>1
    <2>2. HandlerStep => UNCHANGED late
      BY <1>1 DEF HandlerStep, SweepObject, SweepCount, SweepDrop, remoteVars
    <2>3. LoopStep => UNCHANGED late
      BY DEF LoopStep, LoopPoll, LoopFetch, LoopEnd, LoopNext, LoopSource, LoopUpload,
             LoopTransferFails, LoopCommit, LoopSweep, LoopCount, LoopDrop, LoopFail, remoteVars
    <2>4. UploadStep \/ (\E d \in Deleter : DeleterStep(d)) => UNCHANGED late
      BY DEF UploadStep, Register, DeleterStep, DeleteBegin, DeletePrimary, DeleteCopies,
             DeleteFinish, DeleteFails, remoteVars
    <2>5. AdminStep \/ ClockStep => UNCHANGED late
      BY DEF AdminStep, CancelJob, ReleaseWorker, ToggleWorker, ExtendFile, RetryJobs,
             TogglePause, ClockStep, Lapse, Silence, RetryTime, FileExpires, remoteVars
    <2>6. ControllerCrash => late' = {}
      BY DEF ControllerCrash
    <2>7. UNCHANGED vars => UNCHANGED late
      BY DEF vars, remoteVars
    <2> QED
      BY <1>1, <2>1, <2>2, <2>3, <2>4, <2>5, <2>6, <2>7 DEF Next, RunnerInv
  <1>2. CASE PauseInv
    BY <1>2, PauseStep DEF RunnerInv
  <1> QED
    BY <1>1, <1>2 DEF RunnerInv

\* The loop's batch stays fresh: a job leaves it before it is done, and
\* another promotion of the same file does not exist.
LEMMA FreshStep ==
  ASSUME LinkInv, [Next]_vars
  PROVE  LoopFresh'
  <1> USE DEF LinkInv, ReplicaInv
  <1>1. ReplicaInv' /\ RunnerInv'
    BY ReplicaStep, RunnerStep
  <1>2. \A j \in Job : j[1] \in issued => kind'[j] = kind[j]
    BY StepIsStoreStep, KindStable DEF BaseInv
  <1>3. \A j \in Job : InHand(j) => j[1] \in issued
    BY DEF HandKind
  <1>4. None \notin Job
    BY NoneAssumption DEF Job
  <1>5. CASE loop' = IdleLoop
    BY <1>4, <1>5 DEF LoopFresh, IdleLoop
  <1>6. CASE MovesNothing /\ loop' = loop
    <2>1. loop.job \notin loop.batch
      BY DEF LoopFresh
    <2>2. ASSUME NEW j \in Job, kind'[j] = "promotion",
                 j \in loop.batch \/ (loop.pc \in {"source", "upload", "commit", "fail"} /\ loop.job = j)
          PROVE  files'[j[1]] # j[2]
      <3>1. j[1] \in issued /\ kind[j] = "promotion"
        BY <1>2, <1>3, <2>2 DEF InHand
      <3>2. files[j[1]] # j[2]
        BY <2>2, <3>1 DEF LoopFresh
      <3> QED
        BY <1>6, <3>1, <3>2, JobPair DEF MovesNothing
    <2> QED
      BY <1>6, <2>1, <2>2 DEF LoopFresh
  <1>7. CASE LoopStep
    <2> USE DEF LoopFresh, LoopAt, LoopGo, BaseInv, TypeOK, StoreInv, storeVars, fileVars, jobVars
    <2>1. CASE LoopPoll \/ LoopEnd
      <3>1. loop'.pc \in {"fetch", "idle"} /\ loop'.batch = {}
        <4>1. CASE LoopPoll
          BY <4>1 DEF LoopPoll, IdleLoop
        <4>2. CASE LoopEnd
          BY <4>2 DEF LoopEnd, IdleLoop
        <4> QED
          BY <2>1, <4>1, <4>2
      <3> QED
        BY <3>1
    <2>2. CASE LoopFetch
      <3>1. PICK B \in SUBSET jobs :
              loop' = IF B = {} THEN IdleLoop ELSE [IdleLoop EXCEPT !.pc = "next", !.batch = B]
        BY <2>2 DEF LoopFetch
      <3>2. loop'.pc \in {"idle", "next"} /\ loop'.batch \subseteq jobs /\ loop'.job = None
        BY <3>1 DEF IdleLoop
      <3>3. UNCHANGED files /\ jobs \subseteq Job
        BY <2>2 DEF LoopFetch, StoreTypeOK
      <3> QED
        BY <1>4, <3>2, <3>3 DEF KindInv
    <2>3. ASSUME NEW j \in loop.batch, LoopNext(j) PROVE LoopFresh'
      <3>1. /\ UNCHANGED <<files, kind>>
            /\ loop'.batch = loop.batch \ {j}
            /\ loop' # loop => loop'.job \in {j, loop.job} /\ loop'.pc \in {"source", "next"}
            /\ loop'.pc = "source" => loop'.job = j
        BY <2>3 DEF LoopNext
      <3>2. loop.pc = "next" /\ loop'.pc \in {"source", "next"}
        BY <2>3 DEF LoopNext
      <3>3. loop'.job \in {j, loop.job}
        BY <2>3 DEF LoopNext
      <3> QED
        BY <3>1, <3>2, <3>3
    <2>4. CASE LoopSource \/ LoopUpload \/ LoopTransferFails
      <3>1. /\ UNCHANGED <<files, kind>>
            /\ loop'.batch = loop.batch /\ loop'.job = loop.job
            /\ loop.pc \in {"source", "upload"}
        BY <2>4 DEF LoopSource, LoopUpload, LoopTransferFails
      <3> QED
        BY <3>1
    <2>5. CASE LoopSweep \/ LoopCount \/ LoopDrop \/ LoopFail
      <3>1. /\ UNCHANGED <<files, kind>>
            /\ loop'.batch = loop.batch /\ loop'.job \in {None, loop.job}
            /\ loop'.pc \in {"count", "drop", "next"}
        <4>1. CASE LoopSweep \/ LoopCount \/ LoopDrop
          BY <4>1 DEF LoopSweep, LoopCount, LoopDrop
        <4>2. CASE LoopFail
          BY <4>2 DEF LoopFail, FailReplicationJob
        <4> QED
          BY <2>5, <4>1, <4>2
      <3> QED
        BY <1>4, <3>1
    <2>6. CASE LoopCommit
      <3> DEFINE k == loop.job
      <3>1. /\ loop'.batch = loop.batch /\ loop'.job = k /\ loop'.pc \in {"sweep", "count"}
            /\ k \in Job /\ kind' = kind
            /\ files' = files \/ (kind[k] = "promotion" /\ files' = [files EXCEPT ![k[1]] = k[2]])
        BY <2>6 DEF LoopCommit, CompleteReplicationJob, MoveFile, DropJobs, HandInv
      <3>2. ASSUME NEW j \in Job, kind[j] = "promotion", j \in loop.batch
            PROVE  files'[j[1]] # j[2]
        <4>1. files[j[1]] # j[2] /\ j # k
          BY <3>2
        <4>2. kind[k] = "promotion" => j[1] # k[1]
          BY <3>1, <3>2, <4>1 DEF KindInv
        <4> QED
          BY <3>1, <4>1, <4>2, JobPair DEF StoreTypeOK
      <3> QED
        BY <3>1, <3>2
    <2> QED
      BY <1>7, <2>1, <2>2, <2>3, <2>4, <2>5, <2>6 DEF LoopStep
  <1>8. CASE Worker = {} /\ ~LoopStep
    <2>1. \A w \in Worker : WorkerStep(w) => FALSE
      BY <1>8
    <2>2. HandlerStep => MovesNothing
      <3>1. \A m \in late : ServeLate(m) => FALSE
        BY <1>8 DEF BaseInv, TypeOK, Request
      <3>2. \A m \in late : LoseLate(m) => UNCHANGED <<files, loop>>
        BY DEF LoseLate, storeVars, fileVars, loopVars
      <3>3. \A s \in sweeps : SweepObject(s) \/ SweepCount(s) \/ SweepDrop(s)
                             => UNCHANGED <<files, loop>>
        BY DEF SweepObject, SweepCount, SweepDrop, storeVars, fileVars, loopVars
      <3> QED
        BY <3>1, <3>2, <3>3 DEF HandlerStep, MovesNothing
    <2>3. MovesNothing
      BY <1>8, <2>1, <2>2, OtherFacts DEF Next
    <2> QED
      BY <2>3, <1>5, <1>6 DEF MovesNothing
  <1>9. Worker = {} \/ loop' = IdleLoop
    BY <1>1 DEF RunnerInv, PauseInv, IdleLoop
  <1> QED
    BY <1>5, <1>7, <1>8, <1>9

\* The invariant behind LinkServed is inductive.
LEMMA LinkStep == LinkInv /\ [Next]_vars => LinkInv'
  <1> SUFFICES ASSUME LinkInv, [Next]_vars PROVE LinkInv'
    OBVIOUS
  <1> USE DEF LinkInv, ReplicaInv
  <1>1. ReplicaInv' /\ RunnerInv' /\ LoopFresh' /\ doomed \subseteq doomed'
    BY ReplicaStep, RunnerStep, FreshStep, DoomStep
  <1>2. /\ issued \subseteq issued'
        /\ \A j \in Job : j[1] \in issued => kind'[j] = kind[j]
    BY StepIsStoreStep, KindStable DEF BaseInv
  <1>3. HandFrom /\ UploadedFrom /\ AbandonedFrom /\ ObjectsKept /\ RecordedFrom
    BY Facts DEF StepFacts
  <1>4. \A j \in Job : Uploaded(j) => kind[j] # "unused"
    BY DEF Uploaded, InHand, At, Working, LoopAt, HandKind
  <1>5. ASSUME NEW k \in Job, Uploaded(k), kind[k] = "promotion", k \in jobs \/ LoopAt("commit")
        PROVE  files[k[1]] # k[2]
    <2>1. CASE k \in jobs
      BY <2>1 DEF BaseInv, StoreInv, KindInv
    <2>2. CASE LoopAt("commit")
      <3>1. Worker = {} /\ late = {}
        BY <2>2 DEF RunnerInv, PauseInv, LoopAt, IdleLoop
      <3>2. loop.job = k
        BY <1>5, <3>1 DEF Uploaded
      <3> QED
        BY <1>5, <2>2, <3>2 DEF LoopFresh, LoopAt
    <2> QED
      BY <1>5, <2>1, <2>2
  <1>6. AbandonMoved'
    <2>1. ASSUME NEW j \in Job, Abandoned(j) PROVE kind'[j] = "unused" /\ files'[j[1]] # j[2]
      <3>1. kind[j] = "unused" /\ files[j[1]] # j[2] /\ j[1] \in issued
        BY <2>1 DEF AbandonMoved, AbandonKind
      <3> QED
        BY <1>2, <1>3, <3>1, JobPair DEF RecordedFrom
    <2>2. ASSUME NEW j \in Job, Abandoned(j)', ~Abandoned(j)
          PROVE  kind'[j] = "unused" /\ files'[j[1]] # j[2]
      <3>1. files[j[1]] = j[2]
        BY <1>3, <2>2 DEF AbandonedFrom
      <3>2. PICK k \in Job : PromotedBy(j[1], k)
        BY <1>3, <2>2 DEF AbandonedFrom
      <3>3. files[k[1]] # k[2]
        BY <1>5, <3>2 DEF PromotedBy
      <3>4. k # j /\ files'[j[1]] # j[2]
        BY <3>1, <3>2, <3>3 DEF PromotedBy
      <3>5. kind[j] = "unused" /\ j[1] \in issued
        BY <3>1, <3>2, <3>4, JobPair, NoneAssumption
           DEF PromotedBy, BaseInv, StoreInv, KindInv, Row
      <3> QED
        BY <1>2, <3>4, <3>5
    <2> QED
      BY <2>1, <2>2 DEF AbandonMoved
  <1>7. AllUploads'
    <2> SUFFICES ASSUME NEW j \in Job, Uploaded(j)', j[1] \notin doomed', j \notin objects'
                 PROVE  FALSE
      BY DEF AllUploads
    <2>1. Uploaded(j)
      BY <1>3 DEF UploadedFrom
    <2>2. j \in objects /\ ~Abandoned(j) /\ j[1] \notin doomed
      BY <1>1, <1>4, <2>1 DEF AllUploads, AbandonMoved
    <2> QED
      BY <1>3, <2>2 DEF ObjectsKept
  <1>8. LinkServed'
    <2> SUFFICES ASSUME NEW t \in Token, Row(t)', t \notin doomed', <<t, files'[t]>> \notin objects'
                 PROVE  FALSE
      BY DEF LinkServed
    <2> DEFINE j == <<t, files'[t]>>
    <2>1. files'[t] \in Backend /\ j \in Job /\ t \notin doomed
      BY <1>1 DEF BaseInv, StoreInv, StoreTypeOK, Row, Job
    <2>2. j \in objects /\ ~Abandoned(j)
      <3>1. CASE files'[t] = files[t]
        BY <2>1, <3>1 DEF LinkServed, Row, AbandonMoved
      <3>2. CASE Uploaded(j)
        BY <1>4, <2>1, <3>2 DEF AllUploads, AbandonMoved
      <3> QED
        BY <1>3, <2>1, <3>1, <3>2 DEF RecordedFrom
    <2> QED
      BY <1>3, <2>1, <2>2 DEF ObjectsKept
  <1> QED
    BY <1>1, <1>6, <1>7, <1>8

\* A link works until its file expires or is deleted, as long as one kind of
\* runner works on the queue: the loop of the controller, or any number of
\* remote workers.  With both the same promotion can be completed twice.
THEOREM LinksKept == OneRunner => (Spec => []LinkServed)
  <1>1. OneRunner /\ Init => LinkInv
    <2>1. Init => LoopFresh /\ AbandonMoved /\ AllUploads /\ LinkServed
      BY NoneAssumption
         DEF Init, StoreInit, LoopFresh, AbandonMoved, AllUploads, LinkServed, Uploaded,
             Abandoned, At, LoopAt, IdleWorker, IdleLoop, Row
    <2>2. OneRunner /\ Init => RunnerInv
      BY DEF Init, OneRunner, PausedForGood, RunnerInv, PauseInv
    <2> QED
      BY <2>1, <2>2, ReplicaInit DEF LinkInv
  <1>2. LinkInv => LinkServed
    BY DEF LinkInv
  <1> QED
    BY <1>1, <1>2, LinkStep, PTL DEF Spec

-----------------------------------------------------------------------------
(* The queue, where only remote workers work on it.                        *)

\* What a step does to the rows of files and replicas, the loop being idle.
RowsMove ==
    \/ UNCHANGED <<files, replicas>>
    \/ \E w \in Worker, j \in Job : FinishClaimedJob(w, j)
    \/ \E t \in Token, b \in Backend, T \in SUBSET Backend, p \in Maybe(Backend) :
           AddWithReplicationJobs(t, b, T, p)
    \/ \E t \in Token : DeleteRecord(t)

LEMMA PausedMoves ==
  ASSUME BaseInv, PauseInv, [Next]_vars
  PROVE  RowsMove
  <1> USE DEF storeVars, fileVars
  <1>1. ~LoopStep
    BY DEF PauseInv, LoopStep, LoopPoll, LoopFetch, LoopEnd, LoopNext, LoopSource, LoopUpload,
           LoopTransferFails, LoopCommit, LoopSweep, LoopCount, LoopDrop, LoopFail, LoopAt, IdleLoop
  <1>2. ASSUME NEW w \in Worker, WorkerStep(w) PROVE RowsMove
    <2>1. CASE ReportDone(w)
      <3>1. worker[w].job \in Job
        BY <2>1 DEF ReportDone, BaseInv, HandInv, At, Working
      <3> QED
        BY <2>1, <3>1 DEF ReportDone, RowsMove
    <2>2. CASE ~ReportDone(w)
      BY <1>2, <2>2
         DEF WorkerStep, AskJob, GetJob, GetNothing, Download, Upload, TransferFails,
             ReportRefused, ReportFailure, Renew, Timeout, WorkerCrash, WorkerStart, RowsMove,
             ClaimReplicationJob, ClaimNothing, FailClaimedJob, RenewReplicationLease
    <2> QED
      BY <2>1, <2>2
  <1>3. ASSUME NEW m \in late, ServeLate(m) PROVE RowsMove
    <2>1. m.by \in Worker /\ (m.op # "claim" => m.job \in Job)
      BY DEF BaseInv, TypeOK, Request, HandInv
    <2>2. CASE m.op = "complete" /\ Holds(m.by, m.job)
      BY <1>3, <2>1, <2>2 DEF ServeLate, RowsMove
    <2>3. CASE ~(m.op = "complete" /\ Holds(m.by, m.job))
      BY <1>3, <2>1, <2>3
         DEF ServeLate, RowsMove, ClaimReplicationJob, ClaimNothing, FailClaimedJob,
             RenewReplicationLease
    <2> QED
      BY <2>2, <2>3
  <1>4. \/ \E m \in late : LoseLate(m)
        \/ \E s \in sweeps : SweepObject(s) \/ SweepCount(s) \/ SweepDrop(s)
        => RowsMove
    BY DEF LoseLate, SweepObject, SweepCount, SweepDrop, RowsMove
  <1>5. UploadStep => RowsMove
    BY DEF UploadStep, Register, RowsMove
  <1>6. ASSUME NEW d \in Deleter, DeleterStep(d) PROVE RowsMove
    <2>1. CASE DeleteFinish(d)
      <3>1. deleter[d].token \in Token
        BY <2>1 DEF DeleteFinish, BaseInv, HandInv
      <3> QED
        BY <2>1, <3>1 DEF DeleteFinish, RowsMove
    <2>2. CASE ~DeleteFinish(d)
      BY <1>6, <2>2
         DEF DeleterStep, DeleteBegin, DeletePrimary, DeleteCopies, DeleteFails, RowsMove
    <2> QED
      BY <2>1, <2>2
  <1>7. ControllerCrash \/ UNCHANGED vars => RowsMove
    BY DEF ControllerCrash, vars, RowsMove
  <1>8. AdminStep \/ ClockStep => RowsMove
    BY DEF AdminStep, CancelJob, ReleaseWorker, ToggleWorker, ExtendFile, RetryJobs, TogglePause,
           ClockStep, Lapse, Silence, RetryTime, FileExpires, RowsMove, CancelReplicationJob,
           ReleaseWorkerLease, SetWorkerEnabled, RetryReplicationJobs, UpdateExpiry, LeaseLapse,
           WorkerSilent, BackoffOver, Expire
  <1> QED
    BY <1>1, <1>2, <1>3, <1>4, <1>5, <1>6, <1>7, <1>8 DEF Next, HandlerStep

LEMMA PausedRows ==
  ASSUME BaseInv, PauseInv, ReplicaRowsHaveFiles, [Next]_vars
  PROVE  ReplicaRowsHaveFiles'
  <1> USE NoneAssumption DEF ReplicaRowsHaveFiles, Row
  <1>1. files \in [Token -> Maybe(Backend)] /\ replicas \subseteq Job /\ JobsHaveFiles
    BY DEF BaseInv, StoreInv, StoreTypeOK, Maybe
  <1>2. CASE UNCHANGED <<files, replicas>>
    BY <1>2
  <1>3. ASSUME NEW w \in Worker, NEW j \in Job, FinishClaimedJob(w, j)
        PROVE  ReplicaRowsHaveFiles'
    <2>1. j \in jobs /\ files[j[1]] # None
      BY <1>1, <1>3 DEF FinishClaimedJob, Holds
    <2>2. j = <<j[1], j[2]>> /\ j[1] \in Token /\ j[2] \in Backend
      BY JobPair
    <2>3. CASE kind[j] = "promotion"
      <3>1. files' = [files EXCEPT ![j[1]] = j[2]] /\ replicas' = replicas \ {j}
        BY <1>3, <2>1, <2>3 DEF FinishClaimedJob, MoveFile
      <3>2. \A t \in Token : files'[t] = IF t = j[1] THEN j[2] ELSE files[t]
        BY <1>1, <3>1
      <3>3. \A r \in replicas : r[1] \in Token /\ files[r[1]] # None
        BY <1>1, JobPair
      <3> QED
        BY <2>1, <2>2, <3>1, <3>2, <3>3
    <2>4. CASE kind[j] # "promotion"
      BY <1>3, <2>1, <2>4 DEF FinishClaimedJob
    <2> QED
      BY <2>3, <2>4
  <1>4. ASSUME NEW t \in Token, NEW b \in Backend, NEW T \in SUBSET Backend,
               NEW p \in Maybe(Backend), AddWithReplicationJobs(t, b, T, p)
        PROVE  ReplicaRowsHaveFiles'
    <2>1. files' = [files EXCEPT ![t] = b] /\ replicas' = replicas /\ t \notin issued
      BY <1>4 DEF AddWithReplicationJobs
    <2>2. files[t] = None
      BY <2>1, <1>1 DEF BaseInv, StoreInv, KindInv
    <2> QED
      BY <1>1, <2>1, <2>2, JobPair
  <1>5. ASSUME NEW t \in Token, DeleteRecord(t) PROVE ReplicaRowsHaveFiles'
    <2>1. files' = [files EXCEPT ![t] = None] /\ replicas' = {r \in replicas : r[1] # t}
      BY <1>5 DEF DeleteRecord
    <2> QED
      BY <1>1, <2>1, JobPair
  <1> QED
    BY <1>2, <1>3, <1>4, <1>5, PausedMoves DEF RowsMove

LEMMA PausedInvariant == PausedForGood => (Spec => [](BaseInv /\ PauseInv /\ ReplicaRowsHaveFiles))
  <1>1. PausedForGood /\ Init => BaseInv /\ PauseInv /\ ReplicaRowsHaveFiles
    BY InitBase DEF PausedForGood, PauseInv, Init, StoreInit, ReplicaRowsHaveFiles
  <1>2. BaseInv /\ PauseInv /\ ReplicaRowsHaveFiles /\ [Next]_vars
        => (BaseInv /\ PauseInv /\ ReplicaRowsHaveFiles)'
    BY StepBase, PauseStep, PausedRows
  <1> QED
    BY <1>1, <1>2, PTL DEF Spec

\* A replica row belongs to a file, as the FOREIGN KEY of storage.py:128 says
\* without effect, as long as the loop is paused: a worker's completion asks
\* for the file in the transaction that inserts the row.
THEOREM RowsOfFiles == PausedForGood => (Spec => []ReplicaRowsHaveFiles)
  BY PausedInvariant, PTL

-----------------------------------------------------------------------------
(* The temporary file, for any mix of runners.                             *)

\* Whoever deletes the temporary file found no job of it, or deletes the file.
Spared == \A t \in spool \ spool' : JobsOf(t)' = {} \/ t \in doomed

\* Whoever is about to delete it found no job, and none is added to a file
\* that was registered before.
DropInv ==
    /\ \A s \in sweeps : s.step = "drop" => s.job[1] \in issued /\ JobsOf(s.job[1]) = {}
    /\ loop.pc = "drop" => JobsOf(loop.job[1]) = {}

SpoolInv == ReplicaInv /\ DropInv

\* Jobs are inserted with their file only.
LEMMA NoJobAdded ==
  ASSUME BaseInv, [StoreNext]_storeVars, NEW t \in issued
  PROVE  JobsOf(t)' \subseteq JobsOf(t)
  <1>1. ASSUME NEW u \in Token, NEW b \in Backend, NEW T \in SUBSET Backend,
               NEW p \in Backend \cup {None}, AddWithReplicationJobs(u, b, T, p)
        PROVE  JobsOf(t)' \subseteq JobsOf(t)
    BY <1>1 DEF AddWithReplicationJobs, JobsOf
  <1>2. CASE jobs' \subseteq jobs
    BY <1>2 DEF JobsOf
  <1> QED
    BY <1>1, <1>2
       DEF StoreNext, FinishClaimedJob, FailClaimedJob, ClaimReplicationJob,
           RenewReplicationLease, ClaimNothing, ReleaseWorkerLease, SetWorkerEnabled,
           WorkerSilent, CancelReplicationJob, CompleteReplicationJob, FailReplicationJob,
           LeaseLapse, BackoffOver, DeleteRecord, UpdateExpiry, Expire, RetryReplicationJobs,
           DropJobs, storeVars, fileVars, jobVars

\* Records are about to delete the spool file only after their count.
LEMMA DropSweeps ==
  ASSUME SpoolInv, [Next]_vars, NEW s \in sweeps', s.step = "drop"
  PROVE  s.job[1] \in issued /\ JobsOf(s.job[1]) = {}
  <1> USE DEF SpoolInv, DropInv, ReplicaInv, BaseInv, TypeOK, sweepVars
  <1>1. CASE s \in sweeps
    BY <1>1
  <1>2. ASSUME NEW r \in sweeps, SweepCount(r), s \notin sweeps
        PROVE  s.job[1] \in issued /\ JobsOf(s.job[1]) = {}
    <2>1. s = [r EXCEPT !.step = "drop"] /\ JobsOf(r.job[1]) = {} /\ Row(r.job[1])
      BY <1>2 DEF SweepCount, Goes
    <2>2. r \in Sweeping
      OBVIOUS
    <2>3. s.job = r.job /\ r.job[1] \in Token
      BY <2>1, <2>2, JobPair DEF Sweeping
    <2> QED
      BY <2>1, <2>3 DEF StoreInv, KindInv
  <1>3. ASSUME NEW r \in sweeps, SweepObject(r) \/ SweepDrop(r) PROVE s \in sweeps
    <2>1. [r EXCEPT !.step = "count", !.old = None].step = "count"
      BY DEF Sweeping
    <2> QED
      BY <1>3, <2>1 DEF SweepObject, SweepDrop, Goes
  <1>4. ASSUME NEW w \in Worker, WorkerStep(w) PROVE s \in sweeps
    <2>1. CASE ReportDone(w)
      <3>1. Committed(worker[w].job).step # "drop"
        BY DEF Committed
      <3> QED
        BY <2>1, <3>1 DEF ReportDone
    <2> QED
      BY <1>4, <2>1 DEF WorkerStep, AskJob, GetJob, GetNothing, Download, Upload, TransferFails,
                ReportRefused, ReportFailure, Renew, Timeout, WorkerCrash, WorkerStart
  <1>5. ASSUME NEW m \in late, ServeLate(m) \/ LoseLate(m) PROVE s \in sweeps
    <2>1. Committed(m.job).step # "drop"
      BY DEF Committed
    <2> QED
      BY <1>5, <2>1 DEF ServeLate, LoseLate
  <1>6. LoopStep => s \in sweeps
    BY DEF LoopStep, LoopPoll, LoopFetch, LoopEnd, LoopNext, LoopSource, LoopUpload,
           LoopTransferFails, LoopCommit, LoopSweep, LoopCount, LoopDrop, LoopFail
  <1>7. UploadStep \/ (\E d \in Deleter : DeleterStep(d)) \/ ControllerCrash => s \in sweeps
    BY DEF UploadStep, Register, DeleterStep, DeleteBegin, DeletePrimary, DeleteCopies,
           DeleteFinish, DeleteFails, ControllerCrash
  <1>8. AdminStep \/ ClockStep \/ UNCHANGED vars => s \in sweeps
    BY DEF AdminStep, CancelJob, ReleaseWorker, ToggleWorker, ExtendFile, RetryJobs,
           TogglePause, ClockStep, Lapse, Silence, RetryTime, FileExpires, vars
  <1> QED
    BY <1>1, <1>2, <1>3, <1>4, <1>5, <1>6, <1>7, <1>8 DEF Next, HandlerStep

\* So does the loop.
LEMMA DropLoop ==
  ASSUME SpoolInv, [Next]_vars, loop'.pc = "drop"
  PROVE  loop'.job \in Job /\ loop'.job[1] \in issued /\ JobsOf(loop'.job[1]) = {}
  <1> USE DEF SpoolInv, DropInv, ReplicaInv, BaseInv, TypeOK, HandInv, loopVars, LoopAt, LoopGo
  <1>1. loop.pc \in {"count", "drop"} /\ loop'.job = loop.job /\ JobsOf(loop.job[1]) = {}
    <2>1. CASE loop' = loop
      BY <2>1
    <2>2. CASE LoopCount
      BY <2>2 DEF LoopCount
    <2>3. LoopStep => LoopCount
      <3>1. LoopPoll => FALSE
        BY DEF LoopPoll, IdleLoop
      <3>5. LoopEnd => FALSE
        BY DEF LoopEnd, IdleLoop
      <3>6. LoopFetch => FALSE
        BY DEF LoopFetch, IdleLoop
      <3>2. ASSUME NEW j \in loop.batch, LoopNext(j) PROVE FALSE
        BY <3>2 DEF LoopNext
      <3>3. LoopSource \/ LoopUpload \/ LoopTransferFails => FALSE
        BY DEF LoopSource, LoopUpload, LoopTransferFails
      <3>4. LoopCommit \/ LoopSweep \/ LoopDrop \/ LoopFail => FALSE
        BY DEF LoopCommit, LoopSweep, LoopDrop, LoopFail
      <3> QED
        BY <3>1, <3>2, <3>3, <3>4, <3>5, <3>6 DEF LoopStep
    <2>4. ASSUME NEW w \in Worker, WorkerStep(w) PROVE loop' = loop
      BY <2>4 DEF WorkerStep, AskJob, GetJob, GetNothing, Download, Upload, TransferFails,
                  ReportDone, ReportRefused, ReportFailure, Renew, Timeout, WorkerCrash, WorkerStart
    <2>5. HandlerStep \/ UploadStep \/ (\E d \in Deleter : DeleterStep(d)) => loop' = loop
      BY DEF HandlerStep, ServeLate, LoseLate, SweepObject, SweepCount, SweepDrop, UploadStep,
             Register, DeleterStep, DeleteBegin, DeletePrimary, DeleteCopies, DeleteFinish,
             DeleteFails
    <2>6. AdminStep \/ ClockStep \/ UNCHANGED vars => loop' = loop
      BY DEF AdminStep, CancelJob, ReleaseWorker, ToggleWorker, ExtendFile, RetryJobs,
             TogglePause, ClockStep, Lapse, Silence, RetryTime, FileExpires, vars
    <2>7. ControllerCrash => FALSE
      BY DEF ControllerCrash, IdleLoop
    <2> QED
      BY <2>1, <2>2, <2>3, <2>4, <2>5, <2>6, <2>7 DEF Next
  <1>2. loop.job \in Job /\ InHand(loop.job)
    BY <1>1 DEF InHand
  <1> QED
    BY <1>1, <1>2 DEF HandKind

LEMMA SpoolInvStep == SpoolInv /\ [Next]_vars => SpoolInv'
  <1> SUFFICES ASSUME SpoolInv, [Next]_vars PROVE SpoolInv'
    OBVIOUS
  <1>1. ReplicaInv'
    BY ReplicaStep DEF SpoolInv
  <1>2. \A t \in issued : JobsOf(t)' \subseteq JobsOf(t)
    BY NoJobAdded, StepIsStoreStep DEF SpoolInv, ReplicaInv, BaseInv
  <1>3. issued \subseteq issued'
    BY KindStable, StepIsStoreStep DEF SpoolInv, ReplicaInv, BaseInv
  <1>4. ASSUME NEW s \in sweeps', s.step = "drop"
        PROVE  s.job[1] \in issued' /\ JobsOf(s.job[1])' = {}
    BY <1>2, <1>3, <1>4, DropSweeps
  <1>5. (loop.pc = "drop" => JobsOf(loop.job[1]) = {})'
    BY <1>2, DropLoop DEF JobsOf
  <1>6. DropInv'
    BY <1>4, <1>5 DEF DropInv, JobsOf
  <1> QED
    BY <1>1, <1>6 DEF SpoolInv

LEMMA SpoolStep ==
  ASSUME SpoolInv, [Next]_vars
  PROVE  Spared
  <1> USE DEF Spared
  <1>1. CASE spool \subseteq spool'
    BY <1>1
  <1>2. ASSUME NEW s \in sweeps, SweepDrop(s) PROVE Spared
    BY <1>2 DEF SweepDrop, SpoolInv, DropInv, JobsOf, storeVars, jobVars
  <1>3. CASE LoopDrop
    BY <1>3 DEF LoopDrop, LoopAt, SpoolInv, DropInv, JobsOf, storeVars, jobVars
  <1>4. ASSUME NEW d \in Deleter, DeleteCopies(d) PROVE Spared
    BY <1>4 DEF DeleteCopies, SpoolInv, ReplicaInv, DoomInv
  <1>5. \A w \in Worker : WorkerStep(w) => spool \subseteq spool'
    BY DEF WorkerStep, AskJob, GetJob, GetNothing, Download, Upload, TransferFails, ReportDone,
           ReportRefused, ReportFailure, Renew, Timeout, WorkerCrash, WorkerStart, cloudVars
  <1>6. (\E m \in late : ServeLate(m) \/ LoseLate(m)) \/ UploadStep \/ ControllerCrash
        \/ ClockStep \/ UNCHANGED vars => spool \subseteq spool'
    BY DEF ServeLate, LoseLate, UploadStep, Register, ControllerCrash, ClockStep, Lapse, Silence,
           RetryTime, FileExpires, vars, cloudVars
  <1>7. \A s \in sweeps : SweepObject(s) \/ SweepCount(s) => spool \subseteq spool'
    BY DEF SweepObject, SweepCount, cloudVars
  <1>8. LoopStep /\ ~LoopDrop => spool \subseteq spool'
    BY DEF LoopStep, LoopPoll, LoopFetch, LoopEnd, LoopNext, LoopSource, LoopUpload,
           LoopTransferFails, LoopCommit, LoopSweep, LoopCount, LoopFail, cloudVars
  <1>9. ASSUME NEW d \in Deleter, DeleterStep(d), ~DeleteCopies(d) PROVE spool \subseteq spool'
    BY <1>9 DEF DeleterStep, DeleteBegin, DeletePrimary, DeleteFinish, DeleteFails, cloudVars
  <1>10. AdminStep => spool \subseteq spool'
    BY DEF AdminStep, CancelJob, ReleaseWorker, ToggleWorker, ExtendFile, RetryJobs,
           TogglePause, cloudVars
  <1> QED
    BY <1>1, <1>2, <1>3, <1>4, <1>5, <1>6, <1>7, <1>8, <1>9, <1>10 DEF Next, HandlerStep

\* The temporary file of a file stays while its jobs are queued, whoever
\* finishes, cancels or fails them and whatever happens between the count of
\* the jobs and the deletion, unless the file is being deleted.
THEOREM SpoolStays == Spec => SpoolKept
  <1>1. Init => SpoolInv
    BY ReplicaInit DEF Init, SpoolInv, DropInv, IdleLoop
  <1>2. SpoolInv /\ [Next]_vars => [Spared]_vars
    BY SpoolStep
  <1> QED
    BY <1>1, <1>2, SpoolInvStep, PTL DEF Spec, SpoolKept, Spared

-----------------------------------------------------------------------------
(* The account of the objects, for any mix of runners.                     *)

\* What became of a job that was ever queued.
JobsAccounted ==
    \A j \in Job : kind[j] # "unused" =>
        \/ j[1] \in doomed
        \/ files[j[1]] = j[2]
        \/ j \in replicas \cup jobs \cup strayed

\* Only a deletion takes the row of a file.
RowsDoomed == \A t \in issued : Row(t) \/ t \in doomed

AccountInv == ReplicaInv /\ JobsAccounted /\ RowsDoomed /\ ObjectsAccounted

\* The former primary that the completion of j replaces will be deleted.
LeavesPending(j) == OldBackend(j) # None => <<j[1], OldBackend(j)>> \in Pending'

\* What a step may do to the rows of files, replicas and jobs.
RowsChange ==
    \/ UNCHANGED <<issued, files, replicas, kind>> /\ jobs \subseteq jobs'
    \/ \E w \in Worker, j \in Job : FinishClaimedJob(w, j) /\ LeavesPending(j)
    \/ \E j \in Job : CompleteReplicationJob(j) /\ LeavesPending(j)
    \/ \E j \in Job : CancelReplicationJob(j) /\ (j \in jobs => j \in strayed')
    \/ \E t \in Token, b \in Backend, T \in SUBSET Backend, p \in Maybe(Backend) :
           AddWithReplicationJobs(t, b, T, p)
    \/ \E t \in doomed : DeleteRecord(t)

\* An object is stored for a job in hand or with the row of a new file.
ObjectsFrom ==
    \A o \in objects' : o \in objects \/ (o \in Job /\ InHand(o)) \/ files'[o[1]] = o[2]

\* A former primary is deleted, or known to have stayed.
PendingKept ==
    /\ strayed \subseteq strayed'
    /\ \A o \in Pending : o \in Pending' \cup strayed' \/ o \notin objects'

AccountFacts == RowsChange /\ ObjectsFrom /\ PendingKept

LEMMA PendingGrows ==
  ASSUME sweeps \subseteq sweeps', loop' = loop \/ ~LoopAt("sweep")
  PROVE  Pending \subseteq Pending'
BY DEF Pending, LoopAt

\* A completion that is to be swept leaves the former primary to the sweep.
LEMMA CommittedPending ==
  ASSUME StoreTypeOK, NEW j \in Job, Committed(j) \in sweeps'
  PROVE  LeavesPending(j)
BY CommittedType DEF LeavesPending, Pending

LEMMA WorkerAccount ==
  ASSUME BaseInv, NEW w \in Worker, WorkerStep(w)
  PROVE  AccountFacts
  <1> USE DEF AccountFacts, ObjectsFrom, PendingKept, cloudVars, loopVars, sweepVars
  <1>1. CASE ReportDone(w)
    <2> DEFINE j == worker[w].job
    <2>1. j \in Job /\ StoreTypeOK
      BY <1>1 DEF ReportDone, At, Working, BaseInv, HandInv, StoreInv
    <2>2. FinishClaimedJob(w, j) /\ sweeps' = sweeps \cup {Committed(j)}
          /\ UNCHANGED <<loop, objects, strayed>>
      BY <1>1 DEF ReportDone
    <2>3. LeavesPending(j)
      BY <2>1, <2>2, CommittedPending
    <2>4. Pending \subseteq Pending'
      BY <2>2, PendingGrows
    <2>5. RowsChange
      BY <2>1, <2>2, <2>3 DEF RowsChange
    <2> QED
      BY <2>2, <2>4, <2>5
  <1>2. CASE ~ReportDone(w)
    <2>1. UNCHANGED <<loop, sweeps, strayed>>
      BY <1>2 DEF WorkerStep, AskJob, GetJob, GetNothing, Download, Upload, TransferFails,
                  ReportRefused, ReportFailure, Renew, Timeout, WorkerCrash, WorkerStart
    <2>2. Pending \subseteq Pending'
      BY <2>1, PendingGrows
    <2>3. ObjectsFrom
      <3>1. CASE Upload(w)
        BY <3>1 DEF Upload, At, InHand, Working, BaseInv, HandInv
      <3>2. CASE UNCHANGED objects
        BY <3>2
      <3> QED
        BY <1>2, <3>1, <3>2
           DEF WorkerStep, AskJob, GetJob, GetNothing, Download, TransferFails,
               ReportRefused, ReportFailure, Renew, Timeout, WorkerCrash, WorkerStart
    <2>4. UNCHANGED <<issued, files, replicas, kind, jobs>>
      BY <1>2 DEF WorkerStep, AskJob, GetJob, GetNothing, Download, Upload, TransferFails,
                  ReportRefused, ReportFailure, Renew, Timeout, WorkerCrash, WorkerStart,
                  ClaimReplicationJob, ClaimNothing, FailClaimedJob, Unclaim,
                  RenewReplicationLease, storeVars, fileVars, jobVars
    <2>5. RowsChange
      BY <2>4 DEF RowsChange
    <2> QED
      BY <2>1, <2>2, <2>3, <2>5
  <1> QED
    BY <1>1, <1>2

LEMMA HandlerAccount ==
  ASSUME BaseInv, HandlerStep
  PROVE  AccountFacts
  <1> USE DEF AccountFacts, ObjectsFrom, PendingKept, cloudVars, loopVars, sweepVars
  <1>1. ASSUME NEW m \in late, ServeLate(m) PROVE AccountFacts
    <2>1. /\ m.by \in Worker /\ m.op \in {"claim", "complete", "fail", "renew"}
          /\ m.op # "claim" => m.job \in Job
          /\ StoreTypeOK
      BY DEF BaseInv, StoreInv, TypeOK, Request, HandInv
    <2>2. UNCHANGED <<objects, loop, strayed>> /\ sweeps \subseteq sweeps'
      BY <1>1 DEF ServeLate
    <2>3. Pending \subseteq Pending'
      BY <2>2, PendingGrows
    <2>4. CASE m.op = "complete" /\ Holds(m.by, m.job)
      <3>1. FinishClaimedJob(m.by, m.job) /\ Committed(m.job) \in sweeps'
        BY <1>1, <2>4 DEF ServeLate
      <3>2. LeavesPending(m.job)
        BY <2>1, <2>4, <3>1, CommittedPending
      <3>3. RowsChange
        BY <2>1, <2>4, <3>1, <3>2 DEF RowsChange
      <3> QED
        BY <2>2, <2>3, <3>3
    <2>5. CASE ~(m.op = "complete" /\ Holds(m.by, m.job))
      <3>1. UNCHANGED <<issued, files, replicas, kind, jobs>>
        BY <1>1, <2>1, <2>5
           DEF ServeLate, ClaimReplicationJob, ClaimNothing, FailClaimedJob, Unclaim,
               RenewReplicationLease, storeVars, fileVars, jobVars
      <3>2. RowsChange
        BY <3>1 DEF RowsChange
      <3> QED
        BY <2>2, <2>3, <3>2
    <2> QED
      BY <2>4, <2>5
  <1>2. ASSUME NEW m \in late, LoseLate(m) PROVE AccountFacts
    <2>1. UNCHANGED <<storeVars, objects, loop, sweeps, strayed>>
      BY <1>2 DEF LoseLate
    <2>2. RowsChange
      BY <2>1 DEF RowsChange, storeVars, fileVars, jobVars
    <2> QED
      BY <2>1, <2>2, PendingGrows
  <1>3. ASSUME NEW s \in sweeps, SweepObject(s) PROVE AccountFacts
    <2> DEFINE x == <<s.job[1], s.old>>
    <2>1. UNCHANGED <<storeVars, loop>> /\ sweeps \ {s} \subseteq sweeps' /\ DropObject(x)
      BY <1>3 DEF SweepObject, Goes
    <2>2. \A o \in Pending : o \in Pending' \/ o = x
      BY <2>1 DEF Pending, LoopAt
    <2>3. strayed \subseteq strayed' /\ objects' \subseteq objects
          /\ (x \in strayed' \/ x \notin objects')
      BY <2>1 DEF DropObject
    <2>4. RowsChange
      BY <2>1 DEF RowsChange, storeVars, fileVars, jobVars
    <2> HIDE DEF x
    <2> QED
      BY <2>2, <2>3, <2>4
  <1>4. ASSUME NEW s \in sweeps, SweepCount(s) \/ SweepDrop(s) PROVE AccountFacts
    <2>1. UNCHANGED <<storeVars, objects, loop, strayed>> /\ sweeps \ {s} \subseteq sweeps'
          /\ s.step # "object"
      BY <1>4 DEF SweepCount, SweepDrop, Goes
    <2>2. Pending \subseteq Pending'
      BY <2>1 DEF Pending, LoopAt
    <2>3. RowsChange
      BY <2>1 DEF RowsChange, storeVars, fileVars, jobVars
    <2> QED
      BY <2>1, <2>2, <2>3
  <1> QED
    BY <1>1, <1>2, <1>3, <1>4 DEF HandlerStep

LEMMA LoopAccount ==
  ASSUME BaseInv, LoopStep
  PROVE  AccountFacts
  <1> USE DEF AccountFacts, ObjectsFrom, PendingKept, cloudVars, loopVars, sweepVars, LoopAt
  <1>1. CASE LoopCommit
    <2> DEFINE j == loop.job
    <2>1. j \in Job /\ StoreTypeOK /\ loop \in [pc : LoopPC, excluded : SUBSET Backend,
             batch : SUBSET Job, job : Maybe(Job), src : Maybe(Backend)]
      BY <1>1 DEF LoopCommit, BaseInv, HandInv, StoreInv, TypeOK
    <2>2. /\ CompleteReplicationJob(j)
          /\ loop' = [loop EXCEPT !.pc = IF Committed(j).step = "object" THEN "sweep" ELSE "count",
                                  !.src = Committed(j).old]
          /\ loop.pc = "commit"
          /\ UNCHANGED <<objects, sweeps, strayed>>
      BY <1>1 DEF LoopCommit
    <2>3. LeavesPending(j)
      <3>1. CASE OldBackend(j) = None
        BY <3>1 DEF LeavesPending
      <3>2. CASE OldBackend(j) # None
        <4>1. loop'.pc = "sweep" /\ loop'.job = j /\ loop'.src = OldBackend(j)
          BY <2>1, <2>2, <3>2, CommittedType
        <4>2. OldBackend(j) \in Backend
          BY <2>1, <3>2, CommittedType
        <4>3. <<j[1], OldBackend(j)>> \in Job
          BY <2>1, <4>2, JobPair DEF Job
        <4> QED
          BY <4>1, <4>3 DEF LeavesPending, Pending
      <3> QED
        BY <3>1, <3>2
    <2>4. Pending \subseteq Pending'
      BY <2>2, PendingGrows
    <2>5. RowsChange
      BY <2>1, <2>2, <2>3 DEF RowsChange
    <2> QED
      BY <2>2, <2>4, <2>5
  <1>2. CASE LoopSweep
    <2> DEFINE x == <<loop.job[1], loop.src>>
    <2>1. UNCHANGED <<storeVars, sweeps>> /\ DropObject(x)
      BY <1>2 DEF LoopSweep
    <2>2. \A o \in Pending : o \in Pending' \/ o = x
      BY <2>1 DEF Pending
    <2>3. strayed \subseteq strayed' /\ objects' \subseteq objects
          /\ (x \in strayed' \/ x \notin objects')
      BY <2>1 DEF DropObject
    <2>4. RowsChange
      BY <2>1 DEF RowsChange, storeVars, fileVars, jobVars
    <2> HIDE DEF x
    <2> QED
      BY <2>2, <2>3, <2>4
  <1>3. CASE ~LoopCommit /\ ~LoopSweep
    <2>1. CASE LoopPoll \/ LoopFetch
      <3>1. UNCHANGED <<storeVars, objects, sweeps, strayed>> /\ ~LoopAt("sweep")
        BY <2>1 DEF LoopPoll, LoopFetch
      <3>2. RowsChange
        BY <3>1 DEF RowsChange, storeVars, fileVars, jobVars
      <3> QED
        BY <3>1, <3>2, PendingGrows
    <2>2. CASE LoopUpload
      <3>1. UNCHANGED <<storeVars, sweeps, strayed>> /\ ~LoopAt("sweep")
        BY <2>2 DEF LoopUpload
      <3>2. RowsChange
        BY <3>1 DEF RowsChange, storeVars, fileVars, jobVars
      <3>3. ObjectsFrom
        BY <2>2 DEF LoopUpload, InHand, BaseInv, HandInv
      <3> QED
        BY <3>1, <3>2, <3>3, PendingGrows
    <2>3. CASE LoopStep /\ ~LoopPoll /\ ~LoopFetch /\ ~LoopUpload
      <3>1. UNCHANGED <<objects, sweeps, strayed>> /\ ~LoopAt("sweep")
        BY <1>3, <2>3 DEF LoopStep, LoopEnd, LoopNext, LoopSource, LoopTransferFails,
                          LoopCount, LoopDrop, LoopFail
      <3>2. UNCHANGED <<issued, files, replicas, kind, jobs>>
        BY <1>3, <2>3 DEF LoopStep, LoopEnd, LoopNext, LoopSource, LoopTransferFails,
                    LoopCount, LoopDrop, LoopFail, FailReplicationJob, storeVars, fileVars, jobVars
      <3>3. RowsChange
        BY <3>2 DEF RowsChange
      <3> QED
        BY <3>1, <3>3, PendingGrows
    <2> QED
      BY <2>1, <2>2, <2>3
  <1> QED
    BY <1>1, <1>2, <1>3

LEMMA OtherAccount ==
  ASSUME BaseInv, DoomInv,
         \/ UploadStep \/ (\E d \in Deleter : DeleterStep(d)) \/ ControllerCrash
         \/ AdminStep \/ ClockStep \/ UNCHANGED vars
  PROVE  AccountFacts
  <1> USE DEF AccountFacts, ObjectsFrom, PendingKept, cloudVars, loopVars, sweepVars
  <1>1. CASE UploadStep
    <2>1. PICK t \in Token, b \in Backend, T \in SUBSET Backend, p \in Maybe(Backend) :
            Register(t, b, T, p)
      BY <1>1 DEF UploadStep
    <2>2. /\ UNCHANGED <<loop, sweeps, strayed>>
          /\ AddWithReplicationJobs(t, b, T, p)
          /\ objects' = objects \cup {<<t, b>>}
      BY <2>1 DEF Register
    <2>3. files'[t] = b
      BY <2>2 DEF AddWithReplicationJobs, BaseInv, StoreInv, StoreTypeOK
    <2>4. RowsChange
      BY <2>2 DEF RowsChange
    <2> QED
      BY <2>2, <2>3, <2>4, PendingGrows
  <1>2. ASSUME NEW d \in Deleter, DeleterStep(d) PROVE AccountFacts
    <2>1. UNCHANGED <<loop, sweeps, strayed>> /\ objects' \subseteq objects
      BY <1>2 DEF DeleterStep, DeleteBegin, DeletePrimary, DeleteCopies, DeleteFinish, DeleteFails
    <2>2. RowsChange
      <3>1. CASE DeleteFinish(d)
        BY <3>1 DEF DeleteFinish, DoomInv, RowsChange
      <3>2. CASE UNCHANGED storeVars
        BY <3>2 DEF RowsChange, storeVars, fileVars, jobVars
      <3> QED
        BY <1>2, <3>1, <3>2 DEF DeleterStep, DeleteBegin, DeletePrimary, DeleteCopies, DeleteFails
    <2> QED
      BY <2>1, <2>2, PendingGrows
  <1>3. CASE ControllerCrash
    <2>1. UNCHANGED <<storeVars, objects>> /\ strayed' = strayed \cup Pending
      BY <1>3 DEF ControllerCrash
    <2>2. RowsChange
      BY <2>1 DEF RowsChange, storeVars, fileVars, jobVars
    <2> QED
      BY <2>1, <2>2
  <1>4. ASSUME NEW j \in Job, CancelJob(j) PROVE AccountFacts
    <2>1. /\ CancelReplicationJob(j) /\ strayed' = strayed \cup ({j} \cap jobs)
          /\ sweeps \subseteq sweeps' /\ UNCHANGED <<objects, loop>>
      BY <1>4 DEF CancelJob
    <2>2. RowsChange
      BY <2>1 DEF RowsChange
    <2> QED
      BY <2>1, <2>2, PendingGrows
  <1>5. CASE (AdminStep \/ ClockStep \/ UNCHANGED vars) /\ ~(\E j \in Job : CancelJob(j))
    <2>1. UNCHANGED <<objects, loop, sweeps, strayed>>
      BY <1>5 DEF AdminStep, ReleaseWorker, ToggleWorker, ExtendFile, RetryJobs, TogglePause,
                  ClockStep, Lapse, Silence, RetryTime, FileExpires, vars
    <2>2. UNCHANGED <<issued, files, replicas, kind, jobs>>
      BY <1>5 DEF AdminStep, ReleaseWorker, ReleaseWorkerLease, ToggleWorker, SetWorkerEnabled,
                  ExtendFile, UpdateExpiry, RetryJobs, RetryReplicationJobs, TogglePause,
                  ClockStep, Lapse, LeaseLapse, Silence, WorkerSilent, RetryTime, BackoffOver,
                  FileExpires, Expire, Unclaim, vars, storeVars, fileVars, jobVars
    <2>3. RowsChange
      BY <2>2 DEF RowsChange
    <2> QED
      BY <2>1, <2>3, PendingGrows
  <1> QED
    BY <1>1, <1>2, <1>3, <1>4, <1>5

LEMMA Account == BaseInv /\ DoomInv /\ [Next]_vars => AccountFacts
  BY WorkerAccount, HandlerAccount, LoopAccount, OtherAccount DEF Next

\* A job that leaves the queue is recorded, cancelled or deleted with its file,
\* and what was recorded of it stays so: a file has one promotion at most, and
\* the promotion of another job moves no file this one is a copy of.
LEMMA JobsAccountedStep ==
  ASSUME AccountInv, AccountFacts, ReplicaInv', doomed \subseteq doomed'
  PROVE  JobsAccounted' /\ RowsDoomed'
  <1> USE DEF AccountInv, ReplicaInv, BaseInv, AccountFacts, PendingKept, JobsAccounted,
              RowsDoomed, Row
  <1>1. /\ files \in [Token -> Backend \cup {None}] /\ issued \subseteq Token
        /\ kind \in [Job -> Kinds] /\ KindInv /\ jobs \subseteq Job /\ JobsHaveFiles
    BY DEF StoreInv, StoreTypeOK
  <1>2. CASE UNCHANGED <<issued, files, replicas, kind>> /\ jobs \subseteq jobs'
    BY <1>2
  <1>3. ASSUME NEW j \in Job, CompleteReplicationJob(j) \/ (\E w \in Worker : FinishClaimedJob(w, j))
        PROVE  JobsAccounted' /\ RowsDoomed'
    <2>1. /\ kind[j] \in {"promotion", "replica"}
          /\ issued' = issued /\ kind' = kind /\ jobs' = jobs \ {j}
      BY <1>1, <1>3 DEF CompleteReplicationJob, FinishClaimedJob, Holds, DropJobs, KindInv, Kinds
    <2>2. j = <<j[1], j[2]>> /\ j[1] \in Token /\ j[2] \in Backend /\ j[1] \in issued
      BY <1>1, <2>1, JobPair DEF KindInv
    <2>3. CASE kind[j] = "replica"
      <3>1. files' = files /\ replicas' = replicas \cup {j}
        BY <1>3, <2>3 DEF CompleteReplicationJob, FinishClaimedJob
      <3> QED
        BY <2>1, <3>1
    <2>4. CASE kind[j] = "promotion"
      <3>1. MoveFile(j[1], j[2]) /\ replicas \ {j} \subseteq replicas'
        BY <1>3, <2>4 DEF CompleteReplicationJob, FinishClaimedJob
      <3>2. \A t \in Token : files'[t] = IF t = j[1] /\ Row(t) THEN j[2] ELSE files[t]
        BY <1>1, <2>2, <3>1 DEF MoveFile
      <3>3. RowsDoomed'
        BY <1>1, <2>1, <2>2, <3>2, NoneAssumption
      <3>4. ASSUME NEW k \in Job, kind'[k] # "unused"
            PROVE  k[1] \in doomed' \/ files'[k[1]] = k[2]
                   \/ k \in replicas' \cup jobs' \cup strayed'
        <4>1. CASE k = j
          <5>1. CASE Row(j[1])
            BY <2>2, <3>2, <4>1, <5>1
          <5>2. CASE ~Row(j[1])
            BY <2>2, <4>1, <5>2
          <5> QED
            BY <5>1, <5>2
        <4>2. CASE k # j
          <5>1. k[1] # j[1] /\ k[1] \in Token
            BY <1>1, <2>1, <2>4, <3>4, <4>2, JobPair DEF KindInv
          <5>2. files'[k[1]] = files[k[1]]
            BY <3>2, <5>1
          <5> QED
            BY <2>1, <3>1, <3>4, <4>2, <5>2
        <4> QED
          BY <4>1, <4>2
      <3> QED
        BY <3>3, <3>4
    <2> QED
      BY <2>1, <2>3, <2>4
  <1>4. ASSUME NEW j \in Job, CancelReplicationJob(j), j \in jobs => j \in strayed'
        PROVE  JobsAccounted' /\ RowsDoomed'
    BY <1>4 DEF CancelReplicationJob, DropJobs, fileVars
  <1>5. ASSUME NEW t \in Token, NEW b \in Backend, NEW T \in SUBSET Backend,
               NEW p \in Maybe(Backend), AddWithReplicationJobs(t, b, T, p)
        PROVE  JobsAccounted' /\ RowsDoomed'
    <2>1. /\ issued' = issued \cup {t} /\ t \notin issued /\ replicas' = replicas
          /\ \A s \in Token : files'[s] = IF s = t THEN b ELSE files[s]
          /\ jobs' = jobs \cup ({t} \X T)
      BY <1>1, <1>5 DEF AddWithReplicationJobs
    <2>2. \A k \in Job : kind'[k] = kind[k] \/ k \in {t} \X T
      BY <1>5 DEF AddWithReplicationJobs
    <2>3. RowsDoomed'
      BY <1>1, <2>1, NoneAssumption
    <2>4. ASSUME NEW k \in Job, kind'[k] # "unused"
          PROVE  k[1] \in doomed' \/ files'[k[1]] = k[2]
                 \/ k \in replicas' \cup jobs' \cup strayed'
      <3>1. CASE k \in {t} \X T
        BY <2>1, <3>1
      <3>2. CASE k \notin {t} \X T
        <4>1. kind[k] # "unused" /\ k[1] \in issued
          BY <1>1, <2>2, <2>4, <3>2 DEF KindInv
        <4>2. files'[k[1]] = files[k[1]]
          BY <1>1, <2>1, <4>1
        <4> QED
          BY <2>1, <4>1, <4>2
      <3> QED
        BY <3>1, <3>2
    <2> QED
      BY <2>3, <2>4
  <1>6. ASSUME NEW t \in doomed, DeleteRecord(t) PROVE JobsAccounted' /\ RowsDoomed'
    <2>1. /\ issued' = issued /\ kind' = kind
          /\ jobs' = jobs \ JobsOf(t) /\ replicas' = {r \in replicas : r[1] # t}
          /\ \A s \in Token : s # t => files'[s] = files[s]
      BY <1>1, <1>6 DEF DeleteRecord, DropJobs
    <2>2. RowsDoomed'
      BY <1>1, <2>1
    <2>3. ASSUME NEW k \in Job, kind'[k] # "unused", k[1] # t
          PROVE  k[1] \in doomed' \/ files'[k[1]] = k[2]
                 \/ k \in replicas' \cup jobs' \cup strayed'
      BY <2>1, <2>3, JobPair DEF JobsOf
    <2> QED
      BY <2>2, <2>3
  <1> QED
    BY <1>2, <1>3, <1>4, <1>5, <1>6 DEF RowsChange

\* A primary that a promotion replaces is about to be deleted.
LEMMA MovedPending ==
  ASSUME AccountInv, AccountFacts, NEW o \in Job, files[o[1]] = o[2], o[1] \notin doomed
  PROVE  files'[o[1]] = o[2] \/ o \in Pending'
  <1> USE DEF AccountInv, ReplicaInv, BaseInv, AccountFacts
  <1>1. /\ files \in [Token -> Backend \cup {None}] /\ o = <<o[1], o[2]>>
        /\ o[1] \in Token /\ o[2] \in Backend /\ o[1] \in issued
    BY JobPair, NoneAssumption DEF StoreInv, StoreTypeOK, KindInv, Row
  <1>2. ASSUME NEW j \in Job, LeavesPending(j),
               CompleteReplicationJob(j) \/ (\E w \in Worker : FinishClaimedJob(w, j))
        PROVE  files'[o[1]] = o[2] \/ o \in Pending'
    <2>1. files' = files \/ (kind[j] = "promotion" /\ MoveFile(j[1], j[2]))
      BY <1>2 DEF CompleteReplicationJob, FinishClaimedJob
    <2>2. CASE j[1] = o[1] /\ kind[j] = "promotion"
      <3>1. OldBackend(j) = o[2] /\ OldBackend(j) # None
        BY <1>1, <2>2, NoneAssumption DEF OldBackend
      <3> QED
        BY <1>1, <1>2, <2>2, <3>1 DEF LeavesPending
    <2>3. CASE ~(j[1] = o[1] /\ kind[j] = "promotion")
      BY <1>1, <2>1, <2>3, JobPair DEF MoveFile
    <2> QED
      BY <2>2, <2>3
  <1>3. ASSUME NEW t \in Token, NEW b \in Backend, NEW T \in SUBSET Backend,
               NEW p \in Maybe(Backend), AddWithReplicationJobs(t, b, T, p)
        PROVE  files'[o[1]] = o[2]
    BY <1>1, <1>3 DEF AddWithReplicationJobs
  <1>4. ASSUME NEW t \in doomed, DeleteRecord(t) PROVE files'[o[1]] = o[2]
    BY <1>1, <1>4 DEF DeleteRecord
  <1>5. ASSUME NEW j \in Job, CancelReplicationJob(j) PROVE files'[o[1]] = o[2]
    BY <1>5 DEF CancelReplicationJob, fileVars
  <1> QED
    BY <1>2, <1>3, <1>4, <1>5 DEF RowsChange

\* So every object is accounted for.
LEMMA ObjectsStep ==
  ASSUME AccountInv, AccountFacts, JobsAccounted', ReplicaInv', doomed \subseteq doomed',
         \A j \in Job : j[1] \in issued => kind'[j] = kind[j]
  PROVE  ObjectsAccounted'
  <1> USE DEF AccountInv, ReplicaInv, BaseInv, AccountFacts, PendingKept
  <1>1. SUFFICES ASSUME NEW o \in objects', o[1] \notin doomed', files'[o[1]] # o[2]
                 PROVE  o \in replicas' \cup jobs' \cup Pending' \cup strayed'
    BY DEF ObjectsAccounted
  <1>2. o \in Job
    BY DEF TypeOK
  <1>3. CASE kind'[o] # "unused"
    BY <1>1, <1>2, <1>3 DEF JobsAccounted
  <1>4. CASE kind'[o] = "unused"
    <2>1. kind[o] = "unused" /\ o \notin jobs \cup replicas
      <3>1. CASE o[1] \in issued
        BY <1>2, <1>4, <3>1 DEF StoreInv, KindInv
      <3>2. CASE o[1] \notin issued
        BY <1>2, <3>2 DEF StoreInv, KindInv
      <3> QED
        BY <3>1, <3>2
    <2>2. o \in objects
      BY <1>1, <1>2, <2>1 DEF ObjectsFrom, HandKind
    <2>3. o \in Pending \cup strayed \/ files[o[1]] = o[2]
      BY <1>1, <2>1, <2>2 DEF ObjectsAccounted
    <2>4. CASE o \in Pending \cup strayed
      BY <1>1, <2>4
    <2>5. CASE files[o[1]] = o[2]
      BY <1>1, <1>2, <2>5, MovedPending
    <2> QED
      BY <2>3, <2>4, <2>5
  <1> QED
    BY <1>2, <1>3, <1>4 DEF StoreInv, StoreTypeOK, Kinds

\* Every object of a file that is not being deleted is the primary or a replica
\* of its row, the work of a queued job, a former primary about to be deleted,
\* or known to have stayed: whoever transfers it, and however late.
THEOREM Objects == Spec => []ObjectsAccounted
  <1>1. Init => AccountInv
    BY ReplicaInit DEF Init, StoreInit, AccountInv, JobsAccounted, RowsDoomed, ObjectsAccounted
  <1>2. AccountInv /\ [Next]_vars => AccountInv'
    <2> SUFFICES ASSUME AccountInv, [Next]_vars PROVE AccountInv'
      OBVIOUS
    <2>1. BaseInv /\ DoomInv /\ ReplicaInv' /\ doomed \subseteq doomed'
      BY ReplicaStep, DoomStep DEF AccountInv, ReplicaInv
    <2>2. AccountFacts
      BY <2>1, Account
    <2>3. JobsAccounted' /\ RowsDoomed'
      BY <2>1, <2>2, JobsAccountedStep
    <2>4. \A j \in Job : j[1] \in issued => kind'[j] = kind[j]
      BY <2>1, StepIsStoreStep, KindStable DEF BaseInv
    <2>5. ObjectsAccounted'
      BY <2>1, <2>2, <2>3, <2>4, ObjectsStep
    <2> QED
      BY <2>1, <2>3, <2>5 DEF AccountInv
  <1>3. AccountInv => ObjectsAccounted
    BY DEF AccountInv
  <1> QED
    BY <1>1, <1>2, <1>3, PTL DEF Spec
=============================================================================

-------------------------- MODULE ReplicationProofs --------------------------
(***************************************************************************)
(* Proofs about Replication, for any number of files, backends, workers    *)
(* and concurrent deletions, any set of admin operations and any bound on  *)
(* failures: the types, and that all that is proved of JobStore holds of   *)
(* the composition.                                                        *)
(***************************************************************************)
EXTENDS Replication, JobStoreProofs

\* Whoever is at work on something has it in hand.
HandInv ==
    /\ \A w \in Worker : Working(w) => worker[w].job \in Job
    /\ \A m \in late : m.op # "claim" => m.job \in Job
    /\ loop.pc \in {"source", "upload", "commit", "sweep", "count", "drop", "fail"}
           => loop.job \in Job
    /\ loop.pc = "sweep" => loop.src \in Backend
    /\ \A s \in sweeps : s.step = "object" => s.old \in Backend
    /\ \A d \in Deleter : deleter[d].pc # "idle" => deleter[d].token \in Token

USE BoundsAssumption, PausedAssumption

-----------------------------------------------------------------------------
(* Every step is a step of the tables.                                     *)

LEMMA WorkerStepIsStoreStep ==
  ASSUME TypeOK, HandInv, NEW w \in Worker, WorkerStep(w)
  PROVE  [StoreNext]_storeVars
  <1>1. CASE \E j \in Job : GetJob(w, j)
    BY <1>1 DEF GetJob, StoreNext
  <1>2. CASE GetNothing(w)
    BY <1>2 DEF GetNothing, StoreNext
  <1>3. CASE ReportDone(w) \/ ReportFailure(w)
    BY <1>3 DEF ReportDone, ReportFailure, At, Working, HandInv, StoreNext
  <1>4. CASE Renew(w)
    BY <1>4 DEF Renew, HandInv, StoreNext
  <1>5. CASE UNCHANGED storeVars
    BY <1>5
  <1> QED
    BY <1>1, <1>2, <1>3, <1>4, <1>5
       DEF WorkerStep, AskJob, Download, Upload, TransferFails, ReportRefused, Timeout,
           WorkerCrash, WorkerStart

LEMMA HandlerStepIsStoreStep ==
  ASSUME TypeOK, HandInv, HandlerStep
  PROVE  [StoreNext]_storeVars
  <1>1. ASSUME NEW m \in late, ServeLate(m) PROVE [StoreNext]_storeVars
    <2>1. m.by \in Worker /\ (m.op # "claim" => m.job \in Job)
      BY DEF TypeOK, Request, HandInv
    <2>2. CASE m.op = "claim"
      BY <1>1, <2>1, <2>2 DEF ServeLate, StoreNext
    <2>3. CASE m.op = "complete"
      BY <1>1, <2>1, <2>3 DEF ServeLate, StoreNext
    <2>4. CASE m.op = "fail"
      BY <1>1, <2>1, <2>4 DEF ServeLate, StoreNext
    <2>5. CASE m.op = "renew"
      BY <1>1, <2>1, <2>5 DEF ServeLate, StoreNext
    <2> QED
      BY <2>2, <2>3, <2>4, <2>5 DEF TypeOK, Request
  <1>2. ASSUME NEW m \in late, LoseLate(m) PROVE UNCHANGED storeVars
    BY <1>2 DEF LoseLate
  <1>3. ASSUME NEW s \in sweeps, SweepObject(s) \/ SweepCount(s) \/ SweepDrop(s)
        PROVE  UNCHANGED storeVars
    BY <1>3 DEF SweepObject, SweepCount, SweepDrop
  <1> QED
    BY <1>1, <1>2, <1>3 DEF HandlerStep

LEMMA LoopStepIsStoreStep ==
  ASSUME TypeOK, HandInv, LoopStep
  PROVE  [StoreNext]_storeVars
  <1>1. CASE LoopCommit
    BY <1>1 DEF LoopCommit, LoopAt, HandInv, StoreNext
  <1>2. CASE LoopFail
    BY <1>2 DEF LoopFail, LoopAt, HandInv, StoreNext
  <1>3. CASE UNCHANGED storeVars
    BY <1>3
  <1> QED
    BY <1>1, <1>2, <1>3
       DEF LoopStep, LoopPoll, LoopFetch, LoopEnd, LoopNext, LoopSource, LoopUpload,
           LoopTransferFails, LoopSweep, LoopCount, LoopDrop

LEMMA OtherStepIsStoreStep ==
  ASSUME TypeOK, HandInv,
         \/ UploadStep \/ (\E d \in Deleter : DeleterStep(d)) \/ ControllerCrash
         \/ AdminStep \/ ClockStep \/ UNCHANGED vars
  PROVE  [StoreNext]_storeVars
  <1>1. CASE UploadStep
    BY <1>1 DEF UploadStep, Register, Maybe, StoreNext
  <1>2. ASSUME NEW d \in Deleter, DeleterStep(d) PROVE [StoreNext]_storeVars
    <2>1. CASE DeleteFinish(d)
      BY <2>1 DEF DeleteFinish, HandInv, StoreNext
    <2>2. CASE UNCHANGED storeVars
      BY <2>2
    <2> QED
      BY <1>2, <2>1, <2>2 DEF DeleterStep, DeleteBegin, DeletePrimary, DeleteCopies, DeleteFails
  <1>3. CASE ControllerCrash \/ UNCHANGED vars
    BY <1>3 DEF ControllerCrash, vars
  <1>4. ASSUME NEW w \in Worker, ReleaseWorker(w) \/ ToggleWorker(w) PROVE [StoreNext]_storeVars
    <2>1. (w \in disabled) \in BOOLEAN
      OBVIOUS
    <2> QED
      BY <1>4, <2>1 DEF ReleaseWorker, ToggleWorker, StoreNext
  <1>5. CASE AdminStep
    BY <1>4, <1>5 DEF AdminStep, CancelJob, ExtendFile, RetryJobs, TogglePause, StoreNext
  <1>6. CASE ClockStep
    BY <1>6 DEF ClockStep, Lapse, Silence, RetryTime, FileExpires, StoreNext
  <1> QED
    BY <1>1, <1>2, <1>3, <1>5, <1>6

LEMMA StepIsStoreStep == TypeOK /\ HandInv /\ [Next]_vars => [StoreNext]_storeVars
  BY WorkerStepIsStoreStep, HandlerStepIsStoreStep, LoopStepIsStoreStep, OtherStepIsStoreStep
     DEF Next

-----------------------------------------------------------------------------
(* Types.                                                                  *)

USE DEF Maybe

\* What is left to do after a completion names the job and a backend.
LEMMA CommittedType ==
  ASSUME StoreTypeOK, NEW j \in Job
  PROVE  /\ Committed(j) \in Sweeping
         /\ OldBackend(j) \in Maybe(Backend)
         /\ Committed(j).step = "object" => OldBackend(j) \in Backend
         /\ Committed(j).job = j /\ Committed(j).old = OldBackend(j)
         /\ Committed(j).step = (IF OldBackend(j) = None THEN "count" ELSE "object")
  <1>1. OldBackend(j) \in Maybe(Backend)
    BY JobPair DEF OldBackend, StoreTypeOK
  <1> QED
    BY <1>1 DEF Committed, Sweeping

\* The deletion of a former object keeps the types.
LEMMA DropObjectType ==
  ASSUME TypeOK, NEW o, DropObject(o), o \in Job \/ UNCHANGED strayed
  PROVE  objects' \subseteq Job /\ strayed' \subseteq Job /\ faults' \in 0 .. MaxFaults
BY BoundsAssumption DEF TypeOK, DropObject, Fault

LEMMA WorkerStepType ==
  ASSUME TypeOK, HandInv, StoreTypeOK', NEW w \in Worker, WorkerStep(w)
  PROVE  TypeOK' /\ HandInv'
  <1> USE DEF TypeOK, HandInv, Working, cloudVars, remoteVars, loopVars, sweepVars, deleteVars,
              Fault, At, Go, Rest, IdleWorker, WorkerPC
  <1>1. CASE AskJob(w) \/ GetNothing(w) \/ WorkerStart(w) \/ ReportRefused(w) \/ ReportFailure(w)
    BY <1>1 DEF AskJob, GetNothing, WorkerStart, ReportRefused, ReportFailure
  <1>2. ASSUME NEW j \in Job, GetJob(w, j) PROVE TypeOK' /\ HandInv'
    <2>1. files[j[1]] \in Backend \cup {None}
      BY JobPair DEF StoreTypeOK
    <2> QED
      BY <1>2, <2>1 DEF GetJob
  <1>3. CASE Download(w)
    BY <1>3 DEF Download
  <1>8. CASE Upload(w)
    BY <1>8 DEF Upload
  <1>4. CASE TransferFails(w) \/ WorkerCrash(w)
    BY <1>4, BoundsAssumption DEF TransferFails, WorkerCrash
  <1>5. CASE ReportDone(w)
    <2>1. worker[w].job \in Job
      BY <1>5 DEF ReportDone
    <2> DEFINE c == Committed(worker[w].job)
    <2>2. c \in Sweeping /\ (c.step = "object" => c.old \in Backend)
      BY <2>1, CommittedType
    <2>3. sweeps' = sweeps \cup {c}
      BY <1>5 DEF ReportDone
    <2> HIDE DEF c
    <2>4. sweeps' \subseteq Sweeping /\ \A s \in sweeps' : s.step = "object" => s.old \in Backend
      BY <2>2, <2>3
    <2> QED
      BY <1>5, <2>1, <2>4 DEF ReportDone
  <1>6. CASE Renew(w)
    BY <1>6 DEF Renew
  <1>7. CASE Timeout(w)
    BY <1>7, BoundsAssumption DEF Timeout, GiveUp, Request
  <1> QED
    BY <1>1, <1>2, <1>3, <1>4, <1>5, <1>6, <1>7, <1>8 DEF WorkerStep

LEMMA HandlerStepType ==
  ASSUME TypeOK, HandInv, StoreTypeOK', HandlerStep
  PROVE  TypeOK' /\ HandInv'
  <1> USE DEF TypeOK, HandInv, Working, cloudVars, remoteVars, loopVars, sweepVars, deleteVars, Fault
  <1>1. ASSUME NEW m \in late, ServeLate(m) PROVE TypeOK' /\ HandInv'
    <2>1. sweeps' \subseteq Sweeping /\ \A s \in sweeps' : s.step = "object" => s.old \in Backend
      <3>1. CASE m.op = "complete" /\ Holds(m.by, m.job)
        <4>1. m.job \in Job
          BY <3>1
        <4> DEFINE c == Committed(m.job)
        <4>2. c \in Sweeping /\ (c.step = "object" => c.old \in Backend)
          BY <4>1, CommittedType
        <4>3. sweeps' = sweeps \cup {c}
          BY <1>1, <3>1 DEF ServeLate
        <4> HIDE DEF c
        <4> QED
          BY <4>2, <4>3
      <3>2. CASE ~(m.op = "complete" /\ Holds(m.by, m.job))
        BY <1>1, <3>2 DEF ServeLate
      <3> QED
        BY <3>1, <3>2
    <2> QED
      BY <1>1, <2>1 DEF ServeLate
  <1>2. ASSUME NEW m \in late, LoseLate(m) PROVE TypeOK' /\ HandInv'
    BY <1>2 DEF LoseLate
  <1>3. ASSUME NEW s \in sweeps, SweepObject(s) PROVE TypeOK' /\ HandInv'
    <2> DEFINE n == [s EXCEPT !.step = "count", !.old = None]
    <2>1. <<s.job[1], s.old>> \in Job
      BY <1>3, JobPair DEF SweepObject, Sweeping, Job
    <2>2. n \in Sweeping /\ n.step = "count"
      BY DEF Sweeping
    <2>3. objects' \subseteq Job /\ strayed' \subseteq Job /\ faults' \in 0 .. MaxFaults
      BY <1>3, <2>1, DropObjectType DEF SweepObject
    <2>4. sweeps' = (sweeps \ {s}) \cup {n}
      BY <1>3 DEF SweepObject, Goes
    <2> HIDE DEF n
    <2> QED
      BY <1>3, <2>2, <2>3, <2>4 DEF SweepObject
  <1>4. ASSUME NEW s \in sweeps, SweepCount(s) \/ SweepDrop(s) PROVE TypeOK' /\ HandInv'
    <2> DEFINE n == [s EXCEPT !.step = "drop"]
    <2>1. n \in Sweeping /\ n.step = "drop"
      BY DEF Sweeping
    <2>2. sweeps' \subseteq (sweeps \ {s}) \cup {n}
      BY <1>4 DEF SweepCount, SweepDrop, Goes
    <2> HIDE DEF n
    <2> QED
      BY <1>4, <2>1, <2>2 DEF SweepCount, SweepDrop
  <1> QED
    BY <1>1, <1>2, <1>3, <1>4 DEF HandlerStep

LEMMA LoopStepType ==
  ASSUME TypeOK, HandInv, StoreTypeOK', LoopStep
  PROVE  TypeOK' /\ HandInv'
  <1> USE DEF TypeOK, HandInv, Working, cloudVars, remoteVars, loopVars, sweepVars, deleteVars,
              Fault, LoopAt, LoopGo, IdleLoop, LoopPC
  <1>1. CASE LoopPoll
    <2>1. ActiveTargets \subseteq Backend
      BY TargetsAssumption DEF ActiveTargets, StoreTypeOK
    <2> QED
      BY <1>1, <2>1 DEF LoopPoll
  <1>2. CASE LoopFetch
    <2>1. PICK B \in SUBSET jobs :
            loop' = IF B = {} THEN IdleLoop ELSE [IdleLoop EXCEPT !.pc = "next", !.batch = B]
      BY <1>2 DEF LoopFetch
    <2>2. B \in SUBSET Job
      BY DEF StoreTypeOK
    <2> QED
      BY <1>2, <2>1, <2>2 DEF LoopFetch
  <1>3. ASSUME NEW j \in loop.batch, LoopNext(j) PROVE TypeOK' /\ HandInv'
    <2>1. j \in Job /\ files[j[1]] \in Backend \cup {None}
      BY JobPair DEF StoreTypeOK
    <2> QED
      BY <1>3, <2>1 DEF LoopNext
  <1>4. CASE LoopEnd
    BY <1>4 DEF LoopEnd
  <1>9. CASE LoopFail
    <2>1. loop' = [loop EXCEPT !.pc = "next", !.job = None, !.src = None]
      BY <1>9 DEF LoopFail
    <2>2. loop'.pc = "next" /\ loop' \in [pc : LoopPC, excluded : SUBSET Backend,
             batch : SUBSET Job, job : Maybe(Job), src : Maybe(Backend)]
      BY <2>1
    <2> QED
      BY <1>9, <2>2 DEF LoopFail
  <1>5. CASE LoopSource \/ LoopUpload
    BY <1>5, JobPair DEF LoopSource, LoopUpload
  <1>6. CASE LoopTransferFails
    BY <1>6, BoundsAssumption DEF LoopTransferFails
  <1>7. CASE LoopCommit
    <2> DEFINE c == Committed(loop.job)
    <2>1. loop.job \in Job
      BY <1>7 DEF LoopCommit
    <2>2. c.old \in Maybe(Backend) /\ (c.step = "object" => c.old \in Backend)
      BY <2>1, CommittedType
    <2>3. loop' = [loop EXCEPT !.pc = IF c.step = "object" THEN "sweep" ELSE "count",
                               !.src = c.old]
      BY <1>7 DEF LoopCommit
    <2> HIDE DEF c
    <2> QED
      BY <1>7, <2>1, <2>2, <2>3 DEF LoopCommit
  <1>8. CASE LoopSweep
    <2>1. <<loop.job[1], loop.src>> \in Job
      BY <1>8, JobPair DEF LoopSweep, Job
    <2>2. objects' \subseteq Job /\ strayed' \subseteq Job /\ faults' \in 0 .. MaxFaults
      BY <1>8, <2>1, DropObjectType DEF LoopSweep
    <2>3. loop' = [loop EXCEPT !.pc = "count", !.src = None] /\ loop.pc = "sweep"
      BY <1>8 DEF LoopSweep
    <2> QED
      BY <1>8, <2>2, <2>3 DEF LoopSweep
  <1>10. CASE LoopCount \/ LoopDrop
    BY <1>10 DEF LoopCount, LoopDrop
  <1> QED
    BY <1>1, <1>2, <1>3, <1>4, <1>5, <1>6, <1>7, <1>8, <1>9, <1>10 DEF LoopStep

LEMMA OtherStepType ==
  ASSUME TypeOK, HandInv, StoreTypeOK',
         \/ UploadStep \/ (\E d \in Deleter : DeleterStep(d)) \/ ControllerCrash
         \/ AdminStep \/ ClockStep \/ UNCHANGED vars
  PROVE  TypeOK' /\ HandInv'
  <1> USE DEF TypeOK, HandInv, Working, cloudVars, remoteVars, loopVars, sweepVars, deleteVars, Fault
  <1>1. CASE UploadStep
    BY <1>1 DEF UploadStep, Register, Job
  <1>2. ASSUME NEW d \in Deleter, DeleterStep(d) PROVE TypeOK' /\ HandInv'
    <2> USE DEF IdleDeleter, DeleterPC
    <2>1. ASSUME NEW t \in Token, DeleteBegin(d, t) PROVE TypeOK' /\ HandInv'
      <3>1. files[t] \in Backend \cup {None}
        BY DEF StoreTypeOK
      <3> QED
        BY <2>1, <3>1 DEF DeleteBegin
    <2>2. CASE DeletePrimary(d)
      <3> DEFINE C == {b \in Backend : <<deleter[d].token, b>> \in replicas}
                 r == [pc |-> "copies", token |-> deleter[d].token, src |-> deleter[d].src,
                       copies |-> C]
      <3>1. C \in SUBSET Backend
        OBVIOUS
      <3>2. deleter' = [deleter EXCEPT ![d] = r] /\ deleter[d].pc = "primary"
        BY <2>2 DEF DeletePrimary
      <3>3. deleter[d].token \in Token /\ deleter[d].src \in Maybe(Backend)
        BY <3>2
      <3> HIDE DEF C
      <3>4. r \in [pc : DeleterPC, token : Maybe(Token), src : Maybe(Backend),
                   copies : SUBSET Backend] /\ r.token \in Token
        BY <3>1, <3>3
      <3> HIDE DEF r
      <3> QED
        BY <2>2, <3>2, <3>4 DEF DeletePrimary
    <2>3. CASE DeleteCopies(d)
      BY <2>3 DEF DeleteCopies
    <2>4. CASE DeleteFinish(d)
      BY <2>4 DEF DeleteFinish
    <2>5. CASE DeleteFails(d)
      BY <2>5, BoundsAssumption DEF DeleteFails
    <2> QED
      BY <1>2, <2>1, <2>2, <2>3, <2>4, <2>5 DEF DeleterStep
  <1>3. CASE ControllerCrash
    <2>1. Pending \subseteq Job
      BY JobPair DEF Pending, Sweeping, Job, LoopAt
    <2> QED
     BY <1>3, <2>1, BoundsAssumption
       DEF ControllerCrash, IdleDeleter, DeleterPC, IdleLoop, LoopPC, IdleWorker, WorkerPC, At
  <1>7. ASSUME NEW j \in Job, CancelJob(j) PROVE TypeOK' /\ HandInv'
    <2>1. [job |-> j, old |-> None, step |-> "count"] \in Sweeping
      BY DEF Sweeping
    <2> QED
      BY <1>7, <2>1 DEF CancelJob
  <1>4. CASE AdminStep
    BY <1>4, <1>7 DEF AdminStep, ReleaseWorker, ToggleWorker, ExtendFile, RetryJobs, TogglePause
  <1>5. CASE ClockStep
    BY <1>5, BoundsAssumption DEF ClockStep, Lapse, Silence, RetryTime, FileExpires
  <1>6. CASE UNCHANGED vars
    BY <1>6 DEF vars
  <1> QED
    BY <1>1, <1>2, <1>3, <1>4, <1>5, <1>6

-----------------------------------------------------------------------------
BaseInv == TypeOK /\ StoreInv /\ HandInv

LEMMA InitBase == Init => BaseInv
  <1>1. Init => StoreInv
    BY StoreInitInv DEF Init
  <1>2. Init => TypeOK /\ HandInv
    BY <1>1, BoundsAssumption
       DEF Init, StoreInv, TypeOK, HandInv, Working, IdleWorker, WorkerPC, IdleLoop, LoopPC,
           IdleDeleter, DeleterPC
  <1> QED
    BY <1>1, <1>2 DEF BaseInv

LEMMA StepBase == BaseInv /\ [Next]_vars => BaseInv'
  <1> SUFFICES ASSUME BaseInv, [Next]_vars PROVE BaseInv'
    OBVIOUS
  <1>1. StoreInv'
    BY StepIsStoreStep, StoreStepInv DEF BaseInv
  <1>2. TypeOK' /\ HandInv'
    BY <1>1, WorkerStepType, HandlerStepType, LoopStepType, OtherStepType
       DEF BaseInv, StoreInv, Next
  <1> QED
    BY <1>1, <1>2 DEF BaseInv

LEMMA BaseInvariant == Spec => []BaseInv
  BY InitBase, StepBase, PTL DEF Spec

\* Type correctness of the composition.
THEOREM Types == Spec => []TypeOK
  BY BaseInvariant, PTL DEF BaseInv
=============================================================================

--------------------------- MODULE JobStoreProofs ---------------------------
(***************************************************************************)
(* Proofs about JobStore: whatever its callers do, the types, the queue    *)
(* invariants and the fencing of leases hold, for any number of files,     *)
(* backends and workers.                                                   *)
(*                                                                         *)
(* kind is what makes the argument go through: it remembers which jobs a   *)
(* file was given after their rows are gone, and so excludes that a late   *)
(* completion records a copy where the primary lives or next to a          *)
(* promotion.                                                              *)
(***************************************************************************)
EXTENDS JobStore, TLAPS

KindInv ==
    /\ \A t \in Token : Row(t) => t \in issued
    /\ \A j \in Job : kind[j] # "unused" => j[1] \in issued
    /\ \A j \in jobs : kind[j] # "unused" /\ files[j[1]] # j[2]
    /\ \A r \in replicas : kind[r] = "replica"
    /\ \A j \in Job : kind[j] = "replica" => files[j[1]] # j[2]
    /\ \A j, k \in Job : kind[j] = "promotion" /\ j[1] = k[1] /\ j # k => kind[k] = "unused"

StoreInv == StoreTypeOK /\ JobsHaveFiles /\ LeaseHasHolder /\ KindInv

USE TargetsAssumption, NoneAssumption

-----------------------------------------------------------------------------
\* A job is its token and its target.
LEMMA JobPair ==
  /\ \A j \in Job : j = <<j[1], j[2]>> /\ j[1] \in Token /\ j[2] \in Backend
  /\ \A j, k \in Job : j[1] = k[1] /\ j[2] = k[2] => j = k
  BY DEF Job

\* The tables start out empty and consistent.
LEMMA StoreInitInv == StoreInit => StoreInv
  BY DEF StoreInit, StoreInv, StoreTypeOK, JobsHaveFiles, LeaseHasHolder, KindInv, Kinds, Row, Job

\* Removing job rows, the part most transactions share.
LEMMA DropJobsInv ==
  ASSUME StoreTypeOK, LeaseHasHolder, NEW J \in SUBSET Job, DropJobs(J)
  PROVE  /\ jobs' \subseteq Job /\ kind' \in [Job -> Kinds]
         /\ claimedBy' \in [Job -> Worker \cup {None}]
         /\ leased' \subseteq Job /\ due' \subseteq Job
         /\ LeaseHasHolder'
  BY DEF StoreTypeOK, LeaseHasHolder, DropJobs, Unclaim, Kinds

\* Registering a file with its jobs.
LEMMA AddInv ==
  ASSUME StoreInv, NEW t \in Token, NEW b \in Backend, NEW T \in SUBSET Backend,
         NEW p \in Backend \cup {None}, AddWithReplicationJobs(t, b, T, p)
  PROVE  StoreInv'
  <1> USE DEF AddWithReplicationJobs, ValidTargets, workerVars
  <1>1. StoreTypeOK'
    BY DEF StoreInv, StoreTypeOK, Job, Kinds
  <1>2. JobsHaveFiles'
    BY DEF StoreInv, StoreTypeOK, JobsHaveFiles, Row, Job
  <1>3. LeaseHasHolder'
    BY DEF StoreInv, StoreTypeOK, LeaseHasHolder, Job
  <1>4. KindInv'
    <2>2. \A j \in Job : j[1] = t => kind[j] = "unused"
      BY DEF StoreInv, KindInv
    <2>1. \A j \in Job :
            /\ j[1] = t /\ j[2] \in T => kind'[j] = IF j[2] = p THEN "promotion" ELSE "replica"
            /\ ~(j[1] = t /\ j[2] \in T) => kind'[j] = kind[j]
      BY DEF Job
    <2>3. \A r \in replicas : r[1] # t
      BY <2>2 DEF StoreInv, KindInv, StoreTypeOK
    <2>4. \A s \in Token : files'[s] = IF s = t THEN b ELSE files[s]
      BY DEF StoreInv, StoreTypeOK
    <2>5. \A j \in jobs' : kind'[j] # "unused" /\ files'[j[1]] # j[2]
      <3>1. \A j \in jobs' : (j \in jobs /\ j[1] # t) \/ j \in {t} \X T
        BY <2>2 DEF StoreInv, KindInv, StoreTypeOK
      <3>2. \A j \in {t} \X T : j \in Job /\ j[1] = t /\ j[2] # b
        BY DEF Job
      <3> QED
        BY <2>1, <2>4, <3>1, <3>2 DEF StoreInv, KindInv, StoreTypeOK, Job
    <2>6. \A j \in Job : kind'[j] = "replica" => files'[j[1]] # j[2]
      BY <2>1, <2>2, <2>4 DEF StoreInv, KindInv, Job
    <2>7. \A j, k \in Job : kind'[j] = "promotion" /\ j[1] = k[1] /\ j # k => kind'[k] = "unused"
      <3> SUFFICES ASSUME NEW j \in Job, NEW k \in Job, kind'[j] = "promotion",
                          j[1] = k[1], j # k
                   PROVE  kind'[k] = "unused"
        OBVIOUS
      <3>1. CASE j[1] = t
        <4>1. j[2] = p /\ T = {p}
          BY <2>1, <2>2, <3>1 DEF Job
        <4>2. k[1] = t /\ k[2] \notin T
          BY <4>1, <3>1, JobPair
        <4> QED
          BY <4>2, <2>1, <2>2, <3>1
      <3>2. CASE j[1] # t
        BY <2>1, <3>2 DEF StoreInv, KindInv, Job
      <3> QED
        BY <3>1, <3>2
    <2>8. /\ \A s \in Token : Row(s)' => s \in issued'
          /\ \A j \in Job : kind'[j] # "unused" => j[1] \in issued'
      BY <2>1, <2>4 DEF StoreInv, KindInv, Row, Job
    <2>9. \A r \in replicas' : kind'[r] = "replica"
      BY <2>1, <2>3 DEF StoreInv, KindInv, StoreTypeOK
    <2> QED
      BY <2>5, <2>6, <2>7, <2>8, <2>9 DEF KindInv
  <1> QED
    BY <1>1, <1>2, <1>3, <1>4 DEF StoreInv

\* A result recorded for a job, by either of the two finishers.
LEMMA RecordInv ==
  ASSUME StoreInv, NEW j \in Job, kind[j] # "unused",
         \/ /\ kind[j] = "promotion" /\ MoveFile(j[1], j[2])
            /\ replicas' \subseteq replicas
         \/ kind[j] # "promotion" /\ replicas' = replicas \cup {j} /\ UNCHANGED files,
         DropJobs({j}), UNCHANGED <<issued, unexpired, disabled>>, heard' \subseteq Worker
  PROVE  StoreInv'
  <1>0. j[1] \in Token /\ j[2] \in Backend
    BY JobPair
  <1>1. StoreTypeOK'
    BY <1>0, DropJobsInv DEF StoreInv, StoreTypeOK, MoveFile
  <1>2. \A t \in Token : files'[t] = IF kind[j] = "promotion" /\ t = j[1] /\ Row(t)
                                     THEN j[2] ELSE files[t]
    BY <1>0 DEF StoreInv, StoreTypeOK, MoveFile
  <1>3. \A t \in Token : Row(t)' <=> Row(t)
    BY <1>0, <1>2 DEF Row
  <1>4. jobs' = jobs \ {j} /\ kind' = kind /\ issued' = issued
    BY DEF DropJobs
  <1>5. LeaseHasHolder'
    BY DropJobsInv DEF StoreInv
  <1>6. JobsHaveFiles'
    BY <1>3, <1>4, JobPair DEF StoreInv, StoreTypeOK, JobsHaveFiles
  <1>7. KindInv'
    <2>1. \A k \in jobs' : kind'[k] # "unused" /\ files'[k[1]] # k[2]
      BY <1>2, <1>4, JobPair DEF StoreInv, StoreTypeOK, KindInv
    <2>2. \A k \in Job : kind'[k] = "replica" => files'[k[1]] # k[2]
      BY <1>2, <1>4, JobPair DEF StoreInv, KindInv
    <2>3. \A r \in replicas' : kind'[r] = "replica"
      BY <1>4 DEF StoreInv, StoreTypeOK, KindInv, Kinds
    <2>4. \A t \in Token : Row(t)' => t \in issued'
      BY <1>3, <1>4 DEF StoreInv, KindInv
    <2> QED
      BY <1>4, <2>1, <2>2, <2>3, <2>4 DEF StoreInv, KindInv
  <1> QED
    BY <1>1, <1>5, <1>6, <1>7 DEF StoreInv

\* Removing job rows, and nothing else but last_seen.
LEMMA RemoveJobsInv ==
  ASSUME StoreInv, NEW J \in SUBSET Job, DropJobs(J), UNCHANGED <<fileVars, workerVars>>
  PROVE  StoreInv'
  <1>1. StoreTypeOK' /\ LeaseHasHolder'
    BY DropJobsInv DEF StoreInv, StoreTypeOK, fileVars, workerVars
  <1>2. JobsHaveFiles' /\ KindInv'
    BY DEF StoreInv, JobsHaveFiles, KindInv, Row, DropJobs, fileVars
  <1> QED
    BY <1>1, <1>2 DEF StoreInv

\* Steps that touch neither rows of files nor rows of jobs.
LEMMA ClaimsOnlyInv ==
  ASSUME StoreInv, UNCHANGED <<issued, files, replicas, jobs, kind>>,
         unexpired' \subseteq Token,
         claimedBy' \in [Job -> Worker \cup {None}], leased' \subseteq Job, due' \subseteq Job,
         heard' \subseteq Worker, disabled' \subseteq Worker, LeaseHasHolder'
  PROVE  StoreInv'
  BY DEF StoreInv, StoreTypeOK, JobsHaveFiles, KindInv, Row

\* Deleting a file with its replica rows and its jobs.
LEMMA DeleteRecordInv ==
  ASSUME StoreInv, NEW t \in Token, DeleteRecord(t)
  PROVE  StoreInv'
  <1>1. JobsOf(t) \in SUBSET Job /\ DropJobs(JobsOf(t))
    BY DEF DeleteRecord, JobsOf, StoreInv, StoreTypeOK
  <1>2. StoreTypeOK' /\ LeaseHasHolder'
    BY <1>1, DropJobsInv DEF DeleteRecord, StoreInv, StoreTypeOK, workerVars
  <1>3. \A s \in Token : files'[s] = IF s = t THEN None ELSE files[s]
    BY DEF DeleteRecord, StoreInv, StoreTypeOK
  <1>4. \A j \in jobs' : j \in jobs /\ j[1] # t
    BY <1>1 DEF DropJobs, JobsOf
  <1>5. JobsHaveFiles'
    BY <1>3, <1>4, JobPair DEF StoreInv, StoreTypeOK, JobsHaveFiles, Row
  <1>6. KindInv'
    BY <1>1, <1>3, <1>4, JobPair, NoneAssumption
       DEF StoreInv, StoreTypeOK, KindInv, Row, DropJobs, DeleteRecord
  <1> QED
    BY <1>2, <1>5, <1>6 DEF StoreInv

-----------------------------------------------------------------------------
\* The invariant of the tables is inductive.
LEMMA StoreStepInv == StoreInv /\ [StoreNext]_storeVars => StoreInv'
  <1> SUFFICES ASSUME StoreInv, [StoreNext]_storeVars PROVE StoreInv'
    OBVIOUS
  <1>1. ASSUME NEW t \in Token, NEW b \in Backend, NEW T \in SUBSET Backend,
               NEW p \in Backend \cup {None}, AddWithReplicationJobs(t, b, T, p)
        PROVE  StoreInv'
    BY <1>1, AddInv
  <1>2. ASSUME NEW w \in Worker, NEW j \in Job, ClaimReplicationJob(w, j) PROVE StoreInv'
    <2>1. j \in jobs
      BY <1>2 DEF ClaimReplicationJob, Claimable
    <2> QED
      BY <1>2, <2>1, ClaimsOnlyInv
         DEF ClaimReplicationJob, fileVars, StoreInv, StoreTypeOK, LeaseHasHolder
  <1>3. ASSUME NEW w \in Worker, NEW j \in Job, FinishClaimedJob(w, j) PROVE StoreInv'
    <2>1. kind[j] # "unused"
      BY <1>3 DEF FinishClaimedJob, Holds, StoreInv, KindInv
    <2> QED
      BY <1>3, <2>1, RecordInv DEF FinishClaimedJob, StoreInv, StoreTypeOK
  <1>4. ASSUME NEW w \in Worker, NEW j \in Job, FailClaimedJob(w, j) PROVE StoreInv'
    BY <1>4, ClaimsOnlyInv
       DEF FailClaimedJob, Unclaim, fileVars, StoreInv, StoreTypeOK, LeaseHasHolder
  <1>5. ASSUME NEW w \in Worker, NEW j \in Job, RenewReplicationLease(w, j) PROVE StoreInv'
    BY <1>5, ClaimsOnlyInv
       DEF RenewReplicationLease, fileVars, StoreInv, StoreTypeOK, LeaseHasHolder
  <1>6. ASSUME NEW w \in Worker,
               \/ ClaimNothing(w) \/ WorkerSilent(w)
               \/ SetWorkerEnabled(w, TRUE) \/ SetWorkerEnabled(w, FALSE)
        PROVE  StoreInv'
    BY <1>6, ClaimsOnlyInv
       DEF ClaimNothing, WorkerSilent, SetWorkerEnabled, fileVars, jobVars,
           StoreInv, StoreTypeOK, LeaseHasHolder
  <1>7. ASSUME NEW w \in Worker, ReleaseWorkerLease(w) PROVE StoreInv'
    BY <1>7, ClaimsOnlyInv
       DEF ReleaseWorkerLease, Unclaim, fileVars, workerVars, StoreInv, StoreTypeOK, LeaseHasHolder
  <1>8. ASSUME NEW j \in Job, CancelReplicationJob(j) PROVE StoreInv'
    BY <1>8, RemoveJobsInv DEF CancelReplicationJob
  <1>9. ASSUME NEW j \in Job, CompleteReplicationJob(j) PROVE StoreInv'
    BY <1>9, RecordInv DEF CompleteReplicationJob, workerVars, StoreInv, StoreTypeOK
  <1>10. ASSUME NEW j \in Job, FailReplicationJob(j) \/ LeaseLapse(j) \/ BackoffOver(j)
         PROVE  StoreInv'
    BY <1>10, ClaimsOnlyInv
       DEF FailReplicationJob, LeaseLapse, BackoffOver, fileVars, workerVars,
           StoreInv, StoreTypeOK, LeaseHasHolder
  <1>11. ASSUME NEW t \in Token, DeleteRecord(t) PROVE StoreInv'
    BY <1>11, DeleteRecordInv
  <1>12. ASSUME NEW t \in Token, UpdateExpiry(t) \/ Expire(t) PROVE StoreInv'
    BY <1>12, ClaimsOnlyInv
       DEF UpdateExpiry, Expire, jobVars, workerVars, StoreInv, StoreTypeOK, LeaseHasHolder
  <1>13. CASE RetryReplicationJobs
    BY <1>13, ClaimsOnlyInv
       DEF RetryReplicationJobs, fileVars, workerVars, StoreInv, StoreTypeOK, LeaseHasHolder
  <1>14. CASE UNCHANGED storeVars
    BY <1>14, ClaimsOnlyInv
       DEF storeVars, fileVars, jobVars, workerVars, StoreInv, StoreTypeOK, LeaseHasHolder
  <1> QED
    BY <1>1, <1>2, <1>3, <1>4, <1>5, <1>6, <1>7, <1>8, <1>9, <1>10, <1>11, <1>12, <1>13, <1>14
       DEF StoreNext

\* The inductive invariant of the tables.
THEOREM StoreInvariant == StoreSpec => []StoreInv
  <1>1. StoreInit => StoreInv
    BY StoreInitInv
  <1>2. StoreInv /\ [StoreNext]_storeVars => StoreInv'
    BY StoreStepInv
  <1> QED
    BY <1>1, <1>2, PTL DEF StoreSpec

-----------------------------------------------------------------------------
\* The columns keep their types under every transaction.
THEOREM StoreTypes == StoreSpec => []StoreTypeOK
  BY StoreInvariant, PTL DEF StoreInv

\* No job outlives its file, although the declared cascade is not in force:
\* add_with_replication_jobs and delete_record keep the two tables together.
THEOREM QueueFollowsFiles == StoreSpec => []JobsHaveFiles
  BY StoreInvariant, PTL DEF StoreInv

\* claimed_by and lease_until never disagree.
THEOREM LeasesAreHeld == StoreSpec => []LeaseHasHolder
  BY StoreInvariant, PTL DEF StoreInv

\* No replica, present or queued, is on the backend of its primary.
THEOREM CopiesApart == StoreSpec => []CopiesOnDistinctBackends
  <1>1. StoreInv => CopiesOnDistinctBackends
    BY DEF StoreInv, StoreTypeOK, KindInv, CopiesOnDistinctBackends
  <1> QED
    BY <1>1, StoreInvariant, PTL

\* A promotion has its file to itself, whatever was recorded late.
THEOREM PromotionAlone == StoreSpec => []PromotionStandsAlone
  <1>1. StoreInv => PromotionStandsAlone
    <2> SUFFICES ASSUME StoreInv, NEW j \in jobs, kind[j] = "promotion"
                 PROVE  JobsOf(j[1]) = {j} /\ \A r \in replicas : r[1] # j[1]
      BY DEF PromotionStandsAlone
    <2>1. \A k \in Job : k[1] = j[1] /\ k # j => kind[k] = "unused"
      BY DEF StoreInv, StoreTypeOK, KindInv
    <2>2. JobsOf(j[1]) = {j}
      BY <2>1 DEF JobsOf, StoreInv, StoreTypeOK, KindInv
    <2>3. \A r \in replicas : r[1] # j[1]
      BY <2>1 DEF StoreInv, StoreTypeOK, KindInv
    <2> QED
      BY <2>2, <2>3
  <1> QED
    BY <1>1, StoreInvariant, PTL

-----------------------------------------------------------------------------
MovesOnce ==
    \A t \in Token : Row(t) /\ files'[t] \notin {files[t], None} =>
        kind[<<t, files'[t]>>] = "promotion" /\ kind[<<t, files[t]>>] = "unused"

\* No transaction moves a primary but to the target of its own promotion.
LEMMA MovesOnceStep == StoreInv /\ [StoreNext]_storeVars => MovesOnce
  <1> SUFFICES ASSUME StoreInv, [StoreNext]_storeVars,
                      NEW t \in Token, Row(t), files'[t] \notin {files[t], None}
               PROVE  kind[<<t, files'[t]>>] = "promotion" /\ kind[<<t, files[t]>>] = "unused"
    BY DEF MovesOnce
  <1>1. \E j \in Job : kind[j] = "promotion" /\ MoveFile(j[1], j[2])
    <2>1. files' # files
      OBVIOUS
    <2>2. ASSUME NEW s \in Token, NEW b \in Backend, NEW T \in SUBSET Backend,
                 NEW p \in Backend \cup {None}, AddWithReplicationJobs(s, b, T, p)
          PROVE  FALSE
      <3>1. s # t
        BY <2>2 DEF AddWithReplicationJobs, StoreInv, KindInv
      <3> QED
        BY <2>2, <3>1 DEF AddWithReplicationJobs, StoreInv, StoreTypeOK
    <2>3. ASSUME NEW s \in Token, DeleteRecord(s) PROVE FALSE
      BY <2>3 DEF DeleteRecord, StoreInv, StoreTypeOK
    <2>4. ASSUME NEW j \in Job, \/ \E w \in Worker : FinishClaimedJob(w, j)
                                \/ CompleteReplicationJob(j)
          PROVE  kind[j] = "promotion" /\ MoveFile(j[1], j[2])
      BY <2>1, <2>4 DEF FinishClaimedJob, CompleteReplicationJob
    <2>5. ASSUME NEW w \in Worker, NEW j \in Job,
                 \/ ClaimReplicationJob(w, j) \/ FailClaimedJob(w, j)
                 \/ RenewReplicationLease(w, j)
          PROVE  FALSE
      BY <2>1, <2>5 DEF ClaimReplicationJob, FailClaimedJob, RenewReplicationLease, fileVars
    <2>6. ASSUME NEW w \in Worker,
                 \/ ClaimNothing(w) \/ ReleaseWorkerLease(w) \/ WorkerSilent(w)
                 \/ SetWorkerEnabled(w, TRUE) \/ SetWorkerEnabled(w, FALSE)
          PROVE  FALSE
      BY <2>1, <2>6
         DEF ClaimNothing, ReleaseWorkerLease, WorkerSilent, SetWorkerEnabled, fileVars
    <2>7. ASSUME NEW j \in Job, \/ CancelReplicationJob(j) \/ FailReplicationJob(j)
                                \/ LeaseLapse(j) \/ BackoffOver(j)
          PROVE  FALSE
      BY <2>1, <2>7
         DEF CancelReplicationJob, FailReplicationJob, LeaseLapse, BackoffOver, fileVars
    <2>8. ASSUME \/ \E s \in Token : UpdateExpiry(s) \/ Expire(s)
                 \/ RetryReplicationJobs \/ UNCHANGED storeVars
          PROVE  FALSE
      BY <2>1, <2>8 DEF UpdateExpiry, Expire, RetryReplicationJobs, storeVars, fileVars
    <2> QED
      BY <2>2, <2>3, <2>4, <2>5, <2>6, <2>7, <2>8, Zenon DEF StoreNext
  <1>2. PICK j \in Job : kind[j] = "promotion" /\ MoveFile(j[1], j[2])
    BY <1>1
  <1>3. j = <<t, files'[t]>>
    BY <1>2, JobPair DEF MoveFile, StoreInv, StoreTypeOK, Row
  <1>4. files[t] \in Backend /\ <<t, files[t]>> \in Job /\ <<t, files[t]>> # j
    BY <1>3, JobPair DEF StoreInv, StoreTypeOK, Row, Job
  <1> QED
    BY <1>2, <1>3, <1>4 DEF StoreInv, KindInv

\* A link's primary is moved by its promotion only, and only once.
THEOREM PrimaryMoves == StoreSpec => PrimaryMovesOnce
  <1>1. StoreInv /\ [StoreNext]_storeVars =>
          [\A t \in Token : Row(t) /\ files'[t] \notin {files[t], None} =>
               /\ kind[<<t, files'[t]>>] = "promotion"
               /\ kind[<<t, files[t]>>] = "unused"]_storeVars
    BY MovesOnceStep DEF MovesOnce
  <1> QED
    BY <1>1, StoreInvariant, PTL DEF StoreSpec, PrimaryMovesOnce
=============================================================================

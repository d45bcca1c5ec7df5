-------------------------- MODULE OperationsProofs --------------------------
(***************************************************************************)
(* What the backups and the alerts promise, for any number of requests to  *)
(* the panel, names, copies kept, backends, errors and restarts.           *)
(***************************************************************************)
EXTENDS MCOperations, FiniteSetTheorems, TLAPS

TaskState == [pc : PC, at : 0 .. MaxTime, old : SUBSET Stamp, good : BOOLEAN]

\* Task t comes to be at this place, with this name and these books; the
\* others stay.
Becomes(t, pc, at, old, good) ==
    /\ task' \in [Task -> TaskState]
    /\ \A u \in Task \ {t} : task'[u] = task[u]
    /\ task'[t].pc = pc /\ task'[t].at = at
    /\ task'[t].old = old /\ task'[t].good = good

\* What a task is at, and what it holds.
LEMMA Now ==
    ASSUME BackupsTypeOK, NEW t \in Task
    PROVE  /\ task \in [Task -> TaskState]
           /\ task[t] \in TaskState
           /\ task[t].pc \in PC /\ task[t].at \in 0 .. MaxTime
           /\ task[t].old \in SUBSET Stamp /\ task[t].good \in BOOLEAN
BY DEF BackupsTypeOK, TaskState

\* A task that is given a new state is in it; the others stay.
LEMMA Becoming ==
    ASSUME BackupsTypeOK, NEW t \in Task, NEW r \in TaskState, task' = [task EXCEPT ![t] = r]
    PROVE  Becomes(t, r.pc, r.at, r.old, r.good)
<1>1. task \in [Task -> TaskState]
    BY DEF BackupsTypeOK, TaskState
<1>2. task' \in [Task -> TaskState] /\ task'[t] = r /\ \A u \in Task \ {t} : task'[u] = task[u]
    BY <1>1
<1> QED BY <1>2 DEF Becomes

\* Goto changes the place and nothing else.
LEMMA Goes ==
    ASSUME BackupsTypeOK, NEW t \in Task, NEW pc \in PC, Goto(t, pc)
    PROVE  Becomes(t, pc, task[t].at, task[t].old, task[t].good)
<1> DEFINE r == [task[t] EXCEPT !.pc = pc]
<1>1. task' = [task EXCEPT ![t] = r]
    BY DEF Goto, BackupsTypeOK
<1>2. /\ r \in TaskState
      /\ r.pc = pc /\ r.at = task[t].at /\ r.old = task[t].old /\ r.good = task[t].good
    BY Now DEF TaskState
<1> QED BY <1>1, <1>2, Becoming

\* End forgets all but the name.
LEMMA Ends ==
    ASSUME BackupsTypeOK, NEW t \in Task, End(t)
    PROVE  Becomes(t, "idle", task[t].at, {}, FALSE)
<1> DEFINE r == [Idle EXCEPT !.at = task[t].at]
<1>1. task' = [task EXCEPT ![t] = r]
    BY DEF End
<1>2. /\ r \in TaskState
      /\ r.pc = "idle" /\ r.at = task[t].at /\ r.old = {} /\ r.good = FALSE
    BY Now DEF TaskState, Idle, PC
<1> QED BY <1>1, <1>2, Becoming

\* Begins gives a later name.
LEMMA Starts ==
    ASSUME BackupsTypeOK, NEW t \in Task, NEW s, NEW pc \in PC, Begins(t, s, pc)
    PROVE  /\ Becomes(t, pc, s, task[t].old, task[t].good)
           /\ s \in Stamp /\ s > task[t].at /\ now' = s
<1> DEFINE r == [task[t] EXCEPT !.pc = pc, !.at = s]
<1>0. s \in Stamp /\ s > task[t].at /\ now' = s
    BY DEF Begins
<1>1. task' = [task EXCEPT ![t] = r]
    BY DEF Begins, BackupsTypeOK
<1>2. s \in 0 .. MaxTime
    BY <1>0, TimeAssumption DEF Stamp
<1>3. /\ r \in TaskState
      /\ r.pc = pc /\ r.at = s /\ r.old = task[t].old /\ r.good = task[t].good
    BY <1>2, Now DEF TaskState
<1> QED BY <1>0, <1>1, <1>3, Becoming

\* A list of names is taken along.
LEMMA Lists ==
    ASSUME BackupsTypeOK, NEW t \in Task, NEW pc \in PC, NEW S \in SUBSET Stamp,
           task' = [task EXCEPT ![t].pc = pc, ![t].old = S]
    PROVE  Becomes(t, pc, task[t].at, S, task[t].good)
<1> DEFINE r == [task[t] EXCEPT !.pc = pc, !.old = S]
<1>1. task' = [task EXCEPT ![t] = r]
    BY DEF BackupsTypeOK
<1>2. /\ r \in TaskState
      /\ r.pc = pc /\ r.at = task[t].at /\ r.old = S /\ r.good = task[t].good
    BY Now DEF TaskState
<1> QED BY <1>1, <1>2, Becoming

-----------------------------------------------------------------------------
\* What each step of a local backup makes of its task.
LEMMA LocalTask ==
    ASSUME BackupsTypeOK, NEW t \in Task
    PROVE  /\ \A s \in Stamp : LocalBegin(t, s) =>
                  Becomes(t, "copy", s, task[t].old, task[t].good) /\ s > task[t].at
           /\ LocalDone(t) => Becomes(t, "glob", task[t].at, task[t].old, task[t].good)
           /\ LocalFails(t) \/ Trimmed(t) => Becomes(t, "idle", task[t].at, {}, FALSE)
           /\ Glob(t) => Becomes(t, "trim", task[t].at,
                                 Stale(local[KindOf(t)], Keep[KindOf(t)]), task[t].good)
           /\ \A s \in Stamp : Trim(t, s) =>
                  Becomes(t, "trim", task[t].at, task[t].old \ {s}, task[t].good)
<1> USE DEF PC
<1>1. ASSUME NEW s \in Stamp, LocalBegin(t, s)
      PROVE  Becomes(t, "copy", s, task[t].old, task[t].good) /\ s > task[t].at
    BY <1>1, Starts DEF LocalBegin
<1>2. LocalDone(t) => Becomes(t, "glob", task[t].at, task[t].old, task[t].good)
    BY Goes DEF LocalDone
<1>3. LocalFails(t) \/ Trimmed(t) => Becomes(t, "idle", task[t].at, {}, FALSE)
    BY Ends DEF LocalFails, Trimmed
<1>4. ASSUME Glob(t)
      PROVE  Becomes(t, "trim", task[t].at, Stale(local[KindOf(t)], Keep[KindOf(t)]), task[t].good)
    <2> DEFINE S == Stale(local[KindOf(t)], Keep[KindOf(t)])
    <2>1. S \in SUBSET Stamp
        BY DEF Stale, BackupsTypeOK, KindOf, Kind
    <2>2. task' = [task EXCEPT ![t].pc = "trim", ![t].old = S]
        BY <1>4 DEF Glob
    <2> HIDE DEF S
    <2>3. Becomes(t, "trim", task[t].at, S, task[t].good)
        BY <2>1, <2>2, Lists
    <2> QED BY <2>3 DEF S
<1>5. ASSUME NEW s \in Stamp, Trim(t, s)
      PROVE  Becomes(t, "trim", task[t].at, task[t].old \ {s}, task[t].good)
    <2> DEFINE r == [task[t] EXCEPT !.old = @ \ {s}]
    <2>1. task' = [task EXCEPT ![t] = r]
        BY <1>5 DEF Trim, BackupsTypeOK
    <2>2. /\ r \in TaskState
          /\ r.pc = "trim" /\ r.at = task[t].at /\ r.old = task[t].old \ {s}
          /\ r.good = task[t].good
        BY <1>5, Now DEF TaskState, Trim, At
    <2> QED BY <2>1, <2>2, Becoming
<1> QED BY <1>1, <1>2, <1>3, <1>4, <1>5

\* The steps that end an offsite backup.
Over(t) == SnapshotFails(t) \/ UnlinkArchive(t) \/ UnlinkFails(t)

\* What each step of an offsite backup makes of its task.
LEMMA OffsiteTask ==
    ASSUME BackupsTypeOK, NEW t \in Task
    PROVE  /\ \A s \in Stamp : OffsiteBegin(t, s) =>
                  Becomes(t, "snapshot", s, task[t].old, task[t].good) /\ s >= task[t].at
                  /\ now' \in 0 .. MaxTime
           /\ SnapshotDone(t) => Becomes(t, "tar", task[t].at, task[t].old, task[t].good)
           /\ Over(t) => Becomes(t, "idle", task[t].at, {}, FALSE)
           /\ TarBegin(t) => \E pc \in {"tarring", "failed"} :
                  Becomes(t, pc, task[t].at, task[t].old, task[t].good)
           /\ TarEnd(t) =>
                  Becomes(t, IF archive[task[t].at] = "none" THEN "failed" ELSE "upload",
                          task[t].at, task[t].old, task[t].good)
           /\ Upload(t) =>
                  Becomes(t, IF archive[task[t].at] = "none" THEN "failed" ELSE "list",
                          task[t].at, task[t].old, task[t].good)
           /\ OffsiteFails(t) => Becomes(t, "failed", task[t].at, task[t].old, task[t].good)
           /\ ReportOk(t) \/ ReportError(t) =>
                  Becomes(t, "unlink", task[t].at, task[t].old, task[t].good)
           /\ UnlinkSnapshot(t) => Becomes(t, "erase", task[t].at, task[t].old, task[t].good)
           /\ Prune(t) => Becomes(t, "ok", task[t].at, {}, task[t].good)
           /\ ListObjects(t) =>
                  Becomes(t, "prune", task[t].at,
                          {s \in Objects : Cardinality({r \in Objects : modified[r] > modified[s]})
                                               >= Keep["offsite"]},
                          task[t].good)
<1> USE DEF PC
<1>1. ASSUME NEW s \in Stamp, OffsiteBegin(t, s)
      PROVE  /\ Becomes(t, "snapshot", s, task[t].old, task[t].good) /\ s >= task[t].at
             /\ now' \in 0 .. MaxTime
    <2>0. s \in 0 .. MaxTime /\ s \in Nat /\ task[t].at \in Nat
        BY TimeAssumption, Now DEF Stamp
    <2>1. CASE Begins(t, s, "snapshot")
        BY <2>0, <2>1, Starts
    <2>2. CASE s = task[t].at /\ s = now /\ Goto(t, "snapshot") /\ UNCHANGED now
        <3>1. Becomes(t, "snapshot", task[t].at, task[t].old, task[t].good)
            BY <2>2, Goes
        <3>2. now' = s
            BY <2>2
        <3> QED BY <2>0, <2>2, <3>1, <3>2
    <2> QED BY <1>1, <2>1, <2>2 DEF OffsiteBegin
<1>2. SnapshotDone(t) => Becomes(t, "tar", task[t].at, task[t].old, task[t].good)
    BY Goes DEF SnapshotDone
<1>3. Over(t) => Becomes(t, "idle", task[t].at, {}, FALSE)
    BY Ends DEF Over, SnapshotFails, UnlinkArchive, UnlinkFails
<1>4. TarBegin(t) => \E pc \in {"tarring", "failed"} :
                  Becomes(t, pc, task[t].at, task[t].old, task[t].good)
    BY Goes DEF TarBegin
<1>5. TarEnd(t) => Becomes(t, IF archive[task[t].at] = "none" THEN "failed" ELSE "upload",
                           task[t].at, task[t].old, task[t].good)
    BY Goes DEF TarEnd
<1>6. Upload(t) => Becomes(t, IF archive[task[t].at] = "none" THEN "failed" ELSE "list",
                           task[t].at, task[t].old, task[t].good)
    BY Goes DEF Upload
<1>7. OffsiteFails(t) => Becomes(t, "failed", task[t].at, task[t].old, task[t].good)
    BY Goes DEF OffsiteFails
<1>8. ReportOk(t) \/ ReportError(t) =>
          Becomes(t, "unlink", task[t].at, task[t].old, task[t].good)
    BY Goes DEF ReportOk, ReportError
<1>9. Prune(t) => Becomes(t, "ok", task[t].at, {}, task[t].good)
    BY Lists, {} \in SUBSET Stamp DEF Prune
<1>10. ASSUME ListObjects(t)
       PROVE  Becomes(t, "prune", task[t].at,
                      {s \in Objects : Cardinality({r \in Objects : modified[r] > modified[s]})
                                           >= Keep["offsite"]},
                      task[t].good)
    <2> DEFINE S == {s \in Objects : Cardinality({r \in Objects : modified[r] > modified[s]})
                                         >= Keep["offsite"]}
    <2>1. S \in SUBSET Stamp
        BY DEF Objects
    <2>2. task' = [task EXCEPT ![t].pc = "prune", ![t].old = S]
        BY <1>10 DEF ListObjects
    <2> HIDE DEF S
    <2>3. Becomes(t, "prune", task[t].at, S, task[t].good)
        BY <2>1, <2>2, Lists
    <2> QED BY <2>3 DEF S
<1>11. UnlinkSnapshot(t) => Becomes(t, "erase", task[t].at, task[t].old, task[t].good)
    BY Goes DEF UnlinkSnapshot
<1> QED BY <1>1, <1>2, <1>3, <1>4, <1>5, <1>6, <1>7, <1>8, <1>9, <1>10, <1>11

\* What each step of a restore test makes of its task.
LEMMA VerifyTask ==
    ASSUME BackupsTypeOK, NEW t \in Task
    PROVE  /\ VerifyBegin(t) => Becomes(t, "latest", task[t].at, task[t].old, task[t].good)
           /\ Latest(t) => \/ Becomes(t, "idle", task[t].at, {}, FALSE)
                           \/ \E s \in Objects : Becomes(t, "fetch", task[t].at, {s}, task[t].good)
           /\ Fetch(t) => \/ Becomes(t, "idle", task[t].at, {}, FALSE)
                          \/ \E good \in BOOLEAN : Becomes(t, "check", task[t].at, task[t].old, good)
           /\ VerifyFails(t) \/ Check(t) => Becomes(t, "idle", task[t].at, {}, FALSE)
<1> USE DEF PC
<1>1. VerifyBegin(t) => Becomes(t, "latest", task[t].at, task[t].old, task[t].good)
    BY Goes DEF VerifyBegin
<1>2. ASSUME Latest(t)
      PROVE  \/ Becomes(t, "idle", task[t].at, {}, FALSE)
             \/ \E s \in Objects : Becomes(t, "fetch", task[t].at, {s}, task[t].good)
    <2>1. CASE End(t)
        BY <2>1, Ends
    <2>2. ASSUME NEW s \in Objects, task' = [task EXCEPT ![t].pc = "fetch", ![t].old = {s}]
          PROVE  Becomes(t, "fetch", task[t].at, {s}, task[t].good)
        <3>1. {s} \in SUBSET Stamp
            BY DEF Objects
        <3> QED BY <2>2, <3>1, Lists
    <2> QED BY <1>2, <2>1, <2>2 DEF Latest
<1>3. ASSUME Fetch(t)
      PROVE  \/ Becomes(t, "idle", task[t].at, {}, FALSE)
             \/ \E good \in BOOLEAN : Becomes(t, "check", task[t].at, task[t].old, good)
    <2>1. CASE End(t)
        BY <2>1, Ends
    <2>2. ASSUME NEW good \in BOOLEAN, task' = [task EXCEPT ![t].pc = "check", ![t].good = good]
          PROVE  Becomes(t, "check", task[t].at, task[t].old, good)
        <3> DEFINE r == [task[t] EXCEPT !.pc = "check", !.good = good]
        <3>1. task' = [task EXCEPT ![t] = r]
            BY <2>2 DEF BackupsTypeOK
        <3>2. /\ r \in TaskState
              /\ r.pc = "check" /\ r.at = task[t].at /\ r.old = task[t].old /\ r.good = good
            BY Now DEF TaskState
        <3> QED BY <3>1, <3>2, Becoming
    <2>3. \/ End(t)
          \/ \E s \in Objects : task' = [task EXCEPT ![t].pc = "check", ![t].good = (bucket[s] = "whole")]
        BY <1>3 DEF Fetch
    <2> QED BY <2>1, <2>2, <2>3
<1>4. VerifyFails(t) \/ Check(t) => Becomes(t, "idle", task[t].at, {}, FALSE)
    BY Ends DEF VerifyFails, Check
<1> QED BY <1>1, <1>2, <1>3, <1>4

-----------------------------------------------------------------------------
(* Types.                                                                  *)

\* An offsite backup has a name.
Named == \A t \in Task : AtOffsite(t) => task[t].at \in Stamp

\* A task that goes on, or ends, keeps its name.
LEMMA NamedKept ==
    ASSUME BackupsTypeOK, Named, NEW t \in Task, NEW pc, NEW at, NEW old, NEW good,
           Becomes(t, pc, at, old, good),
           at \in Stamp \/ (at = task[t].at /\ AtOffsite(t)) \/ ~AtOffsite(t)'
    PROVE  Named'
BY DEF Named, Becomes, AtOffsite

\* Errors are bounded.
LEMMA Counted == BackupsTypeOK => /\ errors \in 0 .. MaxErrors
                                  /\ Error => errors' \in 0 .. MaxErrors
BY TimeAssumption DEF BackupsTypeOK, Error

\* Local backups keep the types.
LEMMA LocalTypes ==
    ASSUME BackupsTypeOK, Named, NEW t \in Task,
           \/ \E s \in Stamp : LocalBegin(t, s) \/ Trim(t, s)
           \/ LocalDone(t) \/ LocalFails(t) \/ Glob(t) \/ Trimmed(t)
    PROVE  BackupsTypeOK' /\ Named'
<1> USE DEF Becomes, files, reports, objects, record
<1>k. KindOf(t) \in Kind
    BY DEF KindOf, Kind
<1>1. ASSUME NEW s \in Stamp, LocalBegin(t, s) PROVE BackupsTypeOK' /\ Named'
    <2>1. Becomes(t, "copy", s, task[t].old, task[t].good)
        BY <1>1, LocalTask
    <2>2. now' \in 0 .. MaxTime
        BY <1>1, TimeAssumption DEF LocalBegin, Begins, Stamp
    <2>3. /\ local' \in [Kind -> SUBSET Stamp] /\ begun' \in [Kind -> SUBSET Stamp]
        BY <1>1, <1>k DEF LocalBegin, BackupsTypeOK
    <2>4. Named'
        BY <2>1, NamedKept
    <2> QED BY <1>1, <2>1, <2>2, <2>3, <2>4 DEF LocalBegin, BackupsTypeOK, TaskState
<1>2. CASE LocalDone(t)
    <2>1. Becomes(t, "glob", task[t].at, task[t].old, task[t].good)
        BY <1>2, LocalTask
    <2>2. /\ whole' \in [Kind -> SUBSET Stamp]
          /\ newest' \in [Kind -> 0 .. MaxTime]
        BY <1>2, <1>k, Now DEF LocalDone, BackupsTypeOK
    <2>3. Named'
        BY <2>1, NamedKept DEF AtOffsite
    <2> QED BY <1>2, <2>1, <2>2, <2>3 DEF LocalDone, BackupsTypeOK, TaskState
<1>3. CASE LocalFails(t) \/ Trimmed(t)
    <2>1. Becomes(t, "idle", task[t].at, {}, FALSE)
        BY <1>3, LocalTask
    <2>2. errors' \in 0 .. MaxErrors
        BY <1>3, Counted DEF LocalFails, Trimmed
    <2>3. Named'
        BY <2>1, NamedKept DEF AtOffsite
    <2> QED BY <1>3, <2>1, <2>2, <2>3 DEF LocalFails, Trimmed, BackupsTypeOK, TaskState
<1>4. CASE Glob(t)
    <2>1. \E old : Becomes(t, "trim", task[t].at, old, task[t].good)
        BY <1>4, LocalTask
    <2>2. Named'
        BY <2>1, NamedKept DEF AtOffsite
    <2> QED BY <1>4, <2>1, <2>2 DEF Glob, BackupsTypeOK, TaskState
<1>5. ASSUME NEW s \in Stamp, Trim(t, s) PROVE BackupsTypeOK' /\ Named'
    <2>1. Becomes(t, "trim", task[t].at, task[t].old \ {s}, task[t].good)
        BY <1>5, LocalTask
    <2>2. /\ local' \in [Kind -> SUBSET Stamp] /\ whole' \in [Kind -> SUBSET Stamp]
        BY <1>5, <1>k DEF Trim, BackupsTypeOK
    <2>3. Named'
        BY <2>1, NamedKept DEF AtOffsite
    <2> QED BY <1>5, <2>1, <2>2, <2>3 DEF Trim, BackupsTypeOK, TaskState
<1> QED BY <1>1, <1>2, <1>3, <1>4, <1>5

\* The steps of an offsite backup that does not end.
Onward(t) == \/ SnapshotDone(t) \/ TarBegin(t) \/ TarEnd(t) \/ Upload(t) \/ OffsiteFails(t)
             \/ ListObjects(t) \/ Prune(t) \/ ReportOk(t) \/ ReportError(t)
             \/ UnlinkSnapshot(t)

\* The task keeps its name and is still at an offsite backup.
LEMMA OnwardTask ==
    ASSUME BackupsTypeOK, NEW t \in Task, Onward(t)
    PROVE  /\ AtOffsite(t)
           /\ \E pc, old, good :
                  /\ Becomes(t, pc, task[t].at, old, good)
                  /\ pc \in {"tar", "tarring", "upload", "list", "prune", "ok", "failed",
                             "unlink", "erase"}
<1>1. AtOffsite(t)
    BY DEF Onward, SnapshotDone, TarBegin, TarEnd, Upload, OffsiteFails, ListObjects, Prune,
           ReportOk, ReportError, UnlinkSnapshot, At, AtOffsite
<1>2. CASE \/ SnapshotDone(t) \/ TarBegin(t) \/ OffsiteFails(t)
           \/ ReportOk(t) \/ ReportError(t) \/ UnlinkSnapshot(t)
    BY <1>1, <1>2, OffsiteTask
<1>3. CASE TarEnd(t) \/ Upload(t)
    BY <1>1, <1>3, OffsiteTask
<1>4. CASE ListObjects(t) \/ Prune(t)
    BY <1>1, <1>4, OffsiteTask
<1> QED BY <1>2, <1>3, <1>4 DEF Onward

\* An arrival keeps the types of the bucket.
LEMMA ArrivesTypes ==
    ASSUME BackupsTypeOK, NEW s \in Stamp, Arrives(s)
    PROVE  /\ bucket' \in [Stamp -> {"none", "part", "whole"}]
           /\ modified' \in [Stamp -> Nat] /\ arrivals' \in Nat
BY DEF BackupsTypeOK, Arrives

\* An offsite backup that goes on keeps the types, ...
LEMMA OnwardTypes ==
    ASSUME BackupsTypeOK, Named, NEW t \in Task, Onward(t)
    PROVE  BackupsTypeOK' /\ Named'
<1> USE DEF files, reports, objects, record
<1>1. task' \in [Task -> TaskState] /\ Named' /\ task[t].at \in Stamp
    <2>1. PICK pc, old, good : Becomes(t, pc, task[t].at, old, good)
        BY OnwardTask
    <2> QED BY <2>1, OnwardTask, NamedKept DEF Becomes, Named
<1>2. CASE SnapshotDone(t) \/ ListObjects(t)
    BY <1>1, <1>2 DEF SnapshotDone, ListObjects, BackupsTypeOK, TaskState
<1>3. CASE TarBegin(t) \/ TarEnd(t)
    <2>1. archive' \in [Stamp -> {"none", "part", "whole"}]
        BY <1>3 DEF TarBegin, TarEnd, BackupsTypeOK
    <2> QED BY <1>1, <1>3, <2>1 DEF TarBegin, TarEnd, BackupsTypeOK, TaskState
<1>4. CASE Upload(t) \/ OffsiteFails(t)
    <2>1. /\ bucket' \in [Stamp -> {"none", "part", "whole"}]
          /\ modified' \in [Stamp -> Nat] /\ arrivals' \in Nat
        <3>1. CASE UNCHANGED objects
            BY <3>1 DEF BackupsTypeOK
        <3>2. CASE Arrives(task[t].at)
            BY <1>1, <3>2, ArrivesTypes
        <3> QED BY <1>4, <3>1, <3>2 DEF Upload, OffsiteFails
    <2>2. errors' \in 0 .. MaxErrors
        BY <1>4, Counted DEF Upload, OffsiteFails
    <2>3. UNCHANGED <<now, files, reports, record>>
        BY <1>4 DEF Upload, OffsiteFails
    <2> QED BY <1>1, <2>1, <2>2, <2>3 DEF BackupsTypeOK, TaskState
<1>5. CASE Prune(t)
    <2>1. bucket' \in [Stamp -> {"none", "part", "whole"}]
        BY <1>5 DEF Prune, BackupsTypeOK
    <2> QED BY <1>1, <1>5, <2>1 DEF Prune, BackupsTypeOK, TaskState
<1>6. CASE ReportOk(t) \/ ReportError(t)
    <2>1. status' \in Report /\ errors' \in 0 .. MaxErrors
        BY <1>6, Now, Counted, TimeAssumption DEF ReportOk, ReportError, Report, BackupsTypeOK
    <2> QED BY <1>1, <1>6, <2>1 DEF ReportOk, ReportError, BackupsTypeOK, TaskState
<1>7. CASE UnlinkSnapshot(t)
    BY <1>1, <1>7 DEF UnlinkSnapshot, BackupsTypeOK, TaskState
<1> QED BY <1>2, <1>3, <1>4, <1>5, <1>6, <1>7 DEF Onward

\* ... and so does one that begins or ends.
LEMMA OffsiteTypes ==
    ASSUME BackupsTypeOK, Named, NEW t \in Task,
           (\E s \in Stamp : OffsiteBegin(t, s)) \/ Over(t)
    PROVE  BackupsTypeOK' /\ Named'
<1> USE DEF files, reports, objects, record
<1>1. ASSUME NEW s \in Stamp, OffsiteBegin(t, s) PROVE BackupsTypeOK' /\ Named'
    <2>1. Becomes(t, "snapshot", s, task[t].old, task[t].good) /\ now' \in 0 .. MaxTime
        BY <1>1, OffsiteTask
    <2>2. Named'
        BY <2>1, NamedKept
    <2>3. snapshot' \subseteq Stamp /\ twice' \subseteq Stamp
        BY <1>1 DEF OffsiteBegin, BackupsTypeOK
    <2> QED BY <1>1, <2>1, <2>2, <2>3 DEF OffsiteBegin, Becomes, BackupsTypeOK, TaskState
<1>2. CASE Over(t)
    <2>1. Becomes(t, "idle", task[t].at, {}, FALSE)
        BY <1>2, OffsiteTask
    <2>2. Named'
        BY <2>1, NamedKept DEF Becomes, AtOffsite
    <2>3. task[t].at \in Stamp
        BY <1>2 DEF Over, SnapshotFails, UnlinkArchive, UnlinkFails, At, Named, AtOffsite
    <2>4. stray' \subseteq Stamp /\ snapshot' \subseteq Stamp
          /\ archive' \in [Stamp -> {"none", "part", "whole"}] /\ errors' \in 0 .. MaxErrors
        BY <1>2, <2>3, Counted DEF Over, SnapshotFails, UnlinkArchive, UnlinkFails, BackupsTypeOK
    <2> QED BY <1>2, <2>1, <2>2, <2>4
            DEF Over, SnapshotFails, UnlinkArchive, UnlinkFails, Becomes, BackupsTypeOK, TaskState
<1> QED BY <1>1, <1>2

\* Restore tests keep the types.
LEMMA VerifyTypes ==
    ASSUME BackupsTypeOK, Named, NEW t \in Task,
           VerifyBegin(t) \/ Latest(t) \/ Fetch(t) \/ VerifyFails(t) \/ Check(t)
    PROVE  BackupsTypeOK' /\ Named'
<1> USE DEF files, reports, objects, record
<1>1. \E old, good : \E pc \in {"latest", "idle", "fetch", "check"} :
          Becomes(t, pc, task[t].at, old, good)
    BY VerifyTask
<1>2. task' \in [Task -> TaskState] /\ Named'
    BY <1>1, NamedKept DEF Becomes, AtOffsite
<1>3. tested' \in Report
    <2>1. CASE Check(t)
        <3>1. PICK k \in task[t].old :
                  tested' = IF task[t].good THEN [says |-> "ok", key |-> k]
                            ELSE [says |-> "error", key |-> 0]
            BY <2>1 DEF Check
        <3>2. k \in 0 .. MaxTime /\ 0 \in 0 .. MaxTime
            BY Now, TimeAssumption DEF Stamp
        <3> QED BY <3>1, <3>2 DEF Report
    <2> QED BY <2>1 DEF VerifyBegin, Latest, Fetch, VerifyFails, BackupsTypeOK
<1>4. errors' \in 0 .. MaxErrors
    BY Counted DEF VerifyBegin, Latest, Fetch, VerifyFails, Check
<1>5. UNCHANGED <<now, files, objects, status, record>>
    BY DEF VerifyBegin, Latest, Fetch, VerifyFails, Check
<1> QED BY <1>2, <1>3, <1>4, <1>5 DEF BackupsTypeOK, TaskState

\* The end of the process ends every task; names are remembered.
LEMMA CrashTask ==
    ASSUME BackupsTypeOK, BackupsCrash
    PROVE  /\ task' \in [Task -> TaskState]
           /\ \A t \in Task : /\ task'[t].pc = "idle" /\ task'[t].at = task[t].at
                              /\ task'[t].old = {}
<1>1. task' = [t \in Task |-> [Idle EXCEPT !.at = task[t].at]]
    BY DEF BackupsCrash
<1>2. \A t \in Task : /\ [Idle EXCEPT !.at = task[t].at] \in TaskState
                      /\ [Idle EXCEPT !.at = task[t].at].pc = "idle"
                      /\ [Idle EXCEPT !.at = task[t].at].at = task[t].at
                      /\ [Idle EXCEPT !.at = task[t].at].old = {}
    BY Now DEF Idle, TaskState, PC
<1> QED BY <1>1, <1>2

\* The end of the process keeps the types.
LEMMA CrashTypes ==
    ASSUME BackupsTypeOK, Named, BackupsCrash
    PROVE  BackupsTypeOK' /\ Named'
<1> USE DEF files, reports, objects, record
<1>1. Named'
    BY CrashTask DEF Named, AtOffsite
<1>2. stray' \subseteq Stamp /\ errors' \in 0 .. MaxErrors
    BY Counted DEF BackupsCrash, BackupsTypeOK
<1> QED BY <1>1, <1>2, CrashTask DEF BackupsCrash, BackupsTypeOK, TaskState

-----------------------------------------------------------------------------
(* Files of offsite backups.                                               *)

\* The task is to delete the snapshot of its name.
Holds(t) == AtOffsite(t) /\ task[t].pc # "erase"

\* A file belongs to an offsite backup of its name that is to delete it, or
\* is known to stray.
Owned == \A s \in Stamp \ stray :
             /\ s \in snapshot => \E t \in Task : task[t].at = s /\ Holds(t)
             /\ archive[s] # "none" => \E t \in Task : task[t].at = s /\ AtOffsite(t)

\* A task that goes on may add files of its own name; those of one that ends
\* are gone or known to stray.
LEMMA OwnedKept ==
    ASSUME Owned, NEW t \in Task, \A u \in Task \ {t} : task'[u] = task[u],
           stray \subseteq stray',
           \A s \in Stamp \ stray' : s \in snapshot' =>
               \/ task'[t].at = s /\ Holds(t)'
               \/ s \in snapshot /\ (s # task[t].at \/ ~Holds(t)),
           \A s \in Stamp \ stray' : archive'[s] # "none" =>
               \/ task'[t].at = s /\ AtOffsite(t)'
               \/ archive[s] # "none" /\ (s # task[t].at \/ ~AtOffsite(t))
    PROVE  Owned'
<1> SUFFICES ASSUME NEW s \in Stamp \ stray'
             PROVE  /\ s \in snapshot' => \E u \in Task : task'[u].at = s /\ Holds(u)'
                    /\ archive'[s] # "none" => \E u \in Task : task'[u].at = s /\ AtOffsite(u)'
    BY DEF Owned
<1>1. ASSUME s \in snapshot', ~(task'[t].at = s /\ Holds(t)')
      PROVE  \E u \in Task : task'[u].at = s /\ Holds(u)'
    <2>1. s \in snapshot /\ (s # task[t].at \/ ~Holds(t))
        BY <1>1
    <2>2. PICK u \in Task : task[u].at = s /\ Holds(u)
        BY <2>1 DEF Owned
    <2> QED BY <2>1, <2>2 DEF Holds, AtOffsite
<1>2. ASSUME archive'[s] # "none", ~(task'[t].at = s /\ AtOffsite(t)')
      PROVE  \E u \in Task : task'[u].at = s /\ AtOffsite(u)'
    <2>1. archive[s] # "none" /\ (s # task[t].at \/ ~AtOffsite(t))
        BY <1>2
    <2>2. PICK u \in Task : task[u].at = s /\ AtOffsite(u)
        BY <2>1 DEF Owned
    <2> QED BY <2>1, <2>2 DEF AtOffsite
<1> QED BY <1>1, <1>2

\* Steps of the local backups and of the restore test.
Elsewhere(t) ==
    \/ \E s \in Stamp : LocalBegin(t, s) \/ Trim(t, s)
    \/ LocalDone(t) \/ LocalFails(t) \/ Glob(t) \/ Trimmed(t)
    \/ VerifyBegin(t) \/ Latest(t) \/ Fetch(t) \/ VerifyFails(t) \/ Check(t)

\* They leave the files, the bucket and the status of offsite backups alone.
LEMMA ElsewhereTask ==
    ASSUME BackupsTypeOK, NEW t \in Task, Elsewhere(t)
    PROVE  /\ ~AtOffsite(t) /\ ~AtOffsite(t)'
           /\ \A u \in Task \ {t} : task'[u] = task[u]
           /\ task'[t].pc # "prune"
           /\ UNCHANGED <<snapshot, archive, objects, status, twice, stray>>
<1>1. /\ ~AtOffsite(t)
      /\ UNCHANGED <<snapshot, archive, objects, status, twice, stray>>
    BY DEF Elsewhere, LocalBegin, Trim, LocalDone, LocalFails, Glob, Trimmed, VerifyBegin,
           Latest, Fetch, VerifyFails, Check, At, AtOffsite, files, record, reports
<1>2. \E at, old, good : \E pc \in {"copy", "glob", "trim", "idle", "latest", "fetch", "check"} :
          Becomes(t, pc, at, old, good)
    <2>1. ASSUME NEW s \in Stamp, LocalBegin(t, s) \/ Trim(t, s)
          PROVE  \E at, old, good : \E pc \in {"copy", "trim"} : Becomes(t, pc, at, old, good)
        BY <2>1, LocalTask
    <2>2. CASE LocalDone(t) \/ LocalFails(t) \/ Trimmed(t)
        BY <2>2, LocalTask
    <2>3. CASE Glob(t)
        BY <2>3, LocalTask
    <2>4. CASE VerifyBegin(t) \/ VerifyFails(t) \/ Check(t)
        BY <2>4, VerifyTask
    <2>5. CASE Latest(t) \/ Fetch(t)
        BY <2>5, VerifyTask
    <2> QED BY <2>1, <2>2, <2>3, <2>4, <2>5 DEF Elsewhere
<1> QED BY <1>1, <1>2 DEF Becomes, AtOffsite

\* No step leaves a file without an owner.
LEMMA OwnedStep ==
    ASSUME BackupsTypeOK, Named, Owned, NEW t \in Task, BackupStep(t)
    PROVE  Owned'
<1>1. CASE Elsewhere(t)
    BY <1>1, ElsewhereTask, OwnedKept DEF Holds
<1>2. ASSUME NEW s \in Stamp, OffsiteBegin(t, s) PROVE Owned'
    <2>1. Becomes(t, "snapshot", s, task[t].old, task[t].good)
        BY <1>2, OffsiteTask
    <2>2. ~AtOffsite(t) /\ snapshot' = snapshot \cup {s} /\ archive' = archive /\ stray' = stray
        BY <1>2 DEF OffsiteBegin, At, AtOffsite
    <2> QED BY <2>1, <2>2, OwnedKept DEF Becomes, Holds, AtOffsite
<1>3. CASE Onward(t)
    <2>1. /\ AtOffsite(t)' /\ task'[t].at = task[t].at
          /\ \A u \in Task \ {t} : task'[u] = task[u]
        BY <1>3, OnwardTask DEF Becomes, AtOffsite
    <2>2. \/ snapshot' = snapshot /\ Holds(t)'
          \/ snapshot' = snapshot \ {task[t].at}
        <3>1. CASE UnlinkSnapshot(t)
            BY <3>1 DEF UnlinkSnapshot
        <3>2. CASE ~UnlinkSnapshot(t)
            <4>1. snapshot' = snapshot
                BY <1>3, <3>2 DEF Onward, SnapshotDone, TarBegin, TarEnd, Upload, OffsiteFails,
                                  ListObjects, Prune, ReportOk, ReportError, files
            <4>2. task'[t].pc # "erase"
                BY <1>3, <3>2, OffsiteTask DEF Onward, Becomes
            <4> QED BY <2>1, <4>1, <4>2 DEF Holds
        <3> QED BY <3>1, <3>2
    <2>3. stray' = stray
        BY <1>3 DEF Onward, SnapshotDone, TarBegin, TarEnd, Upload, OffsiteFails, ListObjects,
                    Prune, ReportOk, ReportError, UnlinkSnapshot, record
    <2>4. \A s \in Stamp \ {task[t].at} : archive'[s] = archive[s]
        <3>1. CASE TarBegin(t) \/ TarEnd(t)
            BY <3>1 DEF TarBegin, TarEnd, BackupsTypeOK
        <3> QED BY <1>3, <3>1 DEF Onward, SnapshotDone, Upload, OffsiteFails, ListObjects,
                                  Prune, ReportOk, ReportError, UnlinkSnapshot, files
    <2> QED BY <2>1, <2>2, <2>3, <2>4, OwnedKept
<1>4. CASE Over(t)
    <2>1. \A u \in Task \ {t} : task'[u] = task[u]
        BY <1>4, OffsiteTask DEF Becomes
    <2>2. CASE SnapshotFails(t) \/ UnlinkFails(t)
        <3>1. stray' = stray \cup {task[t].at} /\ UNCHANGED files
            BY <2>2 DEF SnapshotFails, UnlinkFails
        <3> QED BY <2>1, <3>1, OwnedKept DEF files
    <2>3. CASE UnlinkArchive(t)
        <3>1. /\ ~Holds(t) /\ stray' = stray /\ snapshot' = snapshot
              /\ archive' = [archive EXCEPT ![task[t].at] = "none"]
            BY <2>3 DEF UnlinkArchive, At, Holds, record
        <3>2. \A s \in Stamp : archive'[s] # "none" => archive[s] # "none" /\ s # task[t].at
            BY <3>1 DEF BackupsTypeOK
        <3> QED BY <2>1, <3>1, <3>2, OwnedKept
    <2> QED BY <1>4, <2>2, <2>3 DEF Over
<1> QED BY <1>1, <1>2, <1>3, <1>4 DEF BackupStep, Elsewhere, Onward, Over

\* Files left by the end of the process are known to stray.
LEMMA OwnedCrash == BackupsTypeOK /\ Owned /\ BackupsCrash => Owned'
BY DEF BackupsCrash, Owned, files

-----------------------------------------------------------------------------
(* What arrives in the bucket, and what goes.                              *)

\* As many objects as are kept have arrived after that of s.
Enough(s) == Cardinality(Later(s)) >= Keep["offsite"]

\* The backup of a name no other was given: its files are its own, and what
\* it uploads is whole and the first of its name.
Course(t) ==
    AtOffsite(t) /\ task[t].at \notin twice =>
        /\ \A u \in Task \ {t} : AtOffsite(u) => task[u].at # task[t].at
        /\ task[t].pc # "erase" => task[t].at \in snapshot
        /\ task[t].pc \in {"snapshot", "tar", "tarring", "upload"} => modified[task[t].at] = 0
        /\ task[t].pc = "upload" => archive[task[t].at] = "whole"

\* What a task knows of the objects.
Knows(t) ==
    /\ task[t].pc \in {"list", "prune", "ok"} => modified[task[t].at] # 0
    /\ task[t].pc = "prune" =>
           \A s \in task[t].old : modified[s] # 0 /\ (s \in twice \/ Enough(s))
    /\ task[t].pc \in {"fetch", "check"} => \A s \in task[t].old : modified[s] # 0

Bucket ==
    /\ \A s \in Stamp : /\ modified[s] <= arrivals
                        /\ bucket[s] # "none" => modified[s] # 0
    /\ \A s \in Stamp \ twice : modified[s] # 0 => bucket[s] = "whole" \/ Enough(s)

Reported ==
    \A r \in {status, tested} : r.says = "ok" => r.key \in Stamp /\ modified[r.key] # 0

Offsite == Bucket /\ Reported /\ \A t \in Task : Course(t) /\ Knows(t)

\* Later arrivals are not forgotten.
LEMMA EnoughKept ==
    ASSUME BackupsTypeOK, Bucket, NEW x \in Stamp, Enough(x),
           \/ modified' = modified
           \/ \E s \in Stamp \ {x} : modified' = [modified EXCEPT ![s] = arrivals + 1]
    PROVE  Enough(x)'
<1>1. Later(x) \subseteq Later(x)'
    BY DEF Later, Bucket, BackupsTypeOK
<1>2. IsFiniteSet(Later(x)')
    <2>1. IsFiniteSet(Stamp)
        BY TimeAssumption, FS_Interval DEF Stamp
    <2> QED BY <2>1, FS_Subset DEF Later
<1>3. /\ Cardinality(Later(x)) \in Nat /\ Cardinality(Later(x)') \in Nat
      /\ Cardinality(Later(x)) <= Cardinality(Later(x)')
    BY <1>1, <1>2, FS_Subset, FS_CardinalityType
<1>4. Keep["offsite"] \in Nat
    BY KeepAssumption
<1> QED BY <1>3, <1>4 DEF Enough

\* What a task knows stays true while others work.
LEMMA KnowsKept ==
    ASSUME BackupsTypeOK, Bucket, NEW u \in Task, Named, Knows(u), task'[u] = task[u],
           twice \subseteq twice',
           \A x \in Stamp : modified[x] # 0 =>
               modified'[x] # 0 /\ (x \in twice' \/ (Enough(x) => Enough(x)'))
    PROVE  Knows(u)'
<1>1. task[u].old \subseteq Stamp
    BY Now
<1>2. task[u].pc \in {"list", "prune", "ok"} => task[u].at \in Stamp
    BY DEF Named, AtOffsite
<1> QED BY <1>1, <1>2 DEF Knows

\* The backup of u goes on while others work elsewhere.
LEMMA CourseKept ==
    ASSUME NEW u \in Task, Course(u), task'[u] = task[u], twice \subseteq twice',
           AtOffsite(u) /\ task[u].at \notin twice' =>
               /\ \A v \in Task \ {u} : AtOffsite(v)' /\ task'[v].at = task[u].at
                                            => AtOffsite(v) /\ task[v].at = task[u].at
               /\ task[u].at \in snapshot => task[u].at \in snapshot'
               /\ modified'[task[u].at] = modified[task[u].at]
               /\ archive'[task[u].at] = archive[task[u].at]
    PROVE  Course(u)'
BY DEF Course, AtOffsite

\* A bucket at rest is as it was.
LEMMA BucketKept ==
    ASSUME Bucket, UNCHANGED objects, twice \subseteq twice'
    PROVE  Bucket' /\ \A x : Enough(x)' = Enough(x)
BY DEF Bucket, Enough, Later, objects

\* Local backups disturb nothing; a restore test reports what it fetched.
LEMMA ElsewhereOffsite ==
    ASSUME BackupsTypeOK, Named, Offsite, NEW t \in Task, Elsewhere(t)
    PROVE  Offsite'
<1>1. /\ ~AtOffsite(t) /\ ~AtOffsite(t)'
      /\ \A u \in Task \ {t} : task'[u] = task[u]
      /\ task'[t].pc # "prune"
      /\ UNCHANGED <<snapshot, archive, objects, status, twice, stray>>
    BY ElsewhereTask
<1>2. Bucket' /\ (\A x : Enough(x)' = Enough(x)) /\ modified' = modified
    BY <1>1, BucketKept DEF Offsite, objects
<1>3. ASSUME NEW u \in Task \ {t} PROVE Course(u)' /\ Knows(u)'
    <2>1. Course(u)'
        BY <1>1, <1>2, <1>3, CourseKept DEF Offsite, AtOffsite
    <2> QED BY <1>1, <1>2, <1>3, <2>1, KnowsKept DEF Offsite
<1>4. Course(t)'
    BY <1>1 DEF Course
<1>5. task'[t].pc \in {"fetch", "check"} => \A s \in task'[t].old : modified[s] # 0
    <2>1. CASE Latest(t)
        <3>1. CASE \E s \in Objects : Becomes(t, "fetch", task[t].at, {s}, task[t].good)
            BY <3>1 DEF Becomes, Objects, Offsite, Bucket
        <3>2. CASE Becomes(t, "idle", task[t].at, {}, FALSE)
            BY <3>2 DEF Becomes
        <3> QED BY <2>1, <3>1, <3>2, VerifyTask
    <2>2. CASE Fetch(t)
        <3>1. \A s \in task[t].old : modified[s] # 0
            BY <2>2 DEF Fetch, At, Offsite, Knows
        <3>2. task'[t].old = task[t].old \/ task'[t].old = {}
            BY <2>2, VerifyTask DEF Becomes
        <3> QED BY <3>1, <3>2
    <2>3. CASE VerifyBegin(t) \/ VerifyFails(t) \/ Check(t)
        BY <2>3, VerifyTask DEF Becomes
    <2>4. CASE LocalDone(t) \/ LocalFails(t) \/ Glob(t) \/ Trimmed(t)
        BY <2>4, LocalTask DEF Becomes
    <2>5. CASE \E s \in Stamp : LocalBegin(t, s) \/ Trim(t, s)
        BY <2>5, LocalTask DEF Becomes
    <2> QED BY <2>1, <2>2, <2>3, <2>4, <2>5 DEF Elsewhere
<1>6. Knows(t)'
    BY <1>1, <1>2, <1>5 DEF Knows, AtOffsite
<1>7. Reported'
    <2>1. CASE Check(t)
        <3>1. PICK k \in task[t].old :
                  tested' = IF task[t].good THEN [says |-> "ok", key |-> k]
                            ELSE [says |-> "error", key |-> 0]
            BY <2>1 DEF Check
        <3>2. k \in Stamp /\ modified[k] # 0
            BY <2>1, Now DEF Check, At, Offsite, Knows
        <3> QED BY <1>1, <1>2, <3>1, <3>2 DEF Offsite, Reported
    <2>2. CASE UNCHANGED tested
        BY <1>1, <1>2, <2>2 DEF Offsite, Reported
    <2> QED BY <2>1, <2>2 DEF Elsewhere, LocalBegin, Trim, LocalDone, LocalFails, Glob, Trimmed,
                              VerifyBegin, Latest, Fetch, VerifyFails, reports
<1> QED BY <1>2, <1>3, <1>4, <1>6, <1>7 DEF Offsite

\* A name that is new has no file and no object.
LEMMA BeginOffsite ==
    ASSUME BackupsTypeOK, Named, Offsite, NEW t \in Task, NEW s \in Stamp, OffsiteBegin(t, s)
    PROVE  Offsite'
<1>1. Becomes(t, "snapshot", s, task[t].old, task[t].good)
    BY OffsiteTask
<1>2. /\ ~AtOffsite(t)
      /\ snapshot' = snapshot \cup {s}
      /\ twice \subseteq twice'
      /\ s \notin twice' => /\ s \notin snapshot /\ modified[s] = 0
                           /\ \A u \in Task \ {t} : AtOffsite(u) => task[u].at # s
      /\ UNCHANGED <<archive, objects, reports>>
    BY DEF OffsiteBegin, At, AtOffsite
<1>3. Bucket' /\ (\A x : Enough(x)' = Enough(x)) /\ modified' = modified
    BY <1>2, BucketKept DEF Offsite, objects
<1>4. ASSUME NEW u \in Task, AtOffsite(u), task[u].at = s PROVE s \in twice'
    BY <1>2, <1>4 DEF Offsite, Course
<1>5. ASSUME NEW u \in Task \ {t} PROVE Course(u)' /\ Knows(u)'
    <2>1. Course(u)'
        BY <1>1, <1>2, <1>3, <1>4, <1>5, CourseKept DEF Offsite, AtOffsite, Becomes
    <2> QED BY <1>1, <1>2, <1>3, <1>5, <2>1, KnowsKept DEF Offsite, Becomes
<1>6. Course(t)'
    BY <1>1, <1>2, <1>3, <1>4 DEF Course, Becomes, AtOffsite
<1>7. Knows(t)'
    BY <1>1 DEF Knows, Becomes
<1>8. Reported'
    BY <1>2, <1>3 DEF Offsite, Reported, reports
<1> QED BY <1>3, <1>5, <1>6, <1>7, <1>8 DEF Offsite

\* An object arrives under the name of t.
LEMMA ArrivesOffsite ==
    ASSUME BackupsTypeOK, Named, Offsite, NEW t \in Task, task[t].pc = "upload",
           Arrives(task[t].at), UNCHANGED <<files, reports, twice>>,
           NEW pc \in {"list", "failed"},
           Becomes(t, pc, task[t].at, task[t].old, task[t].good)
    PROVE  Offsite'
<1> DEFINE s == task[t].at
<1>1. s \in Stamp /\ AtOffsite(t)
    BY DEF Named, AtOffsite
<1>2. s \notin twice => modified[s] = 0 /\ archive[s] = "whole"
    BY <1>1 DEF Offsite, Course
<1>3. /\ modified' = [modified EXCEPT ![s] = arrivals + 1]
      /\ bucket' = [bucket EXCEPT ![s] = archive[s]]
      /\ arrivals' = arrivals + 1
      /\ arrivals \in Nat /\ modified \in [Stamp -> Nat]
      /\ bucket \in [Stamp -> {"none", "part", "whole"}]
    BY DEF Arrives, BackupsTypeOK
<1>4. ASSUME NEW x \in Stamp, modified[x] # 0
      PROVE  modified'[x] # 0 /\ (x \in twice' \/ (Enough(x) => Enough(x)'))
    <2>1. modified'[x] # 0
        BY <1>3, <1>4
    <2>2. CASE x \notin twice
        <3>1. x # s
            BY <1>2, <1>4, <2>2
        <3> QED BY <1>1, <1>3, <2>1, <3>1, EnoughKept DEF Offsite
    <2> QED BY <2>1, <2>2
<1>5. Bucket'
    <2>1. \A x \in Stamp : modified'[x] <= arrivals' /\ (bucket'[x] # "none" => modified'[x] # 0)
        BY <1>3 DEF Offsite, Bucket
    <2>2. ASSUME NEW x \in Stamp \ twice', modified'[x] # 0
          PROVE  bucket'[x] = "whole" \/ Enough(x)'
        <3>1. CASE x = s
            BY <1>1, <1>2, <1>3, <2>2, <3>1
        <3>2. CASE x # s
            BY <1>3, <1>4, <2>2, <3>2 DEF Offsite, Bucket
        <3> QED BY <3>1, <3>2
    <2> QED BY <2>1, <2>2 DEF Bucket
<1>6. ASSUME NEW u \in Task \ {t} PROVE Course(u)' /\ Knows(u)'
    <2>1. task'[u] = task[u] /\ task'[t].at = task[t].at
        BY <1>6 DEF Becomes
    <2>2. AtOffsite(u) /\ task[u].at \notin twice => task[u].at # s /\ task[u].at \in Stamp
        BY <1>1, <1>6 DEF Offsite, Course, Named
    <2>3. Course(u)'
        BY <1>1, <1>3, <1>6, <2>1, <2>2, CourseKept DEF Offsite, AtOffsite, Becomes, files
    <2>4. Knows(u)'
        BY <1>4, <1>6, <2>1, KnowsKept DEF Offsite
    <2> QED BY <2>3, <2>4
<1>7. Course(t)'
    BY <1>1 DEF Offsite, Course, AtOffsite, Becomes, files
<1>8. Knows(t)'
    BY <1>1, <1>3 DEF Knows, Becomes
<1>9. Reported'
    BY <1>4 DEF Offsite, Reported, reports
<1> QED BY <1>5, <1>6, <1>7, <1>8, <1>9 DEF Offsite

\* What the others are at and know stays true when t touches no file but its
\* own and nothing arrives.
LEMMA OthersOnward ==
    ASSUME BackupsTypeOK, Named, Offsite, NEW t \in Task, AtOffsite(t),
           task'[t].at = task[t].at, \A u \in Task \ {t} : task'[u] = task[u],
           UNCHANGED <<modified, twice>>,
           \A x \in Stamp \ {task[t].at} :
               archive'[x] = archive[x] /\ (x \in snapshot => x \in snapshot')
    PROVE  /\ \A x : Enough(x)' = Enough(x)
           /\ \A u \in Task \ {t} : Course(u)' /\ Knows(u)'
<1>1. \A x : Enough(x)' = Enough(x)
    BY DEF Enough, Later
<1>2. ASSUME NEW u \in Task \ {t} PROVE Course(u)' /\ Knows(u)'
    <2>1. AtOffsite(u) /\ task[u].at \notin twice =>
              task[u].at # task[t].at /\ task[u].at \in Stamp
        BY <1>2 DEF Offsite, Course, Named
    <2>2. Course(u)'
        BY <1>2, <2>1, CourseKept DEF Offsite, AtOffsite
    <2>3. Knows(u)'
        BY <1>1, <1>2, KnowsKept DEF Offsite
    <2> QED BY <2>2, <2>3
<1> QED BY <1>1, <1>2

\* The objects listed as stale have arrived before as many as are kept.
LEMMA ListsStale ==
    ASSUME BackupsTypeOK, Bucket, NEW s \in Objects,
           Cardinality({r \in Objects : modified[r] > modified[s]}) >= Keep["offsite"]
    PROVE  modified[s] # 0 /\ Enough(s)
<1> DEFINE N == {r \in Objects : modified[r] > modified[s]}
<1>1. N \subseteq Later(s) /\ Later(s) \subseteq Stamp /\ IsFiniteSet(Stamp)
    BY TimeAssumption, FS_Interval DEF Stamp, Later, Objects
<1>2. /\ Cardinality(N) \in Nat /\ Cardinality(Later(s)) \in Nat
      /\ Cardinality(N) <= Cardinality(Later(s))
    BY <1>1, FS_Subset, FS_CardinalityType
<1>3. Keep["offsite"] \in Nat
    BY KeepAssumption
<1> QED BY <1>2, <1>3 DEF Enough, Bucket, Objects

\* What is listed has been outnumbered, and stays so until it is deleted.
LEMMA ListOffsite ==
    ASSUME BackupsTypeOK, Named, Offsite, NEW t \in Task, ListObjects(t)
    PROVE  Offsite'
<1> DEFINE S == {s \in Objects : Cardinality({r \in Objects : modified[r] > modified[s]})
                                      >= Keep["offsite"]}
<1>1. Becomes(t, "prune", task[t].at, S, task[t].good)
    BY OffsiteTask
<1>2. /\ task[t].pc = "list" /\ AtOffsite(t)
      /\ UNCHANGED <<files, objects, reports, twice>>
    BY DEF ListObjects, At, AtOffsite, record
<1>3. /\ \A x : Enough(x)' = Enough(x)
      /\ \A u \in Task \ {t} : Course(u)' /\ Knows(u)'
    BY <1>1, <1>2, OthersOnward DEF Becomes, files, objects
<1>4. Bucket' /\ Reported'
    BY <1>2, BucketKept DEF Offsite, Reported, reports, objects
<1>5. Course(t)'
    BY <1>1, <1>2 DEF Offsite, Course, AtOffsite, Becomes, files, objects
<1>6. \A s \in S : modified[s] # 0 /\ Enough(s)
    BY ListsStale DEF Offsite
<1>7. Knows(t)'
    BY <1>1, <1>2, <1>3, <1>6 DEF Offsite, Knows, Becomes, objects
<1> QED BY <1>3, <1>4, <1>5, <1>7 DEF Offsite

\* What is deleted has been outnumbered.
LEMMA PruneOffsite ==
    ASSUME BackupsTypeOK, Named, Offsite, NEW t \in Task, Prune(t)
    PROVE  Offsite'
<1>1. Becomes(t, "ok", task[t].at, {}, task[t].good)
    BY OffsiteTask
<1>2. /\ task[t].pc = "prune" /\ AtOffsite(t)
      /\ bucket' = [s \in Stamp |-> IF s \in task[t].old THEN "none" ELSE bucket[s]]
      /\ UNCHANGED <<files, modified, arrivals, reports, twice>>
    BY DEF Prune, At, AtOffsite, record
<1>3. /\ \A x : Enough(x)' = Enough(x)
      /\ \A u \in Task \ {t} : Course(u)' /\ Knows(u)'
    BY <1>1, <1>2, OthersOnward DEF Becomes, files
<1>4. \A s \in task[t].old : s \in twice \/ Enough(s)
    BY <1>2 DEF Offsite, Knows
<1>5. Bucket'
    BY <1>2, <1>3, <1>4 DEF Offsite, Bucket
<1>6. Reported'
    BY <1>2 DEF Offsite, Reported, reports
<1>7. Course(t)'
    BY <1>1, <1>2 DEF Offsite, Course, AtOffsite, Becomes, files
<1>8. Knows(t)'
    BY <1>1, <1>2 DEF Offsite, Knows, Becomes
<1> QED BY <1>3, <1>5, <1>6, <1>7, <1>8 DEF Offsite

\* An archive is written, by its own backup.
LEMMA TarOffsite ==
    ASSUME BackupsTypeOK, Named, Offsite, NEW t \in Task,
           SnapshotDone(t) \/ TarBegin(t) \/ TarEnd(t)
    PROVE  Offsite'
<1> DEFINE s == task[t].at
<1>1. PICK pc \in {"tar", "tarring", "failed", "upload"} :
          Becomes(t, pc, task[t].at, task[t].old, task[t].good)
    BY OffsiteTask
<1>2. /\ AtOffsite(t) /\ task[t].pc \in {"snapshot", "tar", "tarring"}
      /\ snapshot' = snapshot /\ twice' = twice /\ UNCHANGED <<objects, reports>>
      /\ \A x \in Stamp \ {s} : archive'[x] = archive[x]
    BY DEF SnapshotDone, TarBegin, TarEnd, At, AtOffsite, record, files, BackupsTypeOK
<1>3. /\ \A x : Enough(x)' = Enough(x)
      /\ \A u \in Task \ {t} : Course(u)' /\ Knows(u)'
    BY <1>1, <1>2, OthersOnward DEF Becomes, objects
<1>4. Bucket' /\ Reported'
    BY <1>2, BucketKept DEF Offsite, Reported, reports, objects
<1>5. pc = "upload" /\ s \notin twice => archive'[s] = "whole"
    <2>1. CASE TarEnd(t)
        <3>1. archive[s] # "none" /\ s \notin twice => archive' = [archive EXCEPT ![s] = "whole"]
            BY <2>1 DEF TarEnd
        <3>2. archive[s] = "none" => pc = "failed"
            BY <1>1, <2>1, OffsiteTask DEF Becomes
        <3>3. s \in Stamp
            BY <1>2 DEF Named
        <3> QED BY <3>1, <3>2, <3>3 DEF BackupsTypeOK
    <2>2. CASE SnapshotDone(t) \/ TarBegin(t)
        BY <1>1, <2>2, OffsiteTask DEF Becomes
    <2> QED BY <2>1, <2>2
<1>6. Course(t)'
    BY <1>1, <1>2, <1>5 DEF Offsite, Course, AtOffsite, Becomes, objects
<1>7. Knows(t)'
    BY <1>1 DEF Knows, Becomes
<1> QED BY <1>3, <1>4, <1>6, <1>7 DEF Offsite

\* An upload ends without an object, the backup fails or is reported.
LEMMA RestOffsite ==
    ASSUME BackupsTypeOK, Named, Offsite, NEW t \in Task,
           \/ Upload(t) /\ archive[task[t].at] = "none"
           \/ OffsiteFails(t) /\ UNCHANGED objects
           \/ ReportOk(t) \/ ReportError(t)
    PROVE  Offsite'
<1>1. PICK pc \in {"failed", "unlink"} :
          Becomes(t, pc, task[t].at, task[t].old, task[t].good)
    BY OffsiteTask
<1>2. AtOffsite(t) /\ UNCHANGED <<files, objects, tested, twice>>
    BY DEF Upload, OffsiteFails, ReportOk, ReportError, At, AtOffsite, record, reports
<1>3. /\ \A x : Enough(x)' = Enough(x)
      /\ \A u \in Task \ {t} : Course(u)' /\ Knows(u)'
    BY <1>1, <1>2, OthersOnward DEF Becomes, objects, files
<1>4. Bucket'
    BY <1>2, BucketKept DEF Offsite
<1>5. Reported'
    <2>1. status' = status \/ (status'.says = "ok" => status'.key \in Stamp /\ modified[status'.key] # 0)
        <3>1. CASE ReportOk(t)
            BY <1>2, <3>1 DEF ReportOk, At, Offsite, Knows, Named
        <3> QED BY <3>1 DEF Upload, OffsiteFails, ReportError, reports
    <2> QED BY <1>2, <2>1 DEF Offsite, Reported, objects
<1>6. Course(t)'
    <2>1. task[t].pc # "erase" /\ task'[t].pc # "erase" /\ task'[t].pc # "upload"
        BY <1>1 DEF Upload, OffsiteFails, ReportOk, ReportError, At, Becomes
    <2>2. task'[t].pc \notin {"snapshot", "tar", "tarring"}
        BY <1>1 DEF Becomes
    <2> QED BY <1>1, <1>2, <2>1, <2>2 DEF Offsite, Course, AtOffsite, Becomes, files
<1>7. Knows(t)'
    BY <1>1 DEF Knows, Becomes
<1> QED BY <1>3, <1>4, <1>5, <1>6, <1>7 DEF Offsite

\* The snapshot goes, the archive is still to go.
LEMMA EraseOffsite ==
    ASSUME BackupsTypeOK, Named, Offsite, NEW t \in Task, UnlinkSnapshot(t)
    PROVE  Offsite'
<1>1. Becomes(t, "erase", task[t].at, task[t].old, task[t].good)
    BY OffsiteTask
<1>2. /\ AtOffsite(t) /\ UNCHANGED <<archive, objects, reports, twice>>
      /\ \A x \in Stamp \ {task[t].at} : x \in snapshot => x \in snapshot'
    BY DEF UnlinkSnapshot, At, AtOffsite, record
<1>3. /\ \A x : Enough(x)' = Enough(x)
      /\ \A u \in Task \ {t} : Course(u)' /\ Knows(u)'
    BY <1>1, <1>2, OthersOnward DEF Becomes, objects
<1>4. Bucket' /\ Reported'
    BY <1>2, BucketKept DEF Offsite, Reported, reports, objects
<1>5. Course(t)' /\ Knows(t)'
    BY <1>1, <1>2 DEF Offsite, Course, Knows, AtOffsite, Becomes
<1> QED BY <1>3, <1>4, <1>5 DEF Offsite

\* All steps of an offsite backup that does not end.
LEMMA OnwardOffsite ==
    ASSUME BackupsTypeOK, Named, Offsite, NEW t \in Task, Onward(t)
    PROVE  Offsite'
<1>1. CASE Upload(t) /\ archive[task[t].at] # "none"
    <2>1. Becomes(t, "list", task[t].at, task[t].old, task[t].good)
        BY <1>1, OffsiteTask
    <2> QED BY <1>1, <2>1, ArrivesOffsite DEF Upload, At, record
<1>2. CASE OffsiteFails(t) /\ ~UNCHANGED objects
    <2>1. Becomes(t, "failed", task[t].at, task[t].old, task[t].good)
        BY <1>2, OffsiteTask
    <2> QED BY <1>2, <2>1, ArrivesOffsite DEF OffsiteFails, At, record
<1> QED BY <1>1, <1>2, TarOffsite, RestOffsite, ListOffsite, PruneOffsite, EraseOffsite DEF Onward

\* A backup ends and takes its files away: no other has its name.
LEMMA EndOffsite ==
    ASSUME BackupsTypeOK, Named, Offsite, NEW t \in Task, Over(t)
    PROVE  Offsite'
<1> DEFINE s == task[t].at
<1>1. Becomes(t, "idle", task[t].at, {}, FALSE)
    BY OffsiteTask
<1>2. /\ AtOffsite(t) /\ s \in Stamp /\ twice' = twice /\ UNCHANGED <<objects, reports>>
      /\ \A x \in Stamp \ {s} : archive'[x] = archive[x] /\ (x \in snapshot => x \in snapshot')
    BY DEF Over, SnapshotFails, UnlinkArchive, UnlinkFails, At, AtOffsite, record, files,
           BackupsTypeOK, Named
<1>3. Bucket' /\ Reported' /\ \A x : Enough(x)' = Enough(x)
    BY <1>2, BucketKept DEF Offsite, Reported, reports, objects
<1>4. ASSUME NEW u \in Task \ {t} PROVE Course(u)' /\ Knows(u)'
    <2>1. AtOffsite(u) /\ task[u].at \notin twice => task[u].at # s /\ task[u].at \in Stamp
        BY <1>2, <1>4 DEF Offsite, Course, Named
    <2>2. Course(u)'
        BY <1>1, <1>2, <1>4, <2>1, CourseKept DEF Offsite, AtOffsite, Becomes, objects
    <2>3. Knows(u)'
        BY <1>1, <1>2, <1>3, <1>4, KnowsKept DEF Offsite, Becomes, objects
    <2> QED BY <2>2, <2>3
<1>5. Course(t)' /\ Knows(t)'
    BY <1>1 DEF Course, Knows, AtOffsite, Becomes
<1> QED BY <1>3, <1>4, <1>5 DEF Offsite

\* The bucket outlasts the process.
LEMMA CrashOffsite ==
    ASSUME BackupsTypeOK, Offsite, BackupsCrash
    PROVE  Offsite'
<1>1. Bucket' /\ Reported'
    BY BucketKept DEF BackupsCrash, Offsite, Reported, reports, objects
<1>2. \A t \in Task : Course(t)' /\ Knows(t)'
    BY CrashTask DEF Course, Knows, AtOffsite
<1> QED BY <1>1, <1>2 DEF Offsite

\* An ok that was reported, of a name no other backup has.
LEMMA Reports == BackupsTypeOK /\ Offsite => ReportsTrue
BY DEF Offsite, Bucket, Reported, ReportsTrue, Enough

-----------------------------------------------------------------------------
(* Local snapshots.                                                        *)

\* As many snapshots of kind k as are kept were begun after that of x.
Outdone(k, x) == Cardinality({s \in begun[k] : s > x}) >= Keep[k]

\* The files that hold the database are there, and the newest is among them.
Held(k) ==
    /\ whole[k] \subseteq local[k] /\ local[k] \subseteq begun[k]
    /\ newest[k] # 0 => newest[k] \in whole[k] \/ (Overlap(k) /\ Outdone(k, newest[k]))

\* What a task is about to delete has been outdone.
Trims(t) == task[t].pc = "trim" => \A x \in task[t].old : Outdone(KindOf(t), x)

\* A task alone with its kind writes the newest of it, and keeps that.
Sole(t) ==
    LET k == KindOf(t) IN
    ~Overlap(k) =>
        /\ \A s \in local[k] : s <= task[t].at
        /\ newest[k] <= task[t].at
        /\ task[t].pc = "copy" => task[t].at \in local[k]
        /\ task[t].pc = "glob" => newest[k] = task[t].at
        /\ task[t].pc = "trim" => \A x \in task[t].old : x < newest[k]

Snapshots == (\A k \in Kind : Held(k)) /\ \A t \in Task : Trims(t) /\ Sole(t)

\* A task makes snapshots of one kind.
LEMMA KindType == \A t \in Task : KindOf(t) \in Kind
BY DEF KindOf, Kind

\* Names and what has been newest are numbers.
LEMMA Numbers ==
    ASSUME BackupsTypeOK
    PROVE  /\ \A k \in Kind : /\ local[k] \subseteq Stamp /\ whole[k] \subseteq Stamp
                              /\ begun[k] \subseteq Stamp /\ newest[k] \in Nat
                              /\ Keep[k] \in Nat \ {0}
           /\ \A t \in Task : task[t].at \in Nat /\ task[t].old \subseteq Stamp
           /\ Stamp \subseteq Nat \ {0} /\ IsFiniteSet(Stamp)
<1>1. Stamp \subseteq Nat \ {0} /\ IsFiniteSet(Stamp)
    BY TimeAssumption, FS_Interval DEF Stamp
<1>2. ASSUME NEW k \in Kind
      PROVE  /\ local[k] \subseteq Stamp /\ whole[k] \subseteq Stamp
             /\ begun[k] \subseteq Stamp /\ newest[k] \in Nat
             /\ Keep[k] \in Nat \ {0}
    BY <1>2, KeepAssumption, TimeAssumption DEF BackupsTypeOK, Kind
<1>3. \A t \in Task : task[t].at \in Nat /\ task[t].old \subseteq Stamp
    BY Now, TimeAssumption
<1> QED BY <1>1, <1>2, <1>3

\* Snapshots that were begun are not forgotten.
LEMMA OutdoneKept ==
    ASSUME NEW k \in Kind, NEW x, begun[k] \subseteq begun'[k], begun'[k] \subseteq Stamp,
           Cardinality({s \in begun[k] : s > x}) >= Keep[k]
    PROVE  Cardinality({s \in begun'[k] : s > x}) >= Keep[k]
<1> DEFINE B == {s \in begun[k] : s > x}
           C == {s \in begun'[k] : s > x}
<1>1. begun'[k] \subseteq Stamp /\ Keep[k] \in Nat /\ IsFiniteSet(Stamp)
    <2>1. Keep[k] \in Nat
        BY KeepAssumption DEF Kind
    <2>2. IsFiniteSet(Stamp)
        BY TimeAssumption, FS_Interval DEF Stamp
    <2> QED BY <2>1, <2>2
<1>2. B \subseteq C /\ IsFiniteSet(C)
    BY <1>1, FS_Subset
<1>3. Cardinality(B) \in Nat /\ Cardinality(C) \in Nat /\ Cardinality(B) <= Cardinality(C)
    BY <1>2, FS_Subset, FS_CardinalityType
<1> QED BY <1>1, <1>3

\* Steps that touch no snapshot.
LEMMA SnapshotsApart ==
    ASSUME BackupsTypeOK, BackupsTypeOK', Snapshots, UNCHANGED <<local, whole, newest, begun>>,
           \A t \in Task : \/ task'[t] = task[t]
                          \/ /\ task'[t].pc \notin {"copy", "glob", "trim"}
                             /\ task'[t].at >= task[t].at
    PROVE  Snapshots'
<1>1. \A k \in Kind : Held(k)'
    BY DEF Snapshots, Held, Outdone, Overlap
<1>2. \A t \in Task : Trims(t)'
    BY DEF Snapshots, Trims, Outdone
<1>3. ASSUME NEW t \in Task PROVE Sole(t)'
    <2>1. task[t].at \in Nat /\ task'[t].at \in Nat /\ newest[KindOf(t)] \in Nat
        BY Numbers, KindType, TimeAssumption DEF BackupsTypeOK
    <2>2. \A s \in local[KindOf(t)] : s \in Nat
        BY Numbers, KindType
    <2>3. task'[t] = task[t] \/ (task'[t].pc \notin {"copy", "glob", "trim"}
                                 /\ task'[t].at >= task[t].at)
        OBVIOUS
    <2> QED BY <2>1, <2>2, <2>3 DEF Snapshots, Sole, Overlap
<1> QED BY <1>1, <1>2, <1>3 DEF Snapshots

\* A snapshot begins, under the latest name of its task.
LEMMA BeginSnapshots ==
    ASSUME BackupsTypeOK, BackupsTypeOK', Snapshots, NEW t \in Task, NEW s \in Stamp,
           LocalBegin(t, s)
    PROVE  Snapshots'
<1> DEFINE k == KindOf(t)
<1>1. Becomes(t, "copy", s, task[t].old, task[t].good) /\ s > task[t].at
    BY LocalTask
<1>2. /\ local' = [local EXCEPT ![k] = @ \cup {s}]
      /\ begun' = [begun EXCEPT ![k] = @ \cup {s}]
      /\ whole' = whole /\ newest' = newest
    BY DEF LocalBegin
<1>3. \A j \in Kind : /\ begun[j] \subseteq begun'[j]
                      /\ local[j] \subseteq local'[j]
                      /\ j # k => local'[j] = local[j]
    BY <1>2 DEF BackupsTypeOK
<1>4. k \in Kind /\ local'[k] = local[k] \cup {s} /\ begun'[k] = begun[k] \cup {s}
    BY <1>2, KindType DEF BackupsTypeOK
<1>0. ASSUME NEW j \in Kind, NEW x, Outdone(j, x) PROVE Outdone(j, x)'
    <2>0. begun[j] \subseteq begun'[j]
        BY <1>3
    <2>1. begun'[j] \subseteq Stamp
        BY DEF BackupsTypeOK
    <2>2. Cardinality({r \in begun'[j] : r > x}) >= Keep[j]
        BY <1>0, <2>0, <2>1, OutdoneKept DEF Outdone
    <2> QED BY <2>2 DEF Outdone
<1>5. ASSUME NEW j \in Kind PROVE Held(j)'
    <2>1. Held(j)
        BY DEF Snapshots
    <2>2. whole'[j] \subseteq local'[j] /\ local'[j] \subseteq begun'[j]
        BY <1>2, <1>3, <1>4, <2>1 DEF Held
    <2>3. newest'[j] # 0 => \/ newest'[j] \in whole'[j]
                            \/ Overlap(j) /\ Outdone(j, newest[j])
        BY <1>2, <2>1 DEF Held
    <2>4. Outdone(j, newest[j]) => Outdone(j, newest[j])'
        <3>1. \A x : Outdone(j, x) => Outdone(j, x)'
            BY <1>0
        <3> QED BY <1>2, <3>1 DEF Outdone
    <2> QED BY <2>2, <2>3, <2>4 DEF Held, Overlap
<1>6. ASSUME NEW u \in Task \ {t} PROVE Trims(u)' /\ Sole(u)'
    <2>1. task'[u] = task[u] /\ KindOf(u) \in Kind
        BY <1>1, KindType DEF Becomes
    <2>2. Trims(u)'
        BY <1>0, <2>1 DEF Snapshots, Trims
    <2>3. KindOf(u) = k => Overlap(k)
        BY <1>6 DEF Overlap
    <2>4. Sole(u)'
        BY <1>2, <1>3, <2>1, <2>3 DEF Snapshots, Sole, Overlap
    <2> QED BY <2>2, <2>4
<1>7. Trims(t)'
    BY <1>1 DEF Trims, Becomes
<1>8. Sole(t)'
    <2>1. task[t].at \in Nat /\ s \in Nat /\ newest[k] \in Nat /\ local[k] \subseteq Nat
        BY <1>4, Numbers
    <2>2. ~Overlap(k) => (\A r \in local[k] : r <= task[t].at) /\ newest[k] <= task[t].at
        BY DEF Snapshots, Sole
    <2> QED BY <1>1, <1>2, <1>4, <2>1, <2>2 DEF Sole, Becomes, Overlap
<1> QED BY <1>5, <1>6, <1>7, <1>8 DEF Snapshots

\* A snapshot is whole, and of a task that is alone the newest.
LEMMA DoneSnapshots ==
    ASSUME BackupsTypeOK, BackupsTypeOK', Snapshots, NEW t \in Task, LocalDone(t)
    PROVE  Snapshots'
<1> DEFINE k == KindOf(t)
           s == task[t].at
<1>1. Becomes(t, "glob", s, task[t].old, task[t].good) /\ task[t].pc = "copy"
    BY LocalTask DEF LocalDone, At
<1>2. /\ whole' = [whole EXCEPT ![k] = @ \cup ({s} \cap local[k])]
      /\ newest' = [newest EXCEPT ![k] = IF s > @ /\ s \in local[k] THEN s ELSE @]
      /\ local' = local /\ begun' = begun
    BY DEF LocalDone
<1>3. /\ k \in Kind
      /\ whole'[k] = whole[k] \cup ({s} \cap local[k])
      /\ newest'[k] = IF s > newest[k] /\ s \in local[k] THEN s ELSE newest[k]
      /\ \A j \in Kind \ {k} : whole'[j] = whole[j] /\ newest'[j] = newest[j]
    BY <1>2, KindType DEF BackupsTypeOK
<1>4. ASSUME NEW j \in Kind PROVE Held(j)'
    <2>1. Held(j)
        BY DEF Snapshots
    <2> QED BY <1>2, <1>3, <2>1 DEF Held, Outdone, Overlap
<1>5. ASSUME NEW u \in Task \ {t} PROVE Trims(u)' /\ Sole(u)'
    <2>1. task'[u] = task[u] /\ KindOf(u) \in Kind
        BY <1>1, KindType DEF Becomes
    <2>2. Trims(u)'
        BY <1>2, <2>1 DEF Snapshots, Trims, Outdone
    <2>3. KindOf(u) = k => Overlap(k)
        BY <1>5 DEF Overlap
    <2>4. Sole(u)'
        BY <1>2, <1>3, <2>1, <2>3 DEF Snapshots, Sole, Overlap
    <2> QED BY <2>2, <2>4
<1>6. Trims(t)'
    BY <1>1 DEF Trims, Becomes
<1>7. Sole(t)'
    <2>1. s \in Nat /\ newest[k] \in Nat
        BY <1>3, Numbers
    <2>2. ~Overlap(k) => /\ \A r \in local[k] : r <= s
                         /\ newest[k] <= s /\ s \in local[k]
        BY <1>1 DEF Snapshots, Sole
    <2>3. ~Overlap(k) => newest'[k] = s
        BY <1>3, <2>1, <2>2
    <2> QED BY <1>1, <1>2, <2>1, <2>2, <2>3 DEF Sole, Becomes, Overlap
<1> QED BY <1>4, <1>5, <1>6, <1>7 DEF Snapshots

\* What glob finds stale has been outdone, and is older than another.
LEMMA StaleOlder ==
    ASSUME BackupsTypeOK, NEW k \in Kind, local[k] \subseteq begun[k],
           NEW x \in Stale(local[k], Keep[k])
    PROVE  x \in Stamp /\ Outdone(k, x) /\ \E r \in local[k] : r > x
<1> DEFINE L == {r \in local[k] : r > x}
           B == {s \in begun[k] : s > x}
<1>1. x \in Stamp /\ Cardinality(L) >= Keep[k]
    BY Numbers DEF Stale
<1>2. L \subseteq B /\ IsFiniteSet(B)
    BY Numbers, FS_Subset
<1>3. Cardinality(L) \in Nat /\ Cardinality(B) \in Nat /\ Cardinality(L) <= Cardinality(B)
    BY <1>2, FS_Subset, FS_CardinalityType
<1>4. Keep[k] \in Nat \ {0}
    BY Numbers
<1>5. L # {}
    BY <1>1, <1>4, FS_EmptySet
<1> QED BY <1>1, <1>3, <1>4, <1>5 DEF Outdone

\* What glob lists as stale has been outdone.
LEMMA GlobSnapshots ==
    ASSUME BackupsTypeOK, BackupsTypeOK', Snapshots, NEW t \in Task, Glob(t)
    PROVE  Snapshots'
<1> DEFINE k == KindOf(t)
           S == Stale(local[k], Keep[k])
<1>1. /\ Becomes(t, "trim", task[t].at, S, task[t].good) /\ task[t].pc = "glob"
      /\ UNCHANGED <<local, whole, newest, begun>>
    BY LocalTask DEF Glob, At, files, record
<1>2. \A j \in Kind : Held(j)'
    BY <1>1 DEF Snapshots, Held, Outdone, Overlap
<1>3. ASSUME NEW u \in Task \ {t} PROVE Trims(u)' /\ Sole(u)'
    BY <1>1, <1>3 DEF Snapshots, Trims, Sole, Outdone, Overlap, Becomes
<1>4. k \in Kind /\ local[k] \subseteq begun[k]
    BY KindType DEF Snapshots, Held
<1>5. \A x \in S : x \in Stamp /\ Outdone(k, x) /\ \E r \in local[k] : r > x
    BY <1>4, StaleOlder
<1>6. Trims(t)'
    BY <1>1, <1>5 DEF Trims, Outdone, Becomes
<1>7. Sole(t)'
    <2>1. ~Overlap(k) => /\ \A s \in local[k] : s <= task[t].at
                         /\ newest[k] <= task[t].at /\ newest[k] = task[t].at
        BY <1>1 DEF Snapshots, Sole
    <2>2. ASSUME ~Overlap(k), NEW x \in S PROVE x < newest[k]
        <3>1. PICK r \in local[k] : r > x
            BY <1>5
        <3>2. r \in Nat /\ x \in Nat /\ newest[k] \in Nat
            BY <1>4, <1>5, Numbers
        <3> QED BY <2>1, <2>2, <3>1, <3>2
    <2> QED BY <1>1, <2>1, <2>2 DEF Sole, Becomes, Overlap
<1> QED BY <1>2, <1>3, <1>6, <1>7 DEF Snapshots

\* A stale snapshot goes; of a task that is alone it is not the newest.
LEMMA TrimSnapshots ==
    ASSUME BackupsTypeOK, BackupsTypeOK', Snapshots, NEW t \in Task, NEW s \in Stamp, Trim(t, s)
    PROVE  Snapshots'
<1> DEFINE k == KindOf(t)
<1>1. /\ Becomes(t, "trim", task[t].at, task[t].old \ {s}, task[t].good)
      /\ task[t].pc = "trim" /\ s \in task[t].old
    BY LocalTask DEF Trim, At
<1>2. /\ local' = [local EXCEPT ![k] = @ \ {s}]
      /\ whole' = [whole EXCEPT ![k] = @ \ {s}]
      /\ newest' = newest /\ begun' = begun
    BY DEF Trim, record
<1>3. /\ k \in Kind /\ local'[k] = local[k] \ {s} /\ whole'[k] = whole[k] \ {s}
      /\ \A j \in Kind \ {k} : local'[j] = local[j] /\ whole'[j] = whole[j]
    BY <1>2, KindType DEF BackupsTypeOK
<1>4. Outdone(k, s) /\ (~Overlap(k) => s < newest[k])
    BY <1>1 DEF Snapshots, Trims, Sole
<1>5. ASSUME NEW j \in Kind PROVE Held(j)'
    <2>1. Held(j)
        BY DEF Snapshots
    <2>2. CASE j = k
        <3>1. ~Overlap(k) => s # newest[k]
            BY <1>3, <1>4, Numbers
        <3> QED BY <1>2, <1>3, <1>4, <2>1, <2>2, <3>1 DEF Held, Outdone, Overlap
    <2>3. CASE j # k
        BY <1>2, <1>3, <2>1, <2>3 DEF Held, Outdone, Overlap
    <2> QED BY <2>2, <2>3
<1>6. ASSUME NEW u \in Task \ {t} PROVE Trims(u)' /\ Sole(u)'
    <2>1. task'[u] = task[u] /\ KindOf(u) \in Kind
        BY <1>1, KindType DEF Becomes
    <2>2. Trims(u)'
        BY <1>2, <2>1 DEF Snapshots, Trims, Outdone
    <2>3. KindOf(u) = k => Overlap(k)
        BY <1>6 DEF Overlap
    <2>4. Sole(u)'
        BY <1>2, <1>3, <2>1, <2>3 DEF Snapshots, Sole, Overlap
    <2> QED BY <2>2, <2>4
<1>7. Trims(t)' /\ Sole(t)'
    BY <1>1, <1>2, <1>3 DEF Snapshots, Trims, Sole, Outdone, Overlap, Becomes
<1> QED BY <1>5, <1>6, <1>7 DEF Snapshots

\* Every step of every task.
LEMMA SnapshotsStep ==
    ASSUME BackupsTypeOK, BackupsTypeOK', Snapshots, NEW t \in Task, BackupStep(t)
    PROVE  Snapshots'
<1> DEFINE Away == /\ \A u \in Task \ {t} : task'[u] = task[u]
                   /\ task'[t].pc \notin {"copy", "glob", "trim"}
                   /\ task'[t].at >= task[t].at
<1>1. CASE LocalFails(t) \/ Trimmed(t)
    <2>0. Becomes(t, "idle", task[t].at, {}, FALSE)
        BY <1>1, LocalTask
    <2>1. Away
        BY <2>0, Numbers DEF Becomes
    <2>2. UNCHANGED <<local, whole, newest, begun>>
        BY <1>1 DEF LocalFails, Trimmed, files, record
    <2> QED BY <2>1, <2>2, SnapshotsApart
<1>2. ASSUME NEW s \in Stamp, OffsiteBegin(t, s) PROVE Snapshots'
    <2>1. Away
        BY <1>2, OffsiteTask DEF Becomes
    <2>2. UNCHANGED <<local, whole, newest, begun>>
        BY <1>2 DEF OffsiteBegin
    <2> QED BY <2>1, <2>2, SnapshotsApart
<1>3. CASE Onward(t)
    <2>1. Away
        BY <1>3, OnwardTask, Numbers DEF Becomes
    <2>2. UNCHANGED <<local, whole, newest, begun>>
        BY <1>3 DEF Onward, SnapshotDone, TarBegin, TarEnd, Upload, OffsiteFails, ListObjects,
                    Prune, ReportOk, ReportError, UnlinkSnapshot, files, record
    <2> QED BY <2>1, <2>2, SnapshotsApart
<1>4. CASE Over(t)
    <2>0. Becomes(t, "idle", task[t].at, {}, FALSE)
        BY <1>4, OffsiteTask
    <2>1. Away
        BY <2>0, Numbers DEF Becomes
    <2>2. UNCHANGED <<local, whole, newest, begun>>
        BY <1>4 DEF Over, SnapshotFails, UnlinkArchive, UnlinkFails, files, record
    <2> QED BY <2>1, <2>2, SnapshotsApart
<1>5. CASE VerifyBegin(t) \/ Latest(t) \/ Fetch(t) \/ VerifyFails(t) \/ Check(t)
    <2>1. \E old, good : \E pc \in {"latest", "idle", "fetch", "check"} :
              Becomes(t, pc, task[t].at, old, good)
        BY <1>5, VerifyTask
    <2>2. Away
        BY <2>1, Numbers DEF Becomes
    <2>3. UNCHANGED <<local, whole, newest, begun>>
        BY <1>5 DEF VerifyBegin, Latest, Fetch, VerifyFails, Check, files, record
    <2> QED BY <2>2, <2>3, SnapshotsApart
<1> QED BY <1>1, <1>2, <1>3, <1>4, <1>5, BeginSnapshots, DoneSnapshots, GlobSnapshots,
           TrimSnapshots
        DEF BackupStep, Onward, Over

\* Snapshots outlast the process.
LEMMA SnapshotsCrash ==
    ASSUME BackupsTypeOK, BackupsTypeOK', Snapshots, BackupsCrash
    PROVE  Snapshots'
<1>1. \A t \in Task : task'[t].pc = "idle" /\ task'[t].at >= task[t].at
    BY CrashTask, Numbers
<1>2. UNCHANGED <<local, whole, newest, begun>>
    BY DEF BackupsCrash, files
<1> QED BY <1>1, <1>2, SnapshotsApart

-----------------------------------------------------------------------------
(* The backups.                                                            *)

BackupsInv == BackupsTypeOK /\ Named /\ Owned /\ Offsite /\ Snapshots

\* No file, no object and no report.
LEMMA BackupsStart == BackupsInit => BackupsInv
<1> SUFFICES ASSUME BackupsInit PROVE BackupsInv
    OBVIOUS
<1>0. 0 \in 0 .. MaxTime /\ 0 \in 0 .. MaxErrors
    BY TimeAssumption
<1>1. Idle \in TaskState /\ Idle.pc = "idle" /\ Idle.at = 0
    BY <1>0 DEF Idle, TaskState, PC
<1>2. /\ task \in [Task -> TaskState]
      /\ \A t \in Task : task[t].pc = "idle" /\ task[t].at = 0
    BY <1>1 DEF BackupsInit
<1>3. BackupsTypeOK
    BY <1>0, <1>2 DEF BackupsInit, BackupsTypeOK, TaskState, Report
<1>4. Named /\ Owned
    BY <1>2 DEF BackupsInit, Named, Owned, AtOffsite
<1>5. Bucket /\ Reported
    BY DEF BackupsInit, Bucket, Reported
<1>6. \A t \in Task : Course(t) /\ Knows(t) /\ Trims(t)
    BY <1>2 DEF Course, Knows, Trims, AtOffsite
<1>7. (\A k \in Kind : Held(k)) /\ \A t \in Task : Sole(t)
    BY <1>2, KindType DEF BackupsInit, Held, Sole
<1> QED BY <1>3, <1>4, <1>5, <1>6, <1>7 DEF BackupsInv, Offsite, Snapshots

\* Each step keeps the types first, and with them the rest.
LEMMA BackupsKept == BackupsInv /\ [BackupsNext]_backupVars => BackupsInv'
<1> SUFFICES ASSUME BackupsInv, [BackupsNext]_backupVars PROVE BackupsInv'
    OBVIOUS
<1> USE DEF BackupsInv
<1>1. ASSUME NEW t \in Task, BackupStep(t) PROVE BackupsInv'
    <2>1. BackupsTypeOK' /\ Named'
        BY <1>1, LocalTypes, OnwardTypes, OffsiteTypes, VerifyTypes
           DEF BackupStep, Onward, Over
    <2>2. Owned'
        BY <1>1, OwnedStep
    <2>3. Offsite'
        BY <1>1, ElsewhereOffsite, BeginOffsite, OnwardOffsite, EndOffsite
           DEF BackupStep, Elsewhere, Onward, Over
    <2>4. Snapshots'
        BY <1>1, <2>1, SnapshotsStep
    <2> QED BY <2>1, <2>2, <2>3, <2>4
<1>2. CASE BackupsCrash
    <2>1. BackupsTypeOK' /\ Named'
        BY <1>2, CrashTypes
    <2> QED BY <1>2, <2>1, OwnedCrash, CrashOffsite, SnapshotsCrash
<1>3. CASE UNCHANGED backupVars
    <2> USE <1>3 DEF backupVars, files, objects, reports, record
    <2>1. BackupsTypeOK'
        BY DEF BackupsTypeOK
    <2>2. Named' /\ Owned'
        BY DEF Named, Owned, Holds, AtOffsite
    <2>3. Bucket' /\ Reported'
        BY DEF Offsite, Bucket, Reported, Enough, Later
    <2>4. \A t \in Task : Course(t)' /\ Knows(t)'
        BY DEF Offsite, Course, Knows, Enough, Later, AtOffsite
    <2>5. Snapshots'
        BY <2>1, SnapshotsApart
    <2> QED BY <2>1, <2>2, <2>3, <2>4, <2>5 DEF Offsite
<1> QED BY <1>1, <1>2, <1>3 DEF BackupsNext

\* The invariant of the backups.
LEMMA BackupsInvariant == BackupsSpec => []BackupsInv
BY BackupsStart, BackupsKept, PTL DEF BackupsSpec

\* The invariant has the properties.
LEMMA BackupsPromise == BackupsInv => NewestSnapshotKept /\ ReportsTrue /\ NothingStrays
<1> SUFFICES ASSUME BackupsInv PROVE NewestSnapshotKept /\ ReportsTrue /\ NothingStrays
    OBVIOUS
<1>1. NewestSnapshotKept
    BY DEF BackupsInv, Snapshots, Held, Outdone, NewestSnapshotKept
<1>2. ReportsTrue
    BY Reports DEF BackupsInv
<1>3. NothingStrays
    BY DEF BackupsInv, Owned, Holds, NothingStrays
<1> QED BY <1>1, <1>2, <1>3

\* Neither unfinished snapshots nor trimming by others cost the last good one
\* of a task that is alone with its kind; where requests overlap it may go
\* only when as many as are kept were begun after it.
THEOREM SnapshotKept == BackupsSpec => []NewestSnapshotKept
BY BackupsInvariant, BackupsPromise, PTL

\* A successful backup or restore test that the settings page shows is of an
\* object that is whole in the bucket, or that as many as are kept arrived after.
THEOREM ReportsHold == BackupsSpec => []ReportsTrue
BY BackupsInvariant, BackupsPromise, PTL

\* An offsite backup's copy of the database and its archive are in
\* data/backups only while it runs, except after an error of the first
\* snapshot, an error of one of the two deletions in the finally, or an end of
\* the process.
THEOREM NothingLeft == BackupsSpec => []NothingStrays
BY BackupsInvariant, BackupsPromise, PTL

-----------------------------------------------------------------------------
(* The alerts.                                                             *)

\* The alerts whose turn in this round is over.
Passed == CASE round = "storage" -> {"disk"}
            [] round = "queue" -> {"disk", "storage"}
            [] round = "done" -> Alert
            [] OTHER -> {}

\* An alert not remembered, nor sent in this round, has been sent at most as
\* often as something went wrong.
Quiet == \A a \in Alert : a \notin alerted \cup (seen \cap Passed) => told[a] <= mishaps

AlertsInv == AlertsTypeOK /\ AlertedOnce /\ Quiet

\* Nothing is remembered, and nothing has been sent.
LEMMA AlertsStart == AlertsInit => AlertsInv
BY ChangesAssumption
   DEF AlertsInit, AlertsInv, AlertsTypeOK, AlertedOnce, Quiet, Passed, Alert, Round

\* Types are kept by every step.
LEMMA AlertsTypes == AlertsTypeOK /\ [AlertsNext]_alertVars => AlertsTypeOK'
<1> SUFFICES ASSUME AlertsTypeOK, [AlertsNext]_alertVars PROVE AlertsTypeOK'
    OBVIOUS
<1> USE ChangesAssumption
<1>1. CASE LookAtDisk
    BY <1>1 DEF LookAtDisk, AlertsTypeOK, Round, Wrong, Alert
<1>2. CASE Look
    BY <1>2 DEF Look, AlertsTypeOK, Round, Wrong, Alert
<1>3. ASSUME NEW a \in Alert, Send(a) PROVE AlertsTypeOK'
    BY <1>3 DEF Send, AlertsTypeOK, Round, After, Alert
<1>4. CASE Remember
    BY <1>4 DEF Remember, AlertsTypeOK, Round
<1>5. ASSUME NEW a \in Alert, SendFails(a) PROVE AlertsTypeOK'
    BY <1>5 DEF SendFails, Mishap, AlertsTypeOK, Round
<1>6. CASE Change
    <2>1. changes' \in 0 .. MaxChanges
        BY <1>6 DEF Change, AlertsTypeOK
    <2>2. high' \subseteq {"disk", "queue"} /\ unhealthy' \subseteq Backend
        BY <1>6 DEF Change, AlertsTypeOK
    <2> QED BY <1>6, <2>1, <2>2 DEF Change, AlertsTypeOK
<1>7. CASE Restart
    BY <1>7 DEF Restart, Mishap, AlertsTypeOK, Round
<1>8. CASE UNCHANGED alertVars
    BY <1>8 DEF alertVars, AlertsTypeOK
<1> QED BY <1>1, <1>2, <1>3, <1>4, <1>5, <1>6, <1>7, <1>8 DEF AlertsNext, RoundStep

\* Each message is paid for: by the alert being remembered, or by a mishap.
LEMMA AlertsCount == AlertsInv /\ [AlertsNext]_alertVars => AlertedOnce' /\ Quiet'
<1> SUFFICES ASSUME AlertsInv, [AlertsNext]_alertVars PROVE AlertedOnce' /\ Quiet'
    OBVIOUS
<1> USE ChangesAssumption
<1>t. /\ mishaps \in Nat
      /\ \A a \in Alert : told[a] \in Nat
    BY DEF AlertsInv, AlertsTypeOK
<1>1. CASE LookAtDisk
    BY <1>1, <1>t DEF LookAtDisk, AlertsInv, AlertedOnce, Quiet, Passed
<1>2. CASE Look
    BY <1>2, <1>t DEF Look, AlertsInv, AlertedOnce, Quiet, Passed
<1>3. ASSUME NEW a \in Alert, Send(a) PROVE AlertedOnce' /\ Quiet'
    <2> USE DEF Send, AlertsInv, AlertsTypeOK
    <2>1. Passed' = Passed \cup {a} /\ a \notin Passed
        BY <1>3 DEF Passed, After, Alert
    <2>2. CASE a \in seen \ alerted
        <3>1. told[a] <= mishaps
            BY <2>1, <2>2 DEF Quiet
        <3>2. told' = [told EXCEPT ![a] = @ + 1]
            BY <1>3, <2>2
        <3> QED BY <1>3, <1>t, <2>1, <2>2, <3>1, <3>2 DEF AlertedOnce, Quiet
    <2>3. CASE a \notin seen \ alerted
        BY <1>3, <1>t, <2>1, <2>3 DEF AlertedOnce, Quiet
    <2> QED BY <2>2, <2>3
<1>4. CASE Remember
    <2>1. /\ alerted' = seen
          /\ Passed = Alert
          /\ Passed' = {}
          /\ told' = [a \in Alert |-> IF a \in seen THEN told[a] ELSE 0]
          /\ mishaps' = mishaps
        BY <1>4 DEF Remember, Passed
    <2> QED BY <2>1, <1>t DEF AlertsInv, AlertedOnce, Quiet
<1>5. ASSUME NEW a \in Alert, SendFails(a) PROVE AlertedOnce' /\ Quiet'
    <2>1. /\ told[a] <= mishaps
          /\ told \in [Alert -> Nat]
        BY <1>5 DEF SendFails, AlertsInv, Quiet, Passed, AlertsTypeOK, Alert
    <2>2. /\ told' \in {told, [told EXCEPT ![a] = @ + 1]}
          /\ mishaps' = mishaps + 1
        BY <1>5 DEF SendFails, Mishap
    <2>3. \A c \in Alert : told'[c] \in Nat /\ told'[c] <= mishaps'
        BY <1>t, <2>1, <2>2 DEF AlertsInv, AlertedOnce
    <2> QED BY <1>t, <2>2, <2>3 DEF AlertedOnce, Quiet
<1>6. CASE Change
    BY <1>6 DEF Change, AlertsInv, AlertedOnce, Quiet, Passed
<1>7. CASE Restart
    BY <1>7, <1>t DEF Restart, Mishap, AlertsInv, AlertedOnce, Quiet
<1>8. CASE UNCHANGED alertVars
    BY <1>8 DEF alertVars, AlertsInv, AlertedOnce, Quiet, Passed
<1> QED BY <1>1, <1>2, <1>3, <1>4, <1>5, <1>6, <1>7, <1>8 DEF AlertsNext, RoundStep

\* Each step of the alerts keeps their invariant.
LEMMA AlertsKept == AlertsInv /\ [AlertsNext]_alertVars => AlertsInv'
BY AlertsTypes, AlertsCount DEF AlertsInv

\* An alert is sent once while rounds of alert_loop find its condition, and
\* once more at most for each failed message and each restart.
THEOREM ToldOnce == AlertsSpec => []AlertedOnce
<1>1. AlertsInv => AlertedOnce
    BY DEF AlertsInv
<1> QED BY AlertsStart, AlertsKept, <1>1, PTL DEF AlertsSpec

-----------------------------------------------------------------------------
(* Both.                                                                   *)

\* Whichever runs, the other rests.
LEMMA Both == Spec => [](BackupsInv /\ AlertsInv)
<1>1. Init => BackupsInv /\ AlertsInv
    BY BackupsStart, AlertsStart DEF Init
<1>2. BackupsInv /\ AlertsInv /\ [Next]_vars => BackupsInv' /\ AlertsInv'
    <2>1. [Next]_vars => [BackupsNext]_backupVars /\ [AlertsNext]_alertVars
        BY DEF Next, vars, BackupsRun, AlertsRun
    <2> QED BY <2>1, BackupsKept, AlertsKept
<1> QED BY <1>1, <1>2, PTL DEF Spec

\* The states of both are as declared, for any requests, names, numbers of
\* copies kept, backends, errors and restarts.
THEOREM OperationsTyped == Spec => []OperationsTypeOK
<1>1. BackupsInv /\ AlertsInv => OperationsTypeOK
    BY DEF BackupsInv, AlertsInv, OperationsTypeOK
<1> QED BY Both, <1>1, PTL

=============================================================================

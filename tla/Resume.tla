------------------------------- MODULE Resume -------------------------------
(***************************************************************************)
(* The bytes of a replication job in worker.py: resume_download continues  *)
(* the .part file that an earlier attempt left, process uploads it, asks   *)
(* S3 for the size, and reports.  In Replication a download is one step    *)
(* and a .part is all or nothing; here it grows chunk by chunk, survives   *)
(* errors and crashes, and the workers of one job overlap when a lease     *)
(* lapses.                                                                 *)
(*                                                                         *)
(* The module follows one job.  Of a file's content only two things count: *)
(* its length, and whether it is a beginning of the source.                *)
(***************************************************************************)
EXTENDS Naturals

CONSTANTS
    Worker,         \* workers that have the job's target
    None,
    Size,           \* size of the source
    MaxFaults       \* bound on errors, lost answers, crashes, lapses under a worker

ASSUME NoneAssumption == None \notin Worker
ASSUME SizeAssumption == Size \in Nat \ {0}
ASSUME FaultsAssumption == MaxFaults \in Nat

VARIABLES
    holder,     \* worker with the lease, None when the job is free
    recorded,   \* the job was completed
    target,     \* the object on the target backend, of no bytes when there is none
    pc,         \* what each worker is at
    part,       \* part[w]: its .part file
    pos,        \* pos[w]: bytes of the source before those still to come
    ignored,    \* a server has answered a Range with the whole file (history)
    faults

vars == <<holder, recorded, target, pc, part, pos, ignored, faults>>

Content == [len : Nat, right : BOOLEAN]
Empty == [len |-> 0, right |-> TRUE]
Whole == [len |-> Size, right |-> TRUE]

PC == {"idle", "open", "fetch", "upload", "head", "report", "unlink", "failed"}

TypeOK ==
    /\ holder \in Worker \cup {None}
    /\ recorded \in BOOLEAN
    /\ target \in Content
    /\ pc \in [Worker -> PC]
    /\ part \in [Worker -> Content]
    /\ pos \in [Worker -> 0 .. Size]
    /\ ignored \in BOOLEAN
    /\ faults \in 0 .. MaxFaults

Init ==
    /\ holder = None
    /\ recorded = FALSE
    /\ target = Empty
    /\ pc = [w \in Worker |-> "idle"]
    /\ part = [w \in Worker |-> Empty]
    /\ pos = [w \in Worker |-> 0]
    /\ ignored = FALSE
    /\ faults = 0

At(w, p) == pc[w] = p
Go(w, p) == pc' = [pc EXCEPT ![w] = p]
Fault == faults < MaxFaults /\ faults' = faults + 1
job == <<holder, recorded, target>>

-----------------------------------------------------------------------------
\* The claim gives the job to one worker until its lease lapses.
Take(w) ==
    /\ At(w, "idle")
    /\ ~recorded /\ holder = None
    /\ holder' = w
    /\ Go(w, "open")
    /\ UNCHANGED <<recorded, target, part, pos, ignored, faults>>

\* Mutant: one that is too long is kept.
DownloadedAll(w) == part[w].len

\* How much of the .part counts: one that is too long is removed.
Downloaded(w) == IF part[w].len > Size THEN 0 ELSE part[w].len

\* Mutants: the file is opened with "wb"; no Range is asked for.
OpenAfresh(w) ==
    LET d == Downloaded(w) IN
    /\ At(w, "open") /\ d # Size
    /\ Go(w, "fetch")
    /\ part' = [part EXCEPT ![w] = Empty]
    /\ pos' = [pos EXCEPT ![w] = d]
    /\ UNCHANGED <<job, ignored, faults>>
OpenWithoutRange(w) ==
    LET d == Downloaded(w) IN
    /\ At(w, "open") /\ d # Size
    /\ Go(w, "fetch")
    /\ part' = [part EXCEPT ![w] = IF d = 0 THEN Empty ELSE @]
    /\ pos' = [pos EXCEPT ![w] = 0]
    /\ UNCHANGED <<job, ignored, faults>>

\* The rest is asked for; the status of the answer is not looked at, so a
\* server without Range sends everything.
Open(w) ==
    LET d == Downloaded(w) IN
    /\ At(w, "open") /\ d # Size
    /\ Go(w, "fetch")
    /\ part' = [part EXCEPT ![w] = IF d = 0 THEN Empty ELSE @]
    /\ \/ pos' = [pos EXCEPT ![w] = d] /\ UNCHANGED ignored
       \/ d # 0 /\ pos' = [pos EXCEPT ![w] = 0] /\ ignored' = TRUE
    /\ UNCHANGED <<job, faults>>

\* The .part of an earlier attempt has the whole length.
AlreadyThere(w) ==
    /\ At(w, "open") /\ Downloaded(w) = Size
    /\ Go(w, "upload")
    /\ UNCHANGED <<job, part, pos, ignored, faults>>

\* The next k bytes go to the end of the .part.
Write(w, k) ==
    /\ At(w, "fetch")
    /\ pos[w] + k <= Size
    /\ part' = [part EXCEPT ![w] = [len |-> @.len + k, right |-> @.right /\ @.len = pos[w]]]
    /\ pos' = [pos EXCEPT ![w] = @ + k]
    /\ UNCHANGED <<job, pc, ignored, faults>>

\* Mutant: the size is left to the check of the upload.
EndUnchecked(w) ==
    /\ At(w, "fetch")
    /\ \/ pos[w] = Size /\ UNCHANGED faults
       \/ Fault
    /\ Go(w, "upload")
    /\ UNCHANGED <<job, part, pos, ignored>>

\* The body ends, too early perhaps, and the size of the .part is compared.
EndOfBody(w) ==
    /\ At(w, "fetch")
    /\ \/ pos[w] = Size /\ UNCHANGED faults
       \/ Fault
    /\ Go(w, IF part[w].len = Size THEN "upload" ELSE "failed")
    /\ UNCHANGED <<job, part, pos, ignored>>

\* upload_file replaces the object as a whole, whoever else wrote it.
Upload(w) ==
    /\ At(w, "upload")
    /\ target' = part[w]
    /\ Go(w, "head")
    /\ UNCHANGED <<holder, recorded, part, pos, ignored, faults>>

HeadObject(w) ==
    /\ At(w, "head")
    /\ Go(w, IF target.len = Size THEN "report" ELSE "failed")
    /\ UNCHANGED <<job, part, pos, ignored, faults>>

Accept(w) == holder = w /\ recorded' = TRUE /\ holder' = None

\* Only the holder of the lease is heard; its answer may be lost.
Complete(w) ==
    /\ At(w, "report")
    /\ \/ Accept(w) /\ Go(w, "unlink") /\ UNCHANGED faults
       \/ Accept(w) /\ Go(w, "failed") /\ Fault
       \/ holder # w /\ Go(w, "failed") /\ UNCHANGED <<holder, recorded, faults>>
    /\ UNCHANGED <<target, part, pos, ignored>>

Unlink(w) ==
    /\ At(w, "unlink")
    /\ part' = [part EXCEPT ![w] = Empty]
    /\ Go(w, "idle")
    /\ UNCHANGED <<job, pos, ignored, faults>>

\* Any call raises; an upload may have been stored all the same.
Raises(w) ==
    /\ pc[w] \in {"open", "fetch", "upload", "head", "report"}
    /\ Fault
    /\ Go(w, "failed")
    /\ part' = [part EXCEPT ![w] = IF At(w, "open") /\ @.len > Size THEN Empty ELSE @]
    /\ \/ UNCHANGED target
       \/ At(w, "upload") /\ target' = part[w]
    /\ UNCHANGED <<holder, recorded, pos, ignored>>

\* The job goes back to the queue, if the worker still has it and is heard.
ReportFailure(w) ==
    /\ At(w, "failed")
    /\ Go(w, "idle")
    /\ \/ holder' = (IF holder = w THEN None ELSE holder) /\ UNCHANGED faults
       \/ Fault /\ UNCHANGED holder
    /\ UNCHANGED <<recorded, target, part, pos, ignored>>

-----------------------------------------------------------------------------
\* A restarted worker knows nothing but its .part files.
Crash(w) ==
    /\ ~At(w, "idle")
    /\ Fault
    /\ Go(w, "idle")
    /\ UNCHANGED <<job, part, pos, ignored>>

\* The lease of a worker that is at the job is renewed, unless that fails.
Lapse ==
    /\ holder # None
    /\ IF At(holder, "idle") THEN UNCHANGED faults ELSE Fault
    /\ holder' = None
    /\ UNCHANGED <<recorded, target, pc, part, pos, ignored>>

Step(w) ==
    \/ Open(w) \/ AlreadyThere(w) \/ (\E k \in 1 .. Size : Write(w, k)) \/ EndOfBody(w)
    \/ Upload(w) \/ HeadObject(w) \/ Complete(w) \/ Unlink(w) \/ Raises(w)
    \/ ReportFailure(w)

Next ==
    \/ \E w \in Worker : Take(w) \/ Step(w) \/ Crash(w)
    \/ Lapse

Spec == Init /\ [][Next]_vars

\* Workers poll and go on, and a lease nobody renews lapses.
FairSpec ==
    /\ Spec
    /\ \A w \in Worker : WF_vars(Take(w)) /\ WF_vars(Step(w) /\ UNCHANGED faults)
    /\ WF_vars(Lapse /\ UNCHANGED faults)

-----------------------------------------------------------------------------
(* Properties.                                                             *)

\* "The database already points at the verified target"
\* (replication_api.py:85): the object of a completed job has its size for
\* good, whatever workers that lost the job upload afterwards.
TargetComplete == recorded => target.len = Size

\* Only sizes are compared.  That the bytes are the source's rests on the
\* servers' answering a Range with what was asked for.
TargetWhole == recorded /\ ~ignored => target = Whole

\* The job is done in the end, though attempts leave .part files that are
\* short, too long, or wrong.
JobDone == <>recorded

=============================================================================

------------------------------ MODULE Backups ------------------------------
(***************************************************************************)
(* Snapshots of the database.  automatic_backup_loop makes one each day    *)
(* and after each start, keeps the newest few, and may go on to send an    *)
(* archive to S3; the panel does either on request, and tests the newest   *)
(* archive.  Names carry the second in which a backup began.  Everything   *)
(* may fail or be cut off by the end of the process.                       *)
(*                                                                         *)
(* sqlite3's backup is one transaction on the file it writes: of two into  *)
(* the same file the first to commit makes it whole, and neither undoes    *)
(* the other.  A tar file is written in place.                             *)
(***************************************************************************)
EXTENDS Naturals, FiniteSets

CONSTANTS
    Loop,       \* the task of automatic_backup_loop
    Panel,      \* requests to the panel
    Keep,       \* how many are kept: 7 "auto", 10 "admin", 7 "offsite"
    MaxTime,    \* bound on the seconds in which backups begin
    MaxErrors   \* bound on errors and ends of the process

ASSUME PanelAssumption == Loop \notin Panel
ASSUME KeepAssumption == Keep \in [{"auto", "admin", "offsite"} -> Nat \ {0}]
ASSUME TimeAssumption == MaxTime \in Nat /\ MaxErrors \in Nat

VARIABLES
    now,        \* the second of the latest backup
    local,      \* local[k]: names of the k-*.sqlite3 in data/backups
    whole,      \* whole[k]: those that hold the database
    snapshot,   \* names of the offsite-*.sqlite3
    archive,    \* names of the offsite-*.tar.gz: absent, unfinished or whole
    bucket,     \* the objects under system-backups/: absent, unfinished or whole
    modified,   \* modified[s]: LastModified of the object s, counted in arrivals;
                \* 0 before the first; it outlasts the object (history)
    arrivals,
    status,     \* last_offsite_backup_status
    tested,     \* last_restore_test_status
    task,
    newest,     \* newest[k]: name of the latest whole snapshot (history)
    begun,      \* begun[k]: names snapshots were begun with (history)
    twice,      \* names two offsite backups were given (history)
    stray,      \* names whose files nobody is left to delete (history)
    errors

files == <<local, whole, snapshot, archive>>
reports == <<status, tested>>
objects == <<bucket, modified, arrivals>>
record == <<newest, begun, twice, stray>>
backupVars == <<now, files, objects, reports, task, record, errors>>

Task == {Loop} \cup Panel
Kind == {"auto", "admin"}
Stamp == 1 .. MaxTime
Report == [says : {"nothing", "ok", "error"}, key : 0 .. MaxTime]

\* at: the name; old: what is to be deleted; good: what was downloaded.
PC == {"idle", "copy", "glob", "trim", "snapshot", "tar", "tarring", "upload",
       "list", "prune", "ok", "failed", "unlink", "erase", "latest", "fetch", "check"}
Idle == [pc |-> "idle", at |-> 0, old |-> {}, good |-> FALSE]

BackupsTypeOK ==
    /\ now \in 0 .. MaxTime
    /\ local \in [Kind -> SUBSET Stamp]
    /\ whole \in [Kind -> SUBSET Stamp]
    /\ snapshot \subseteq Stamp
    /\ archive \in [Stamp -> {"none", "part", "whole"}]
    /\ bucket \in [Stamp -> {"none", "part", "whole"}]
    /\ modified \in [Stamp -> Nat]
    /\ arrivals \in Nat
    /\ status \in Report
    /\ tested \in Report
    /\ task \in [Task -> [pc : PC, at : 0 .. MaxTime, old : SUBSET Stamp, good : BOOLEAN]]
    /\ newest \in [Kind -> 0 .. MaxTime]
    /\ begun \in [Kind -> SUBSET Stamp]
    /\ twice \subseteq Stamp
    /\ stray \subseteq Stamp
    /\ errors \in 0 .. MaxErrors

BackupsInit ==
    /\ now = 0
    /\ local = [k \in Kind |-> {}]
    /\ whole = [k \in Kind |-> {}]
    /\ snapshot = {}
    /\ archive = [s \in Stamp |-> "none"]
    /\ bucket = [s \in Stamp |-> "none"]
    /\ modified = [s \in Stamp |-> 0]
    /\ arrivals = 0
    /\ status = [says |-> "nothing", key |-> 0]
    /\ tested = [says |-> "nothing", key |-> 0]
    /\ task = [t \in Task |-> Idle]
    /\ newest = [k \in Kind |-> 0]
    /\ begun = [k \in Kind |-> {}]
    /\ twice = {}
    /\ stray = {}
    /\ errors = 0

At(t, pc) == task[t].pc = pc

\* An offsite backup is under way in task t.
AtOffsite(t) == task[t].pc \in {"snapshot", "tar", "tarring", "upload", "list",
                                "prune", "ok", "failed", "unlink", "erase"}

Goto(t, pc) == task' = [task EXCEPT ![t].pc = pc]
End(t) == task' = [task EXCEPT ![t] = [Idle EXCEPT !.at = task[t].at]]
Error == errors < MaxErrors /\ errors' = errors + 1
KindOf(t) == IF t = Loop THEN "auto" ELSE "admin"

\* A backup begins in the second s.  One task does not begin two in a second.
Begins(t, s, pc) ==
    /\ s \in {now, now + 1} \cap Stamp
    /\ s > task[t].at
    /\ now' = s
    /\ task' = [task EXCEPT ![t].pc = pc, ![t].at = s]

\* All of the set of names S but the newest n.
Stale(S, n) == {s \in S : Cardinality({r \in S : r > s}) >= n}

-----------------------------------------------------------------------------
(* Local snapshots.                                                        *)

LocalBegin(t, s) ==
    /\ At(t, "idle")
    /\ Begins(t, s, "copy")
    /\ local' = [local EXCEPT ![KindOf(t)] = @ \cup {s}]
    /\ begun' = [begun EXCEPT ![KindOf(t)] = @ \cup {s}]
    /\ UNCHANGED <<whole, snapshot, archive, objects, reports, newest, twice, stray, errors>>

\* Another's trimming may have taken the file away by now.
LocalDone(t) ==
    LET k == KindOf(t)
        s == task[t].at IN
    /\ At(t, "copy")
    /\ whole' = [whole EXCEPT ![k] = @ \cup ({s} \cap local[k])]
    /\ newest' = [newest EXCEPT ![k] = IF s > @ /\ s \in local[k] THEN s ELSE @]
    /\ Goto(t, "glob")
    /\ UNCHANGED <<now, local, snapshot, archive, objects, reports, begun, twice, stray, errors>>

\* The file stays, and counts as a backup from now on.
LocalFails(t) ==
    /\ At(t, "copy") \/ (At(t, "trim") /\ (t = Loop \/ task[t].old # {}))
    /\ Error
    /\ End(t)
    /\ UNCHANGED <<now, files, objects, reports, record>>

\* Mutant: sorted without reverse=True.
GlobAscending(t) ==
    LET S == local[KindOf(t)] IN
    /\ At(t, "glob")
    /\ task' = [task EXCEPT ![t].pc = "trim",
                   ![t].old = {s \in S : Cardinality({r \in S : r < s}) >= Keep[KindOf(t)]}]
    /\ UNCHANGED <<now, files, objects, reports, record, errors>>

Glob(t) ==
    /\ At(t, "glob")
    /\ task' = [task EXCEPT ![t].pc = "trim",
                            ![t].old = Stale(local[KindOf(t)], Keep[KindOf(t)])]
    /\ UNCHANGED <<now, files, objects, reports, record, errors>>

Trim(t, s) ==
    LET k == KindOf(t) IN
    /\ At(t, "trim")
    /\ s \in task[t].old
    /\ task' = [task EXCEPT ![t].old = @ \ {s}]
    /\ local' = [local EXCEPT ![k] = @ \ {s}]
    /\ whole' = [whole EXCEPT ![k] = @ \ {s}]
    /\ UNCHANGED <<now, snapshot, archive, objects, reports, record, errors>>

\* With a backend for it, the loop goes on to an offsite backup.
Trimmed(t) ==
    /\ At(t, "trim") /\ task[t].old = {}
    /\ End(t)
    /\ UNCHANGED <<now, files, objects, reports, record, errors>>

-----------------------------------------------------------------------------
(* create_offsite_backup.                                                  *)

\* By the panel, or by the loop after its local backup.
OffsiteBegin(t, s) ==
    /\ IF t = Loop THEN At(t, "trim") /\ task[t].old = {} ELSE At(t, "idle")
    /\ \/ Begins(t, s, "snapshot")
       \/ t = Loop /\ s = task[t].at /\ s = now /\ Goto(t, "snapshot") /\ UNCHANGED now
    /\ snapshot' = snapshot \cup {s}
    /\ twice' = IF \/ \E u \in Task \ {t} : AtOffsite(u) /\ task[u].at = s
                   \/ s \in snapshot \/ archive[s] # "none" \/ modified[s] # 0
                THEN twice \cup {s} ELSE twice
    /\ UNCHANGED <<local, whole, archive, objects, reports, newest, begun, stray, errors>>

\* Before the try: no status is written and the file stays.
SnapshotFails(t) ==
    /\ At(t, "snapshot")
    /\ Error
    /\ stray' = stray \cup {task[t].at}
    /\ End(t)
    /\ UNCHANGED <<now, files, objects, reports, newest, begun, twice>>

SnapshotDone(t) ==
    /\ At(t, "snapshot")
    /\ Goto(t, "tar")
    /\ UNCHANGED <<now, files, objects, reports, record, errors>>

\* tarfile.open empties a file of this name; without the snapshot add fails.
TarBegin(t) ==
    LET s == task[t].at IN
    /\ At(t, "tar")
    /\ archive' = [archive EXCEPT ![s] = "part"]
    /\ Goto(t, IF s \in snapshot THEN "tarring" ELSE "failed")
    /\ UNCHANGED <<now, local, whole, snapshot, objects, reports, record, errors>>

\* Two that write one file may spoil it, and the first to finish deletes it.
TarEnd(t) ==
    LET s == task[t].at IN
    /\ At(t, "tarring")
    /\ IF archive[s] = "none" THEN Goto(t, "failed") /\ UNCHANGED archive
       ELSE /\ \E c \in {"whole"} \cup (IF s \in twice THEN {"part"} ELSE {}) :
                  archive' = [archive EXCEPT ![s] = c]
            /\ Goto(t, "upload")
    /\ UNCHANGED <<now, local, whole, snapshot, objects, reports, record, errors>>

\* The object arrives as the archive is now.
Arrives(s) ==
    /\ bucket' = [bucket EXCEPT ![s] = archive[s]]
    /\ modified' = [modified EXCEPT ![s] = arrivals + 1]
    /\ arrivals' = arrivals + 1

Upload(t) ==
    LET s == task[t].at IN
    /\ At(t, "upload")
    /\ IF archive[s] = "none" THEN Goto(t, "failed") /\ UNCHANGED objects
       ELSE Goto(t, "list") /\ Arrives(s)
    /\ UNCHANGED <<now, files, reports, record, errors>>

\* An error of the disk, S3 or the tables; the upload's may come after the object.
OffsiteFails(t) ==
    /\ task[t].pc \in {"tar", "tarring", "upload", "list", "prune", "ok"}
    /\ Error
    /\ Goto(t, "failed")
    /\ \/ UNCHANGED objects
       \/ At(t, "upload") /\ archive[task[t].at] # "none" /\ Arrives(task[t].at)
    /\ UNCHANGED <<now, files, reports, record>>

\* The keys under the prefix.
Objects == {s \in Stamp : bucket[s] # "none"}

\* Mutant: the newest are taken for stale.
ListAscending(t) ==
    LET Older(s) == {r \in Objects : modified[r] < modified[s]} IN
    /\ At(t, "list")
    /\ task' = [task EXCEPT ![t].pc = "prune",
                   ![t].old = {s \in Objects : Cardinality(Older(s)) >= Keep["offsite"]}]
    /\ UNCHANGED <<now, files, objects, reports, record, errors>>

\* prune_prefix lists the objects, then deletes those beyond the newest.
ListObjects(t) ==
    LET Newer(s) == {r \in Objects : modified[r] > modified[s]} IN
    /\ At(t, "list")
    /\ task' = [task EXCEPT ![t].pc = "prune",
                   ![t].old = {s \in Objects : Cardinality(Newer(s)) >= Keep["offsite"]}]
    /\ UNCHANGED <<now, files, objects, reports, record, errors>>

Prune(t) ==
    /\ At(t, "prune")
    /\ bucket' = [s \in Stamp |-> IF s \in task[t].old THEN "none" ELSE bucket[s]]
    /\ task' = [task EXCEPT ![t].pc = "ok", ![t].old = {}]
    /\ UNCHANGED <<now, files, modified, arrivals, reports, record, errors>>

ReportOk(t) ==
    /\ At(t, "ok")
    /\ status' = [says |-> "ok", key |-> task[t].at]
    /\ Goto(t, "unlink")
    /\ UNCHANGED <<now, files, objects, tested, record, errors>>

\* The report of the error may fail as well.
ReportError(t) ==
    /\ At(t, "failed")
    /\ \/ status' = [says |-> "error", key |-> 0] /\ UNCHANGED errors
       \/ Error /\ UNCHANGED status
    /\ Goto(t, "unlink")
    /\ UNCHANGED <<now, files, objects, tested, record>>

\* The finally: two deletions, each awaited.
UnlinkSnapshot(t) ==
    /\ At(t, "unlink")
    /\ snapshot' = snapshot \ {task[t].at}
    /\ Goto(t, "erase")
    /\ UNCHANGED <<now, local, whole, archive, objects, reports, record, errors>>

\* Mutant: the archive of a failed backup stays.
EraseReported(t) ==
    /\ At(t, "erase")
    /\ archive' = [archive EXCEPT ![task[t].at] = IF status.says = "ok" THEN "none" ELSE @]
    /\ End(t)
    /\ UNCHANGED <<now, local, whole, snapshot, objects, reports, record, errors>>

UnlinkArchive(t) ==
    /\ At(t, "erase")
    /\ archive' = [archive EXCEPT ![task[t].at] = "none"]
    /\ End(t)
    /\ UNCHANGED <<now, local, whole, snapshot, objects, reports, record, errors>>

\* An error of either ends the backup: the first one's costs the second deletion.
UnlinkFails(t) ==
    /\ At(t, "unlink") \/ At(t, "erase")
    /\ Error
    /\ stray' = stray \cup {task[t].at}
    /\ End(t)
    /\ UNCHANGED <<now, files, objects, reports, newest, begun, twice>>

-----------------------------------------------------------------------------
(* verify_latest_offsite_backup.                                           *)

VerifyBegin(t) ==
    /\ t \in Panel /\ At(t, "idle")
    /\ Goto(t, "latest")
    /\ UNCHANGED <<now, files, objects, reports, record, errors>>

\* latest_object_key; the key is kept in old.  Without an object it raises.
Latest(t) ==
    /\ At(t, "latest")
    /\ \/ Objects = {} /\ End(t)
       \/ \E s \in Objects :
             /\ \A r \in Objects : modified[r] <= modified[s]
             /\ task' = [task EXCEPT ![t].pc = "fetch", ![t].old = {s}]
    /\ UNCHANGED <<now, files, objects, reports, record, errors>>

Fetch(t) ==
    LET found == task[t].old \cap Objects IN
    /\ At(t, "fetch")
    /\ \/ found = {} /\ End(t)
       \/ \E s \in found :
             task' = [task EXCEPT ![t].pc = "check", ![t].good = (bucket[s] = "whole")]
    /\ UNCHANGED <<now, files, objects, reports, record, errors>>

\* Before the try: what was reported last stays.
VerifyFails(t) ==
    /\ At(t, "latest") \/ At(t, "fetch")
    /\ Error
    /\ End(t)
    /\ UNCHANGED <<now, files, objects, reports, record>>

Check(t) ==
    /\ At(t, "check")
    /\ \E k \in task[t].old :
           tested' = IF task[t].good THEN [says |-> "ok", key |-> k]
                     ELSE [says |-> "error", key |-> 0]
    /\ End(t)
    /\ UNCHANGED <<now, files, objects, status, record, errors>>

-----------------------------------------------------------------------------
\* The process ends; data/backups and the bucket stay as they are.
BackupsCrash ==
    /\ Error
    /\ \E t \in Task : ~At(t, "idle")
    /\ task' = [t \in Task |-> [Idle EXCEPT !.at = task[t].at]]
    /\ stray' = stray \cup snapshot \cup {s \in Stamp : archive[s] # "none"}
    /\ UNCHANGED <<now, files, objects, reports, newest, begun, twice>>

BackupStep(t) ==
    \/ \E s \in Stamp : LocalBegin(t, s) \/ Trim(t, s) \/ OffsiteBegin(t, s)
    \/ LocalDone(t) \/ LocalFails(t) \/ Glob(t) \/ Trimmed(t)
    \/ SnapshotDone(t) \/ SnapshotFails(t) \/ TarBegin(t) \/ TarEnd(t)
    \/ Upload(t) \/ OffsiteFails(t) \/ ListObjects(t) \/ Prune(t)
    \/ ReportOk(t) \/ ReportError(t)
    \/ UnlinkSnapshot(t) \/ UnlinkArchive(t) \/ UnlinkFails(t)
    \/ VerifyBegin(t) \/ Latest(t) \/ Fetch(t) \/ VerifyFails(t) \/ Check(t)

BackupsNext == (\E t \in Task : BackupStep(t)) \/ BackupsCrash

BackupsSpec == BackupsInit /\ [][BackupsNext]_backupVars

-----------------------------------------------------------------------------
(* Properties.                                                             *)

\* Requests to the panel may overlap; the loop is alone with its kind.
Overlap(k) == \E t, u \in Task : t # u /\ KindOf(t) = k /\ KindOf(u) = k

\* The latest snapshot that succeeded stays until a later one has: unfinished
\* files, which count as backups, and trimming by others never cost the last
\* good one ("the last seven are kept", README.md:133).  Only where requests
\* overlap an older one, late to trim, may take it away, and then as many
\* were begun after it as are kept.
NewestSnapshotKept ==
    \A k \in Kind : newest[k] # 0 =>
        \/ newest[k] \in whole[k]
        \/ Overlap(k) /\ Cardinality({s \in begun[k] : s > newest[k]}) >= Keep[k]

\* The objects that arrived after that of name s.
Later(s) == {r \in Stamp : modified[r] > modified[s]}

\* What the settings page calls a successful backup or restore test
\* (last_offsite_backup_status, last_restore_test_status) is there to be
\* restored, or as many objects as are kept have arrived later.  Two backups
\* that began in the same second, and so have one name, are excepted.
ReportsTrue ==
    \A r \in {status, tested} :
        r.says = "ok" /\ r.key \notin twice =>
            /\ r.key \in Stamp /\ modified[r.key] # 0
            /\ bucket[r.key] = "whole" \/ Cardinality(Later(r.key)) >= Keep["offsite"]

\* A database copy with everybody's files, or an archive with the key to the
\* credentials, lies in data/backups only while its backup runs.  Three events
\* except it: an error of the first snapshot, before the try; an error of one
\* of the two deletions in the finally, of which the first skips the second;
\* an end of the process.
NothingStrays ==
    \A s \in Stamp : s \in snapshot \/ archive[s] # "none" =>
        s \in stray \/ \E t \in Task : task[t].at = s /\ AtOffsite(t)

=============================================================================

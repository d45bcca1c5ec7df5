------------------------------ MODULE Lifecycle ------------------------------
(***************************************************************************)
(* The life of a registered file: its link is visited (main.py,            *)
(* download_file), its expiry passes or is extended (change_file_expiry),  *)
(* it is moved from the disk to S3 (admin_web.py, _migrate_local_files),   *)
(* and it is deleted (delete_stored_item, cleanup_expired_items,           *)
(* delete_file).  Each of these reads the row, then awaits the disk, S3    *)
(* and SQLite in turn, so they interleave at every step.                   *)
(*                                                                         *)
(* A file stands for its token, stored_name and object key.  Files with    *)
(* replication jobs are in Replication.  Errors of S3, SQLite and the disk *)
(* and restarts are limited to MaxFaults events.                           *)
(***************************************************************************)
EXTENDS Naturals

CONSTANTS
    File,           \* files registered at first
    Backend,        \* configured S3 backends
    Local,          \* backend_name 'local'
    None,
    Deleter,        \* deletions that may run at the same time
    Visitor,        \* downloads that may run at the same time
    MaxForms,       \* bound on the panel's forms: expiries and roles changed
    MaxFaults       \* bound on errors and restarts

Place == Backend \cup {Local}

ASSUME LocalAssumption == Local \notin Backend
ASSUME NoneAssumption == None \notin File \cup Place
ASSUME BoundsAssumption == MaxForms \in Nat /\ MaxFaults \in Nat

VARIABLES
    row,        \* row[f]: backend_name of the row, None when there is none
    replicas,   \* replicas[f]: backends of its rows in file_replicas
    valid,      \* files whose expires_at has not passed
    disk,       \* files in data/files
    objects,    \* objects[f]: backends with its object
    del,        \* what each deletion is at
    mig,        \* what the migration task is at
    view,       \* what each download is at
    begun,      \* files whose deletion began (history)
    crossed,    \* those migrated under a deletion that took them for local (history)
    broken,     \* those whose migration met an error or a restart (history)
    off,        \* backends with the role disabled
    forms,      \* forms used so far
    faults      \* errors and restarts so far

tables == <<row, replicas, valid>>
stores == <<disk, objects>>
history == <<begun, crossed, broken>>
counters == <<forms, faults>>
vars == <<tables, stores, off, del, mig, view, history, counters>>

\* kind: the cleanup loop or /cleanup, the bot's button, the panel's.
\* todo: rows of the query of expired_files; file, at: the row in hand, as
\* read; copies: replicas still to delete.
DelPC == {"idle", "primary", "list", "copies", "record"}
NoDeletion == [pc |-> "idle", kind |-> "cleanup", todo |-> {}, file |-> None,
               at |-> None, copies |-> {}]
DelState == [pc : DelPC, kind : {"cleanup", "bot", "panel"}, todo : SUBSET (File \X Place),
             file : File \cup {None}, at : Place \cup {None}, copies : SUBSET Backend]

\* todo: rows of local_files; left: candidates not tried; at: the one being
\* tried, then the primary; targets: replicas to make; made: `uploaded`.
MigPC == {"idle", "next", "choose", "upload", "sending", "targets", "copies", "local", "undo"}
NoMigration == [pc |-> "idle", todo |-> {}, file |-> None, left |-> {}, at |-> None,
                targets |-> {}, made |-> {}]
MigState == [pc : MigPC, todo : SUBSET File, file : File \cup {None}, left : SUBSET Backend,
             at : Backend \cup {None}, targets : SUBSET Backend, made : SUBSET Backend]

\* at: where the row said the file is; left: locations not probed; missed: a
\* location was not asked, its backend being disabled, or its probe failed.
ViewPC == {"idle", "found", "open", "probe", "gone"}
NoView == [pc |-> "idle", file |-> None, at |-> None, left |-> {}, missed |-> FALSE]
ViewState == [pc : ViewPC, file : File \cup {None}, at : Place \cup {None},
              left : SUBSET Backend, missed : BOOLEAN]

TypeOK ==
    /\ row \in [File -> Place \cup {None}]
    /\ replicas \in [File -> SUBSET Backend]
    /\ valid \subseteq File
    /\ disk \subseteq File
    /\ objects \in [File -> SUBSET Backend]
    /\ del \in [Deleter -> DelState]
    /\ mig \in MigState
    /\ view \in [Visitor -> ViewState]
    /\ begun \subseteq File /\ crossed \subseteq File /\ broken \subseteq File
    /\ off \subseteq Backend
    /\ forms \in 0 .. MaxForms
    /\ faults \in 0 .. MaxFaults

\* Registered by uploads, with the replicas their jobs have made.
Init ==
    /\ row \in [File -> Place]
    /\ replicas \in [File -> SUBSET Backend]
    /\ \A f \in File : row[f] \notin replicas[f] /\ (row[f] = Local => replicas[f] = {})
    /\ valid = File
    /\ disk = {f \in File : row[f] = Local}
    /\ objects = [f \in File |-> replicas[f] \cup ({row[f]} \cap Backend)]
    /\ del = [d \in Deleter |-> NoDeletion]
    /\ mig = NoMigration
    /\ view = [v \in Visitor |-> NoView]
    /\ begun = {} /\ crossed = {} /\ broken = {}
    /\ off = {}
    /\ forms = 0
    /\ faults = 0

Fault == faults < MaxFaults /\ faults' = faults + 1
UseForm == forms < MaxForms /\ forms' = forms + 1
Registered(f) == row[f] # None
Remove(f, b) == objects' = [objects EXCEPT ![f] = @ \ {b}]
Store(f, b) == objects' = [objects EXCEPT ![f] = @ \cup {b}]

-----------------------------------------------------------------------------
(* Expiry, and the panel's forms.                                          *)

Expire(f) ==
    /\ f \in valid
    /\ valid' = valid \ {f}
    /\ UNCHANGED <<row, replicas, stores, off, del, mig, view, history, counters>>

\* change_file_expiry: the new instant lies ahead, whatever the old one was.
Extend(f) ==
    /\ Registered(f)
    /\ UseForm
    /\ valid' = valid \cup {f}
    /\ UNCHANGED <<row, replicas, stores, off, del, mig, view, history, faults>>

\* toggle_storage and set_storage_role, which leave the files alone.
Toggle(b) ==
    /\ UseForm
    /\ off' = IF b \in off THEN off \ {b} ELSE off \cup {b}
    /\ UNCHANGED <<tables, stores, del, mig, view, history, faults>>

-----------------------------------------------------------------------------
(* Deletion.                                                               *)

Doing(d, pc) == del[d].pc = pc
InHand(d, f, at) == [del[d] EXCEPT !.pc = "primary", !.file = f, !.at = at]

\* cleanup_expired_items: one query, and then each of its rows.
BeginCleanup(d) ==
    LET expired == {f \in File : Registered(f) /\ f \notin valid} IN
    /\ Doing(d, "idle") /\ del[d].todo = {}
    /\ expired # {}
    /\ del' = [del EXCEPT ![d].todo = {<<f, row[f]>> : f \in expired}]
    /\ UNCHANGED <<tables, stores, off, mig, view, history, counters>>

NextExpired(d, f, at) ==
    /\ Doing(d, "idle")
    /\ <<f, at>> \in del[d].todo
    /\ del' = [del EXCEPT ![d] = [InHand(d, f, at) EXCEPT !.todo = @ \ {<<f, at>>}]]
    /\ UNCHANGED <<tables, stores, off, mig, view, history, counters>>

\* The button of the bot or of the panel.
BeginDeletion(d, kind, f) ==
    /\ Doing(d, "idle") /\ del[d].todo = {}
    /\ Registered(f)
    /\ del' = [del EXCEPT ![d] = [InHand(d, f, row[f]) EXCEPT !.kind = kind]]
    /\ UNCHANGED <<tables, stores, off, mig, view, history, counters>>

\* Mutant: a local file that is gone is an error, as unlink has it.
DeletePrimaryOnce(d) ==
    LET f == del[d].file
        gone == del[d].at = Local /\ del[d].kind # "panel" /\ f \notin disk IN
    /\ Doing(d, "primary")
    /\ del' = [del EXCEPT ![d] = IF gone THEN [NoDeletion EXCEPT !.todo = del[d].todo]
                                 ELSE [@ EXCEPT !.pc = "list"]]
    /\ begun' = begun \cup {f}
    /\ IF del[d].at \in Backend
       THEN Remove(f, del[d].at) /\ UNCHANGED disk
       ELSE /\ disk' = IF del[d].kind = "panel" THEN disk ELSE disk \ {f}
            /\ UNCHANGED objects
    /\ UNCHANGED <<tables, off, mig, view, crossed, broken, counters>>

\* The panel leaves a local file to the deletion of the temporary one.
DeletePrimary(d) ==
    LET f == del[d].file IN
    /\ Doing(d, "primary")
    /\ del' = [del EXCEPT ![d].pc = "list"]
    /\ begun' = begun \cup {f}
    /\ IF del[d].at \in Backend
       THEN Remove(f, del[d].at) /\ UNCHANGED disk
       ELSE /\ disk' = IF del[d].kind = "panel" THEN disk ELSE disk \ {f}
            /\ UNCHANGED objects
    /\ UNCHANGED <<tables, off, mig, view, crossed, broken, counters>>

ListCopies(d) ==
    /\ Doing(d, "list")
    /\ del' = [del EXCEPT ![d].pc = "copies", ![d].copies = replicas[del[d].file]]
    /\ UNCHANGED <<tables, stores, off, mig, view, history, counters>>

DeleteCopy(d, b) ==
    /\ Doing(d, "copies")
    /\ b \in del[d].copies
    /\ del' = [del EXCEPT ![d].copies = @ \ {b}]
    /\ Remove(del[d].file, b)
    /\ UNCHANGED <<tables, disk, off, mig, view, history, counters>>

DeleteSpool(d) ==
    /\ Doing(d, "copies")
    /\ del[d].copies = {}
    /\ del' = [del EXCEPT ![d].pc = "record"]
    /\ disk' = disk \ {del[d].file}
    /\ UNCHANGED <<tables, objects, off, mig, view, history, counters>>

\* Back to the rest of the list, which a single deletion does not have.
NextItem(d) == del' = [del EXCEPT ![d] = [NoDeletion EXCEPT !.todo = del[d].todo]]

DeleteRecord(d) ==
    /\ Doing(d, "record")
    /\ NextItem(d)
    /\ row' = [row EXCEPT ![del[d].file] = None]
    /\ replicas' = [replicas EXCEPT ![del[d].file] = {}]
    /\ UNCHANGED <<valid, stores, off, mig, view, history, counters>>

\* Any of the steps raises: the item is given up, the next one is taken.
DeletionFails(d) ==
    /\ del[d].pc # "idle"
    /\ Fault
    /\ NextItem(d)
    /\ UNCHANGED <<tables, stores, off, mig, view, history, forms>>

-----------------------------------------------------------------------------
(* Migration of the local files.                                           *)

Moving(pc) == mig.pc = pc
Break == broken' = broken \cup {mig.file}
NextFile == mig' = [NoMigration EXCEPT !.pc = "next", !.todo = mig.todo]

\* start_migration: one task at a time.
BeginMigration ==
    /\ Moving("idle")
    /\ mig' = [NoMigration EXCEPT !.pc = "next",
                                  !.todo = {f \in valid : row[f] = Local}]
    /\ UNCHANGED <<tables, stores, off, del, view, history, counters>>

\* Mutant: a file that is not found is looked for again.
PickFileAgain(f) ==
    /\ Moving("next")
    /\ f \in mig.todo
    /\ f \in disk
    /\ mig' = [mig EXCEPT !.pc = "choose", !.todo = @ \ {f}, !.file = f]
    /\ UNCHANGED <<tables, stores, off, del, view, history, counters>>

PickFile(f) ==
    /\ Moving("next")
    /\ f \in mig.todo
    /\ mig' = IF f \in disk
              THEN [mig EXCEPT !.pc = "choose", !.todo = @ \ {f}, !.file = f]
              ELSE [mig EXCEPT !.todo = @ \ {f}]
    /\ UNCHANGED <<tables, stores, off, del, view, history, counters>>

\* The usage was queried meanwhile.  The candidates are those of the moment,
\* any or none; an error of the query ends like none.
FindCandidates ==
    /\ Moving("choose")
    /\ \E C \in SUBSET (Backend \ off) : mig' = [mig EXCEPT !.pc = "upload", !.left = C]
    /\ UNCHANGED <<tables, stores, off, del, view, history, counters>>

EndMigration ==
    /\ Moving("next")
    /\ mig.todo = {}
    /\ mig' = NoMigration
    /\ UNCHANGED <<tables, stores, off, del, view, history, counters>>

SendTo(b) ==
    /\ Moving("upload")
    /\ b \in mig.left
    /\ mig.file \in disk
    /\ mig' = [mig EXCEPT !.pc = "sending", !.left = @ \ {b}, !.at = b]
    /\ UNCHANGED <<tables, stores, off, del, view, history, counters>>

\* No candidate is left, or the file is not there.
GiveUp ==
    /\ Moving("upload")
    /\ mig.left = {} \/ mig.file \notin disk
    /\ NextFile
    /\ UNCHANGED <<tables, stores, off, del, view, history, counters>>

\* Mutant: the local file is dropped once it is in S3.
SentAndDropped ==
    /\ Moving("sending")
    /\ mig' = [mig EXCEPT !.pc = "targets", !.made = {mig.at}]
    /\ Store(mig.file, mig.at)
    /\ disk' = disk \ {mig.file}
    /\ UNCHANGED <<tables, off, del, view, history, counters>>

\* A transfer that opened the file may end though the file was deleted.
Sent ==
    /\ Moving("sending")
    /\ mig' = [mig EXCEPT !.pc = "targets", !.made = {mig.at}]
    /\ Store(mig.file, mig.at)
    /\ UNCHANGED <<tables, disk, off, del, view, history, counters>>

\* ... or fail without it; S3 may fail too, perhaps with the object written.
TransferFails(b) ==
    \/ mig.file \notin disk /\ UNCHANGED <<objects, broken, faults>>
    \/ Fault /\ UNCHANGED <<objects, broken>>
    \/ Fault /\ Store(mig.file, b) /\ Break

SendFails ==
    /\ Moving("sending")
    /\ mig' = [mig EXCEPT !.pc = "upload", !.at = None]
    /\ TransferFails(mig.at)
    /\ UNCHANGED <<tables, disk, off, del, view, begun, crossed, forms>>

\* replicate chooses by the size of the file, which must still be there.
ChooseTargets ==
    /\ Moving("targets")
    /\ IF mig.file \in disk
       THEN \E T \in SUBSET (Backend \ (off \cup {mig.at})) :
                mig' = [mig EXCEPT !.pc = "copies", !.targets = T]
       ELSE mig' = [mig EXCEPT !.pc = "undo"]
    /\ UNCHANGED <<tables, stores, off, del, view, history, counters>>

CopySent(b) ==
    /\ Moving("copies")
    /\ b \in mig.targets \ off
    /\ mig' = [mig EXCEPT !.targets = @ \ {b}, !.made = @ \cup {b}]
    /\ Store(mig.file, b)
    /\ UNCHANGED <<tables, disk, off, del, view, history, counters>>

\* Mutant: the replica is listed before it is made.
CopyFailsListed(b) ==
    /\ Moving("copies")
    /\ b \in mig.targets
    /\ mig' = [mig EXCEPT !.targets = @ \ {b}, !.made = @ \cup {b}]
    /\ TransferFails(b) \/ (b \in off /\ UNCHANGED <<objects, broken, faults>>)
    /\ UNCHANGED <<tables, disk, off, del, view, begun, crossed, forms>>

\* A replica that fails, or whose backend was disabled, is left out.
CopyFails(b) ==
    /\ Moving("copies")
    /\ b \in mig.targets
    /\ mig' = [mig EXCEPT !.targets = @ \ {b}]
    /\ TransferFails(b) \/ (b \in off /\ UNCHANGED <<objects, broken, faults>>)
    /\ UNCHANGED <<tables, disk, off, del, view, begun, crossed, forms>>

\* A deletion goes by a row of f it read when the file was local.
TakenForLocal(f) ==
    \E d \in Deleter : <<f, Local>> \in del[d].todo \cup {<<del[d].file, del[d].at>>}

\* Mutants: the number of rows changed is not looked at, as in
\* mark_migrated; the key is stored as backend_name.
MarkBlind ==
    LET f == mig.file IN
    /\ Moving("copies")
    /\ mig.targets = {}
    /\ row' = IF row[f] = None THEN row ELSE [row EXCEPT ![f] = mig.at]
    /\ replicas' = IF row[f] = None THEN replicas
                   ELSE [replicas EXCEPT ![f] = @ \cup (mig.made \ {mig.at})]
    /\ crossed' = IF row[f] # None /\ TakenForLocal(f) THEN crossed \cup {f} ELSE crossed
    /\ mig' = [mig EXCEPT !.pc = "local", !.made = {}]
    /\ UNCHANGED <<valid, stores, off, del, view, begun, broken, counters>>
MarkKey ==
    /\ Moving("copies")
    /\ mig.targets = {}
    /\ row' = [row EXCEPT ![mig.file] = <<mig.file, mig.at>>]
    /\ mig' = [mig EXCEPT !.pc = "local", !.made = {}]
    /\ UNCHANGED <<replicas, valid, stores, off, del, view, history, counters>>

\* mark_migrated_with_replicas: only a row that is still local is changed.
Mark ==
    LET f == mig.file IN
    /\ Moving("copies")
    /\ mig.targets = {}
    /\ IF row[f] = Local
       THEN /\ row' = [row EXCEPT ![f] = mig.at]
            /\ replicas' = [replicas EXCEPT ![f] = @ \cup (mig.made \ {mig.at})]
            /\ crossed' = IF TakenForLocal(f) THEN crossed \cup {f} ELSE crossed
            /\ mig' = [mig EXCEPT !.pc = "local", !.made = {}]
       ELSE mig' = [mig EXCEPT !.pc = "undo"] /\ UNCHANGED <<row, replicas, crossed>>
    /\ UNCHANGED <<valid, stores, off, del, view, begun, broken, counters>>

MarkFails ==
    /\ Moving("copies")
    /\ mig.targets = {}
    /\ Fault
    /\ mig' = [mig EXCEPT !.pc = "undo"]
    /\ UNCHANGED <<tables, stores, off, del, view, history, forms>>

DropLocal ==
    /\ Moving("local")
    /\ NextFile
    /\ \/ disk' = disk \ {mig.file} /\ UNCHANGED <<broken, faults>>
       \/ Fault /\ Break /\ UNCHANGED disk
    /\ UNCHANGED <<tables, objects, off, del, view, begun, crossed, forms>>

\* What was uploaded without a row is deleted; errors are only logged.
UndoUpload(b) ==
    /\ Moving("undo")
    /\ b \in mig.made
    /\ mig' = [mig EXCEPT !.made = @ \ {b}]
    /\ \/ Remove(mig.file, b) /\ UNCHANGED <<broken, faults>>
       \/ Fault /\ Break /\ UNCHANGED objects
    /\ UNCHANGED <<tables, disk, off, del, view, begun, crossed, forms>>

EndUndo ==
    /\ Moving("undo")
    /\ mig.made = {}
    /\ NextFile
    /\ UNCHANGED <<tables, stores, off, del, view, history, counters>>

-----------------------------------------------------------------------------
(* Downloads.                                                              *)

Viewing(v, pc) == view[v].pc = pc
Step(v, pc) == view' = [view EXCEPT ![v].pc = pc]
Leave(v) == view' = [view EXCEPT ![v] = NoView]

\* get_valid: an expired link gets the page that says so, and ends here.
Visit(v, f) ==
    /\ Viewing(v, "idle")
    /\ Registered(f) /\ f \in valid
    /\ view' = [view EXCEPT ![v] = [NoView EXCEPT !.pc = "found", !.file = f, !.at = row[f]]]
    /\ UNCHANGED <<tables, stores, off, del, mig, history, counters>>

\* A local file is looked for, the download is recorded, the file is opened.
LookForLocal(v) ==
    /\ Viewing(v, "found") /\ view[v].at = Local
    /\ Step(v, IF view[v].file \in disk THEN "open" ELSE "gone")
    /\ UNCHANGED <<tables, stores, off, del, mig, history, counters>>

OpenLocal(v) ==
    /\ Viewing(v, "open")
    /\ IF view[v].file \in disk THEN Leave(v) ELSE Step(v, "gone")
    /\ UNCHANGED <<tables, stores, off, del, mig, history, counters>>

\* An object may be on the backend of the row and on those of its replicas,
\* of which resolve_download_location leaves out the disabled ones.
ListLocations(v) ==
    LET locations == {view[v].at} \cup replicas[view[v].file] IN
    /\ Viewing(v, "found") /\ view[v].at \in Backend
    /\ view' = [view EXCEPT ![v].pc = "probe", ![v].left = locations \ off,
                            ![v].missed = locations \cap off # {}]
    /\ UNCHANGED <<tables, stores, off, del, mig, history, counters>>

\* The others are asked in an order that health decides: the first object
\* found is the one the visitor is sent to.
Probe(v, b) ==
    /\ Viewing(v, "probe")
    /\ b \in view[v].left
    /\ \/ b \in objects[view[v].file] /\ Leave(v) /\ UNCHANGED faults
       \/ /\ b \notin objects[view[v].file]
          /\ view' = [view EXCEPT ![v].left = @ \ {b}]
          /\ UNCHANGED faults
       \/ /\ Fault
          /\ view' = [view EXCEPT ![v].left = @ \ {b}, ![v].missed = TRUE]
    /\ UNCHANGED <<tables, stores, off, del, mig, history, forms>>

NothingFound(v) ==
    /\ Viewing(v, "probe") /\ view[v].left = {}
    /\ Step(v, "gone")
    /\ UNCHANGED <<tables, stores, off, del, mig, history, counters>>

Turned(v) ==
    /\ Viewing(v, "gone")
    /\ Leave(v)
    /\ UNCHANGED <<tables, stores, off, del, mig, history, counters>>

-----------------------------------------------------------------------------
\* A restart forgets every task; tables, disk and S3 stay.
Restart ==
    /\ Fault
    /\ del' = [d \in Deleter |-> NoDeletion]
    /\ mig' = NoMigration
    /\ view' = [v \in Visitor |-> NoView]
    /\ broken' = broken \cup ({mig.file} \cap File)
    /\ UNCHANGED <<tables, stores, off, begun, crossed, forms>>

DeletionStep(d) ==
    \/ BeginCleanup(d)
    \/ \E f \in File, at \in Place : NextExpired(d, f, at)
    \/ DeletePrimary(d) \/ ListCopies(d) \/ (\E b \in Backend : DeleteCopy(d, b))
    \/ DeleteSpool(d) \/ DeleteRecord(d) \/ DeletionFails(d)

MigrationStep ==
    \/ \E f \in File : PickFile(f)
    \/ FindCandidates
    \/ \E b \in Backend : SendTo(b) \/ CopySent(b) \/ CopyFails(b) \/ UndoUpload(b)
    \/ EndMigration \/ GiveUp \/ Sent \/ SendFails \/ ChooseTargets \/ Mark \/ MarkFails
    \/ DropLocal \/ EndUndo

VisitStep(v) ==
    \/ LookForLocal(v) \/ OpenLocal(v) \/ ListLocations(v) \/ NothingFound(v) \/ Turned(v)
    \/ \E b \in Backend : Probe(v, b)

Next ==
    \/ \E f \in File : Expire(f) \/ Extend(f)
    \/ \E b \in Backend : Toggle(b)
    \/ \E d \in Deleter : DeletionStep(d)
    \/ \E d \in Deleter, kind \in {"bot", "panel"}, f \in File : BeginDeletion(d, kind, f)
    \/ BeginMigration \/ MigrationStep
    \/ \E v \in Visitor : VisitStep(v) \/ \E f \in File : Visit(v, f)
    \/ Restart

Spec == Init /\ [][Next]_vars

\* The cleanup loop goes round, and tasks that run are continued.  Nothing
\* is assumed of visitors, admins, the clock or failures.
FairSpec ==
    /\ Spec
    /\ \A d \in Deleter : WF_vars(DeletionStep(d) /\ UNCHANGED faults)
    /\ WF_vars(MigrationStep /\ UNCHANGED faults)

-----------------------------------------------------------------------------
(* Properties.                                                             *)

\* Until a deletion of it began a file is where its row says, and so are its
\* replicas: moving it first makes the copies, then changes the row, then
\* drops the local file (README.md:157), whatever fails or restarts between.
Served ==
    \A f \in File \ begun :
        /\ row[f] = Local => f \in disk
        /\ row[f] \in Backend => {row[f]} \cup replicas[f] \subseteq objects[f]

\* What the migration has uploaded of f and not yet put into a row.
Carried(f) == IF mig.file = f THEN mig.made ELSE {}

\* Nothing is stored that no row leads to, so that a deletion leaves nothing
\* behind: objects are those of the row and its replicas, or still in the
\* hands of the migration; the disk has local files, and that of a migration
\* at its last step.  Excepted are errors and restarts in a migration
\* (broken), and a migration under a deletion that takes the file for local
\* (crossed).  A file without a row is not on the disk in any case.
Accounted ==
    \A f \in File :
        /\ f \notin broken \cup crossed =>
               objects[f] \subseteq {row[f]} \cup replicas[f] \cup Carried(f)
        /\ f \in disk => row[f] = Local \/ (row[f] \in Backend /\ (mig.file = f \/ f \in broken))

\* A visitor of a valid link is turned away only when the file's deletion
\* began, a copy was on a disabled backend or its probe failed, or the file
\* was moved from the disk since the row was read.
TurnedAwayForCause ==
    \A v \in Visitor :
        Viewing(v, "gone") =>
            \/ view[v].file \in begun
            \/ view[v].missed
            \/ view[v].at = Local /\ row[view[v].file] # Local

\* An expired file goes, unless its expiry is extended.
ExpiredGo ==
    \A f \in File : (Registered(f) /\ f \notin valid) ~> (~Registered(f) \/ f \in valid)

\* The migration task ends; another one cannot be started before.
MigrationEnds == mig.pc # "idle" ~> mig.pc = "idle"

\* "The link can be used until its expiry" (README.md:200): the cleanup does
\* not take the record of a file that is valid.
CleanupSparesValid ==
    [][\A d \in Deleter :
           Doing(d, "record") /\ del[d].kind = "cleanup" /\ row'[del[d].file] # row[del[d].file]
               => del[d].file \notin valid]_vars

=============================================================================

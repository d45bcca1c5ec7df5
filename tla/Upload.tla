------------------------------- MODULE Upload -------------------------------
(***************************************************************************)
(* From a message with a file to a registered link (app/main.py): the      *)
(* question to the sender (receive_media, confirm_upload, cancel_upload),  *)
(* perform_upload with its error paths and its abort, and the collection   *)
(* of what a crash leaves in data/files (cleanup_orphan_files).  Several   *)
(* uploads, the panel's forms of Backends and the cleanup interleave at    *)
(* every await.                                                            *)
(*                                                                         *)
(* A nonce stands for its message, its pending or active upload, and the   *)
(* token, stored_name and object_key perform_upload draws for it.  Errors  *)
(* of Telegram, S3, SQLite and the disk, and crashes, are limited to       *)
(* MaxFaults events.                                                       *)
(***************************************************************************)
EXTENDS Backends

CONSTANTS
    Nonce,      \* messages with a file
    File,       \* files on Telegram's servers
    FileOf,     \* FileOf[n]: the file in message n; forwards share it
    Local,      \* backend_name 'local'
    MaxFaults   \* bound on errors and crashes

ASSUME FileAssumption == FileOf \in [Nonce -> File]
ASSUME LocalAssumption == Local \notin Backend \cup {None}
ASSUME FaultsAssumption == MaxFaults \in Nat

VARIABLES
    up,         \* up[n]: where the upload of n stands, with its local variables
    cancelled,  \* uploads whose abort event is set
    early,      \* those aborted before their S3 transfer began (history)
    cache,      \* files in the cache of the local Bot API
    spool,      \* uploads with a file in data/files
    aged,       \* ... that was not written for an hour
    objects,    \* objects[n]: backends with the object of n
    files,      \* files[n]: backend_name of the row, None when there is none
    queued,     \* queued[n]: target backends of the jobs inserted with the row
    promoted,   \* ... of those with promote_target = 1
    cleaner,    \* the cleanup: between its query and its deletions, and the answer
    broken,     \* uploads whose own cleaning up was hit by an error (history)
    faults      \* errors and crashes so far

abortVars == <<cancelled, early>>
diskVars == <<cache, spool, aged>>
rowVars == <<files, queued, promoted>>
vars == <<backendVars, up, abortVars, diskVars, objects, rowVars, cleaner, broken, faults>>

\* "pending" and "stale" (older than 600 s) are entries of pending_uploads,
\* Running and "lost" are entries of active_uploads.
Running == {"begin", "fetch", "open", "copy", "check", "send", "sending", "register",
            "record", "sweep", "undo", "withdraw", "close"}
UploadPC == Running \cup {"none", "pending", "stale", "dropped", "lost", "done"}

\* pref: preferred_backend; mode: storage_mode; cached: getFile answered with
\* a path in the cache; zero: it became telegram_cache_source; todo: backends
\* not tried yet, then those to copy to; at: the backend being tried, then uploaded_backend.
NoUpload == [pc |-> "none", pref |-> None, mode |-> "local", cached |-> FALSE,
             zero |-> FALSE, todo |-> {}, at |-> None, promote |-> None]

UploadState == [pc : UploadPC, pref : Backend \cup {None}, mode : {"local", "s3"},
                cached : BOOLEAN, zero : BOOLEAN, todo : SUBSET Backend,
                at : Backend \cup {None}, promote : Backend \cup {None}]

TypeOK ==
    /\ BackendsTypeOK
    /\ up \in [Nonce -> UploadState]
    /\ cancelled \subseteq Nonce
    /\ early \subseteq cancelled
    /\ cache \subseteq File
    /\ spool \subseteq Nonce
    /\ aged \subseteq spool
    /\ objects \in [Nonce -> SUBSET Backend]
    /\ files \in [Nonce -> Backend \cup {Local, None}]
    /\ queued \in [Nonce -> SUBSET Backend]
    /\ promoted \in [Nonce -> SUBSET Backend]
    /\ cleaner \in [asked : BOOLEAN, referenced : SUBSET Nonce]
    /\ broken \subseteq Nonce
    /\ faults \in 0 .. MaxFaults

Init ==
    /\ BackendsInit
    /\ up = [n \in Nonce |-> NoUpload]
    /\ cancelled = {} /\ early = {}
    /\ cache = {} /\ spool = {} /\ aged = {}
    /\ objects = [n \in Nonce |-> {}]
    /\ files = [n \in Nonce |-> None]
    /\ queued = [n \in Nonce |-> {}] /\ promoted = [n \in Nonce |-> {}]
    /\ cleaner = [asked |-> FALSE, referenced |-> {}]
    /\ broken = {}
    /\ faults = 0

Fault == faults < MaxFaults /\ faults' = faults + 1
Break(n) == broken' = broken \cup {n}
At(n, pc) == up[n].pc = pc
Become(n, u) == up' = [up EXCEPT ![n] = u]
Go(n, pc) == Become(n, [up[n] EXCEPT !.pc = pc])
End(n, pc) == Become(n, [NoUpload EXCEPT !.pc = pc])
Registered(n) == files[n] # None

-----------------------------------------------------------------------------
(* The question to the sender.                                             *)

\* receive_media, once its checks let the message through: a nonce is drawn,
\* and pending uploads older than 600 s are dropped.
Receive(n) ==
    /\ At(n, "none")
    /\ up' = [m \in Nonce |-> IF m = n THEN [NoUpload EXCEPT !.pc = "pending"]
                              ELSE IF At(m, "stale") THEN [NoUpload EXCEPT !.pc = "dropped"]
                              ELSE up[m]]
    /\ UNCHANGED <<backendVars, abortVars, diskVars, objects, rowVars, cleaner, broken, faults>>

GrowStale(n) ==
    /\ At(n, "pending")
    /\ Go(n, "stale")
    /\ UNCHANGED <<backendVars, abortVars, diskVars, objects, rowVars, cleaner, broken, faults>>

\* confirm_upload.  A destination must still be one that takes uploads.
Confirm(n, p) ==
    /\ At(n, "pending")
    /\ p \in Eligible("replica") \cup {None}
    /\ Become(n, [up[n] EXCEPT !.pc = "begin", !.pref = p])
    /\ UNCHANGED <<backendVars, abortVars, diskVars, objects, rowVars, cleaner, broken, faults>>

\* cancel_upload, and confirm_upload when the question is too old.
Drop(n) ==
    /\ At(n, "pending") \/ At(n, "stale")
    /\ Go(n, "dropped")
    /\ UNCHANGED <<backendVars, abortVars, diskVars, objects, rowVars, cleaner, broken, faults>>

\* abort_active_upload sets the event of an entry of active_uploads.
Abort(n) ==
    /\ up[n].pc \in Running \cup {"lost"}
    /\ n \notin cancelled
    /\ cancelled' = cancelled \cup {n}
    /\ early' = IF up[n].pc \in {"begin", "fetch", "open", "copy", "check", "send"}
                THEN early \cup {n} ELSE early
    /\ UNCHANGED <<backendVars, up, diskVars, objects, rowVars, cleaner, broken, faults>>

\* The entry is in active_uploads before the try that takes it out: an error
\* of the two replies in between leaves it there for good.
Begin(n) ==
    /\ At(n, "begin")
    /\ \/ Become(n, [up[n] EXCEPT !.pc = "fetch", !.mode = mode]) /\ UNCHANGED faults
       \/ Fault /\ End(n, "lost")
    /\ UNCHANGED <<backendVars, abortVars, diskVars, objects, rowVars, cleaner, broken>>

-----------------------------------------------------------------------------
(* perform_upload, phase 1: the file comes from Telegram.                  *)

LeaveCache(n) == cache' = cache \ {FileOf[n]}

\* getFile returned.  A local Bot API has the file in its cache by then.
Fetched(n) ==
    /\ At(n, "fetch")
    /\ \E c \in BOOLEAN :
           /\ Become(n, [up[n] EXCEPT !.pc = "open", !.cached = c])
           /\ cache' = IF c THEN cache \cup {FileOf[n]} ELSE cache
    /\ UNCHANGED <<backendVars, abortVars, spool, aged, objects, rowVars, cleaner, broken, faults>>

\* In S3 mode a cached file is used where it is.  Otherwise it is copied to
\* data/files, which is created first; what another upload deleted from the
\* cache meanwhile cannot be used.
Open(n) ==
    LET zero == up[n].cached /\ up[n].mode = "s3"
        missing == up[n].cached /\ FileOf[n] \notin cache IN
    /\ At(n, "open")
    /\ n \notin cancelled
    /\ Become(n, [up[n] EXCEPT
           !.pc = IF missing THEN "undo" ELSE IF zero THEN "check" ELSE "copy",
           !.zero = zero /\ ~missing])
    /\ spool' = IF zero THEN spool ELSE spool \cup {n}
    /\ UNCHANGED <<backendVars, abortVars, cache, aged, objects, rowVars, cleaner, broken, faults>>

\* A copy is followed by the deletion of the cached file, however it ends.
Copied(n) ==
    /\ At(n, "copy")
    /\ Go(n, "check")
    /\ IF up[n].cached THEN LeaveCache(n) ELSE UNCHANGED cache
    /\ UNCHANGED <<backendVars, abortVars, spool, aged, objects, rowVars, cleaner, broken, faults>>

\* The event is looked at while getFile runs, after it, and with each chunk.
ReceptionAborted(n) ==
    /\ n \in cancelled
    /\ At(n, "fetch") \/ At(n, "open") \/ At(n, "copy")
    /\ Go(n, "undo")
    /\ IF At(n, "copy") /\ up[n].cached THEN LeaveCache(n) ELSE UNCHANGED cache
    /\ UNCHANGED <<backendVars, abortVars, spool, aged, objects, rowVars, cleaner, broken, faults>>

\* The sizes are compared once the real one is known.
TooLarge(n) ==
    /\ At(n, "check")
    /\ Go(n, "close")
    /\ spool' = spool \ {n} /\ aged' = aged \ {n}
    /\ UNCHANGED <<backendVars, abortVars, cache, objects, rowVars, cleaner, broken, faults>>

-----------------------------------------------------------------------------
(* Phase 2: to S3.                                                         *)

Source(n) == IF up[n].zero THEN FileOf[n] \in cache ELSE n \in spool

\* The backends to try, and the promotion that follows.  A chosen replica
\* backend is reached by way of a primary one; a chosen backend that was
\* deleted since the confirmation is a KeyError, no candidate an error too.
Routes(n) ==
    LET p == up[n].pref
        transit == {{b} : b \in Eligible("primary")} IN
    IF p = None THEN [todo : SUBSET Eligible("primary"), promote : {None}]
    ELSE IF live[p] = "replica" THEN [todo : {{}} \cup transit, promote : {p}]
    ELSE [todo : {{}, {p} \cap Eligible("replica")}, promote : {None}]

Route(n) ==
    /\ At(n, "check")
    /\ IF up[n].mode = "local" THEN Go(n, "register")
       ELSE \E r \in Routes(n) :
                Become(n, [up[n] EXCEPT
                    !.pc = IF r.todo = {} \/ ~Source(n) THEN "undo" ELSE "send",
                    !.todo = r.todo, !.promote = r.promote])
    /\ UNCHANGED <<backendVars, abortVars, diskVars, objects, rowVars, cleaner, broken, faults>>

\* Mutants: the callback does not look at the event; a backend that failed
\* stays in the list.
SendIgnoresAbort(n, b) ==
    /\ At(n, "send")
    /\ b \in up[n].todo
    /\ Become(n, [up[n] EXCEPT !.todo = @ \ {b}, !.pc = "sending", !.at = b])
    /\ UNCHANGED <<backendVars, abortVars, diskVars, objects, rowVars, cleaner, broken, faults>>
SendAgain(n, b) ==
    /\ At(n, "send")
    /\ b \in up[n].todo
    /\ n \notin cancelled
    /\ Become(n, [up[n] EXCEPT !.pc = IF Source(n) THEN "sending" ELSE "send",
                               !.at = IF Source(n) THEN b ELSE None])
    /\ UNCHANGED <<backendVars, abortVars, diskVars, objects, rowVars, cleaner, broken, faults>>

\* The next candidate fails at once without its source.  The first chunk
\* finds an abort made before.
SendTo(n, b) ==
    /\ At(n, "send")
    /\ b \in up[n].todo
    /\ n \notin cancelled
    /\ Become(n, [up[n] EXCEPT !.todo = @ \ {b},
                               !.pc = IF Source(n) THEN "sending"
                                      ELSE IF up[n].todo = {b} THEN "undo" ELSE "send",
                               !.at = IF Source(n) THEN b ELSE None])
    /\ UNCHANGED <<backendVars, abortVars, diskVars, objects, rowVars, cleaner, broken, faults>>

SendAborted(n) ==
    /\ n \in cancelled
    /\ At(n, "send") \/ At(n, "sending")
    /\ Become(n, [up[n] EXCEPT !.pc = "undo", !.at = None])
    /\ UNCHANGED <<backendVars, abortVars, diskVars, objects, rowVars, cleaner, broken, faults>>

\* An abort after the last chunk comes too late.
Sent(n) ==
    /\ At(n, "sending")
    /\ Go(n, "register")
    /\ objects' = [objects EXCEPT ![n] = @ \cup {up[n].at}]
    /\ UNCHANGED <<backendVars, abortVars, diskVars, rowVars, cleaner, broken, faults>>

\* The source is gone, or S3 fails, perhaps after the object was written.
SendFails(n) ==
    /\ At(n, "sending")
    /\ Become(n, [up[n] EXCEPT !.pc = IF up[n].todo = {} THEN "undo" ELSE "send",
                               !.at = None])
    /\ \/ ~Source(n) /\ UNCHANGED <<objects, broken, faults>>
       \/ Fault /\ UNCHANGED <<objects, broken>>
       \/ Fault /\ objects' = [objects EXCEPT ![n] = @ \cup {up[n].at}] /\ Break(n)
    /\ UNCHANGED <<backendVars, abortVars, diskVars, rowVars, cleaner>>

-----------------------------------------------------------------------------
(* Phase 3: the row, and with one in S3 its jobs.                          *)

\* Mutant: the backend that has the object is not left out.
TargetsWithPrimary(n) ==
    IF up[n].promote # None THEN {{up[n].promote}}
    ELSE IF up[n].pref # None THEN {{}} ELSE SUBSET Eligible("replica")

\* The backends to copy to: the promotion's alone, none for a backend the user chose, else
\* as many as replication_count asks for among the candidates of the moment.
ReplicationTargets(n) ==
    IF up[n].promote # None THEN {{up[n].promote}}
    ELSE IF up[n].pref # None THEN {{}}
    ELSE SUBSET (Eligible("replica") \ {up[n].at})

\* Mutant: no jobs, so the file in data/files is taken for a temporary one.
RegisterAndSweep(n) ==
    /\ At(n, "register") /\ up[n].mode = "local"
    /\ Go(n, "sweep")
    /\ files' = [files EXCEPT ![n] = Local]
    /\ UNCHANGED <<backendVars, abortVars, diskVars, objects, queued, promoted, cleaner,
                   broken, faults>>

RegisterLocal(n) ==
    /\ At(n, "register") /\ up[n].mode = "local"
    /\ Go(n, "close")
    /\ files' = [files EXCEPT ![n] = Local]
    /\ UNCHANGED <<backendVars, abortVars, diskVars, objects, queued, promoted, cleaner,
                   broken, faults>>

\* They are chosen by what is configured and used at this moment.
ChooseTargets(n) ==
    /\ At(n, "register") /\ up[n].mode = "s3"
    /\ \E T \in ReplicationTargets(n) : Become(n, [up[n] EXCEPT !.pc = "record", !.todo = T])
    /\ UNCHANGED <<backendVars, abortVars, diskVars, objects, rowVars, cleaner, broken, faults>>

\* Mutant: the object key is stored as backend_name.
RegisterKey(n) ==
    /\ At(n, "record")
    /\ Go(n, "close")
    /\ files' = [files EXCEPT ![n] = <<n, up[n].at>>]
    /\ UNCHANGED <<backendVars, abortVars, diskVars, objects, queued, promoted, cleaner,
                   broken, faults>>

RegisterCloud(n) ==
    /\ At(n, "record")
    /\ Go(n, IF up[n].todo = {} THEN "sweep" ELSE "close")
    /\ queued' = [queued EXCEPT ![n] = up[n].todo]
    /\ promoted' = [promoted EXCEPT ![n] = up[n].todo \cap {up[n].promote}]
    /\ files' = [files EXCEPT ![n] = up[n].at]
    /\ UNCHANGED <<backendVars, abortVars, diskVars, objects, cleaner, broken, faults>>

DropSpool(n) == spool' = spool \ {n} /\ aged' = aged \ {n}

\* Without jobs the temporary file is not needed.  record_saved is set after
\* its deletion: an error here takes the path of an upload that failed.
SweepSpool(n) ==
    /\ At(n, "sweep")
    /\ \/ DropSpool(n) /\ Go(n, "close") /\ UNCHANGED <<broken, faults>>
       \/ Fault /\ Break(n) /\ Go(n, "undo") /\ UNCHANGED <<spool, aged>>
    /\ UNCHANGED <<backendVars, abortVars, cache, objects, rowVars, cleaner>>

-----------------------------------------------------------------------------
(* The error paths.                                                        *)

\* Every other call of the try can raise: an edit of the status message that
\* Telegram refuses, getFile, a full disk, a locked database.
Trouble(n) ==
    /\ up[n].pc \in {"fetch", "open", "copy", "check", "register", "record"}
    /\ Fault
    /\ Go(n, "undo")
    /\ IF At(n, "copy") /\ up[n].cached THEN LeaveCache(n) ELSE UNCHANGED cache
    /\ UNCHANGED <<backendVars, abortVars, spool, aged, objects, rowVars, cleaner, broken>>

\* Mutant: the uploaded object is not deleted.
UndoSpoolOnly(n) ==
    /\ At(n, "undo")
    /\ DropSpool(n) /\ Go(n, "close")
    /\ UNCHANGED <<backendVars, abortVars, cache, objects, rowVars, cleaner, broken, faults>>

\* Both handlers delete the temporary file, then the object if one was
\* uploaded; an error of the first deletion leaves the handler.
Undo(n) ==
    /\ At(n, "undo")
    /\ \/ /\ DropSpool(n)
          /\ Go(n, IF up[n].at = None THEN "close" ELSE "withdraw")
          /\ UNCHANGED <<broken, faults>>
       \/ Fault /\ Break(n) /\ Go(n, "close") /\ UNCHANGED <<spool, aged>>
    /\ UNCHANGED <<backendVars, abortVars, cache, objects, rowVars, cleaner>>

\* Errors of this deletion are suppressed, that of a backend no longer
\* configured included.
Withdraw(n) ==
    /\ At(n, "withdraw")
    /\ Go(n, "close")
    /\ \/ /\ Configured(up[n].at)
          /\ objects' = [objects EXCEPT ![n] = @ \ {up[n].at}]
          /\ UNCHANGED <<broken, faults>>
       \/ ~Configured(up[n].at) /\ Break(n) /\ UNCHANGED <<objects, faults>>
       \/ Fault /\ Break(n) /\ UNCHANGED objects
    /\ UNCHANGED <<backendVars, abortVars, diskVars, rowVars, cleaner>>

\* The two finally clauses: the cached file goes, and the entry of
\* active_uploads.
Close(n) ==
    /\ At(n, "close")
    /\ End(n, "done")
    /\ IF up[n].zero THEN LeaveCache(n) ELSE UNCHANGED cache
    /\ UNCHANGED <<backendVars, abortVars, spool, aged, objects, rowVars, cleaner, broken, faults>>

\* A restart forgets pending and active uploads; disk, tables and S3 stay.
Crash ==
    /\ Fault
    /\ ReloadBackends
    /\ up' = [n \in Nonce |-> [NoUpload EXCEPT !.pc =
                                  IF up[n].pc \in {"pending", "stale"} THEN "dropped"
                                  ELSE IF up[n].pc \in Running \cup {"lost"} THEN "done"
                                  ELSE up[n].pc]]
    /\ broken' = broken \cup {n \in Nonce : up[n].pc \in Running}
    /\ cleaner' = [asked |-> FALSE, referenced |-> {}]
    /\ UNCHANGED <<abortVars, diskVars, objects, rowVars>>

-----------------------------------------------------------------------------
(* cleanup_orphan_files.                                                   *)

\* Files certainly written within the hour: receiving and registering a local
\* file takes no hour after its last chunk, nor does the cleanup itself.
Recent(n) ==
    \/ up[n].pc \in {"open", "copy", "check"}
    \/ up[n].pc \in Running /\ up[n].mode = "local"
    \/ cleaner.asked /\ files[n] = Local /\ n \notin cleaner.referenced

AgeSpool(n) ==
    /\ n \in spool \ aged
    /\ ~Recent(n)
    /\ aged' = aged \cup {n}
    /\ UNCHANGED <<backendVars, up, abortVars, cache, spool, objects, rowVars, cleaner,
                   broken, faults>>

AskReferenced ==
    /\ ~cleaner.asked
    /\ cleaner' = [asked |-> TRUE, referenced |-> {n \in Nonce : Registered(n)}]
    /\ UNCHANGED <<backendVars, up, abortVars, diskVars, objects, rowVars, broken, faults>>

\* Mutants: the time of the last change is not looked at; the comparison
\* with the cutoff is turned round.
CollectAnyAge ==
    /\ cleaner.asked
    /\ spool' = spool \cap cleaner.referenced
    /\ aged' = aged \cap spool'
    /\ cleaner' = [asked |-> FALSE, referenced |-> {}]
    /\ UNCHANGED <<backendVars, up, abortVars, cache, objects, rowVars, broken, faults>>

CollectYoung ==
    /\ cleaner.asked
    /\ spool' = spool \ ((spool \ aged) \ cleaner.referenced)
    /\ aged' = aged \cap spool'
    /\ cleaner' = [asked |-> FALSE, referenced |-> {}]
    /\ UNCHANGED <<backendVars, up, abortVars, cache, objects, rowVars, broken, faults>>

CollectOrphans ==
    /\ cleaner.asked
    /\ spool' = spool \ (aged \ cleaner.referenced)
    /\ aged' = aged \cap spool'
    /\ cleaner' = [asked |-> FALSE, referenced |-> {}]
    /\ UNCHANGED <<backendVars, up, abortVars, cache, objects, rowVars, broken, faults>>

-----------------------------------------------------------------------------
\* backend_reference_count looks at the rows of files, replicas and jobs.
Referenced == {b \in Backend : \E n \in Nonce : files[n] = b \/ b \in queued[n]}

PanelStep ==
    /\ \/ \E a \in Admin : FormStep(a, Referenced)
       \/ \E m \in {"local", "s3"} : SetMode(m)
    /\ UNCHANGED <<up, abortVars, diskVars, objects, rowVars, cleaner, broken, faults>>

UserStep(n) ==
    \/ Receive(n) \/ GrowStale(n) \/ Drop(n) \/ Abort(n)
    \/ \E p \in Backend \cup {None} : Confirm(n, p)

UploadStep(n) ==
    \/ Begin(n) \/ Fetched(n) \/ Open(n) \/ Copied(n) \/ ReceptionAborted(n) \/ TooLarge(n)
    \/ Route(n) \/ (\E b \in Backend : SendTo(n, b))
    \/ SendAborted(n) \/ Sent(n) \/ SendFails(n)
    \/ RegisterLocal(n) \/ ChooseTargets(n) \/ RegisterCloud(n) \/ SweepSpool(n)
    \/ Trouble(n) \/ Undo(n) \/ Withdraw(n) \/ Close(n)

CleanupStep == AskReferenced \/ CollectOrphans

Next ==
    \/ \E n \in Nonce : UserStep(n) \/ UploadStep(n) \/ AgeSpool(n)
    \/ CleanupStep
    \/ PanelStep
    \/ Crash

Spec == Init /\ [][Next]_vars

\* The event loop runs its tasks on, calls return and the hours pass.
\* Nothing is assumed of users, admins or failures.
FairSpec ==
    /\ Spec
    /\ \A n \in Nonce : WF_vars(UploadStep(n) /\ UNCHANGED faults) /\ WF_vars(AgeSpool(n))
    /\ WF_vars(CleanupStep)

-----------------------------------------------------------------------------
(* Properties.                                                             *)

\* A link that was given out has its file: the local one on the disk, however
\* the orphan cleanup's query and deletions fall around the registration, the
\* other in S3 where the row says, whichever candidate took it and whatever
\* was aborted.  Excepted: the deletion of the temporary file failed between
\* commit and record_saved (SweepSpool).
LinkBacked ==
    \A n \in Nonce \ broken :
        /\ files[n] = Local => n \in spool
        /\ files[n] \in Backend => files[n] \in objects[n]

\* "Safe cancellation ... with cleaning up" (README.md:17): an upload that
\* ended without a link leaves neither object nor temporary file, at whatever
\* point it was aborted or failed, unless its own clean-up met an error.
NothingLeft ==
    \A n \in Nonce \ broken :
        At(n, "done") /\ ~Registered(n) =>
            n \notin spool /\ objects[n] = {}

\* An abort accepted before the transfer to S3 began ends the upload: no row,
\* and so no link, whichever backends are tried.
AbortHeeded == \A n \in early : files[n] \notin Backend

\* To the tables the uploads are the callers JobStore asks for: rows come with
\* their jobs, once, and never with a mixture of promotions and replicas or a
\* copy on the primary's own backend.  A local file has no row there.
InCloud == {n \in Nonce : files[n] \in Backend}
Pairs(f) == {j \in Nonce \X Backend : j[2] \in f[j[1]]}
Tables == INSTANCE JobStore WITH
    Token <- Nonce, Worker <- {}, Targets <- [w \in {} |-> {}], issued <- InCloud,
    files <- [n \in Nonce |-> IF n \in InCloud THEN files[n] ELSE None],
    unexpired <- InCloud, replicas <- {}, jobs <- Pairs(queued),
    kind <- [j \in Nonce \X Backend |->
                IF j \in Pairs(promoted) THEN "promotion"
                ELSE IF j \in Pairs(queued) THEN "replica" ELSE "unused"],
    claimedBy <- [j \in Nonce \X Backend |-> None], leased <- {}, due <- Pairs(queued),
    heard <- {}, disabled <- {}
RegistersAsStore == Tables!StoreSpec

\* What a crash or a disk error left in data/files is collected.
OrphansCollected ==
    \A n \in Nonce :
        (n \in spool /\ up[n].pc \notin Running /\ ~Registered(n)) ~> n \notin spool

\* A confirmed upload comes to an end, and with it its entry of
\* active_uploads.
UploadsEnd == \A n \in Nonce : At(n, "begin") ~> up[n].pc \in {"done", "lost"}

\* "Removing a backend is only allowed when no file refers to it"
\* (README.md:149), so that no link breaks.
LinkedBackendsStay ==
    \A n \in Nonce : files[n] \in Backend => Configured(files[n])
=============================================================================

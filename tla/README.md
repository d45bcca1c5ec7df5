# Verification of uploadrobotelemovie

A Telegram bot stores files on S3 backends and hands out links that work until
they expire. The controller (`src/app`) is one asyncio process with a SQLite
database; remote replication workers (`src/replication-worker`) copy objects
between backends on its behalf. This directory holds TLA+ models of the parts
that are hard to test, the TLC runs that check them, and TLAPS proofs.

## The system

| part | state it keeps | operations | talks to |
|---|---|---|---|
| replication tables (`storage.py`) | rows of files, file_replicas, replication_jobs, replication_workers | one transaction per method | called by all below |
| replication API (`replication_api.py`) | nothing between requests | claim, complete, fail, renew | workers by HTTP, tables, S3, spool |
| remote worker (`worker.py`) | the job in hand, `.part` files | poll, download, upload, report, renew | API, S3 |
| local loop (`main.py`, `replication_loop`) | the batch it read | poll, fetch, transfer, complete or fail | tables, S3, spool |
| deletion (`main.py`, `admin_web.py`) | the item and copies it read | primary, copies, spool, record | tables, S3, spool |
| panel (`admin_web.py`) | sessions | retry, pause, cancel, release, enable, expiry; backends; migration | tables, S3 |
| upload flow (`main.py`) | pending and active uploads | intake, confirm, abort, upload, register | S3, spool, tables |
| downloads (`main.py`, `object_storage.py`) | none | check expiry, choose a copy, redirect | tables, S3, disk |
| migration (`admin_web.py`) | the list of local files, what it has uploaded | upload, replicate, change the row, drop the local file, undo | tables, S3, disk |
| routing, health, capacity (`object_storage.py`) | health and latency per backend | candidates, failover, replica targets | S3, tables |
| backups (`main.py`, `offsite_backup.py`) | files in `data/backups`, objects in a bucket, reported results | snapshot, trim, archive, upload, prune, test | disk, S3, tables |
| alerts (`main.py`) | three latches | look, send, remember | disk, tables, health, Telegram |
| cleanup and health loops (`main.py`) | nothing between rounds | delete the expired and orphans, probe backends | tables, S3, disk |

The parts share three stores: the tables, the objects in S3, and the spool
directory `data/files`. No lock spans two of them. A method of `Storage` that
writes is one transaction (`cancel_replication_job` alone reads before its
transaction begins), but a handler runs several of them with `await`s and S3
calls in between, while the loop, other handlers, deletions and remote workers
run.
What is hard is therefore

- the same job done twice: leases lapse, requests are served after their
  client gave up, and the loop takes no lease at all;
- values read before a transfer of minutes and used after it;
- handlers that stop half-way: S3 errors, restarts;
- liveness: the loop leaves targets to workers that may be dead.

What makes each part correct:

- *tables*: jobs belong to files, claims and leases agree, copies are on
  different backends, a promotion is alone and moves the primary once;
- *runners* (worker, loop, API): a link's object and the listed replicas exist,
  somebody answers for every object, the spool file stays while it is needed,
  every job leaves the queue, a completed copy has all its bytes;
- *deletion*: nothing is left after it, and nothing else is touched;
- *upload*: a registered file has its object, an unregistered one leaves
  nothing behind, an abort is heeded;
- *lifecycle and download*: a valid link is served while there is a copy to
  serve, an expired file goes, an extended one stays;
- *backends, capacity, migration*: no row refers to a deleted backend, limits
  hold under parallel uploads, a moved file is at its new place;
- *backups*: the last good snapshot is never trimmed, what is reported as
  successful is there, no copy of the database strays on the disk;
- *alerts*: every lasting condition is told, and told once.

## What is modelled now

**JobStore** is the abstract specification of the tables: their rows, and one
action for each transaction of `storage.py` that writes to them. Cancelling is
a DELETE by id: the SELECT that found the job free is outside the transaction,
so the model lets the job have been claimed since. A job is the
pair of its file and its target backend, which the table declares UNIQUE and
which is inserted only together with the file, so it stands for the
AUTOINCREMENT id. Instants become the answers the WHERE clauses ask for
(`unexpired`, `leased`, `due`, `heard`); clock actions change the answers at
any time. `kind` is the `promote_target` of every job ever inserted: a caller
may hold a row it read long ago. `StoreNext` lets anybody call anything.

**Replication** composes the tables with their callers. `worker[w]` is the
single main thread of `worker.py`: it asks (`AskJob`, the enabled check), is
given a job or 204 (`GetJob`, `GetNothing`), downloads, uploads, reports. The
check and the claim are two actions because they are two transactions. A
request its client no longer waits for moves to `late` and is served, or lost,
at any later time. After the transaction of a completion its handler goes on
(`sweeps`), one await after the other: it deletes the object a promotion
replaced (`SweepObject`), counts the jobs the file still has (`SweepCount`) and
deletes the spool file when there is none (`SweepDrop`). The loop does the same
(`LoopSweep`, `LoopCount`, `LoopDrop`), and a form that cancelled a job counts
and deletes like a handler. `loop` is `replication_loop` with its batch,
`deleter` the deletions of the cleanup loop and the panel, each with the values
it read. The panel's forms are `AdminStep`. The one that pauses writes the
negation of what it read an await before; since some form may have read either
value, either may be written (`TogglePause`). `ControllerCrash` drops whatever
is in memory. An object exists or not, and a file has the same key on each
backend, so a job also names an object. `strayed` is the history of objects
nobody will come back to: those whose deletion after a promotion failed or was
cut off by a restart, and the targets of cancelled jobs.

**Backends** is the configuration of the S3 backends: in memory (`live`), in
the encrypted file (`saved`), and the setting `storage_backend` (`mode`). A
form checks, exports a copy with its change, awaits the file, installs the copy
and then perhaps awaits the setting; each await is a step of its own (`form`),
so forms of several admins and uploads fall in between. The writes of all forms
go by way of one temporary file: with two at it, what one of them moves may be
the other's configuration or half of it (`saved` is then `None`, and the
program would not start), and the other finds nothing to move and fails, having
written the rest in place (`Save`, `SaveFails`). Of a backend only its
role is kept; `Eligible` is the set `_candidates` may return, of which health,
capacity and ranking pick any part.

**Upload** extends Backends with everything from a message to its link. A
nonce stands for its message, its entry of `pending_uploads` or
`active_uploads`, and the token, file name and object key that `perform_upload`
draws. `up[n]` is the coroutine with its local variables: getFile and the
cache of the local Bot API (`cache`, shared by forwards of one file), the copy
to `data/files` (`spool`), the route, the candidates in turn, the choice of the
backends to copy to, the registration and the sweep, and the two error handlers with their `finally`. An abort sets
the event at any time and is seen where the code looks at it. `cleaner` is
`cleanup_orphan_files` between its query and its deletions. Two histories
appear in properties: `early` holds the uploads aborted before their transfer
to S3 began, `broken` those whose own cleaning up was hit by an error or a
crash. What happens to a registered file is Replication when it has jobs
(`Register` there is what `RegisterCloud` adds to the tables, and both
implement JobStore) and Lifecycle otherwise.

**Lifecycle** is the rest of a file's life: visits of its link, expiry and its
extension, migration from the disk to S3, and deletion. `row`, `replicas` and
`valid` are the tables, `disk` and `objects` the files and objects. Three kinds
of tasks read a row and go by it across awaits: `del[d]`, a deletion by the
cleanup loop, the bot or the panel, with the rows of its query (`todo`), the
row in hand (`at`) and the copies it listed; `mig`, the one migration task, with
its list, the candidates left, which are chosen an await after the file was
looked for, and what it has uploaded (`made`); and
`view[v]`, a download with the locations it has not probed. The panel disables
and enables backends (`off`) meanwhile. `begun`, `crossed` and `broken` are
histories: files whose deletion began, files migrated under a deletion that
took them for local, and files whose migration met an error or a restart.

**Resume** is one replication job byte by byte. `part[w]` is a worker's
`.part` file: its length, and whether it is a beginning of the source
(`right`), which is all the code could tell apart, and it tells the first only.
`Open` continues it with a Range that the server may ignore (`ignored`),
`Write` appends, `EndOfBody` compares the sizes, and `Upload` replaces the
target as a whole, even by a worker that has lost the job.

**Capacity** is the arithmetic of room. `up[f]` reads the usage in the three
queries of `backend_usage`, chooses, sends and registers, all from the same
figures (`seen`); the migration makes its copies before the row changes; jobs
are completed, files expire, are extended and deleted at any time. `Bytes`
counts live files as the queries do; a file stands for the set of its bytes,
so that the sum of sizes is a cardinality (`Weight`), of which theorems can be
proved without induction. `gained` and `strained` are the histories of what an
upload's figures could not contain.

**Backups** has a task for `automatic_backup_loop` and one for each request to
the panel. Files are named by the second they begin in (`Stamp`); `local` and
`whole` are the snapshots and which of them are complete, `snapshot` and
`archive` the files of offsite backups, `bucket` the objects, `status` and
`tested` what the settings page reports. LastModified is the number of the
arrival (`modified`), which is remembered when the object has gone, as are the
names snapshots were begun with (`begun`): the properties say when a backup may
have been displaced. The panel globs and deletes without an await; the model
lets others run in between, as they do between the loop's deletions.

**Alerts** is `alert_loop`: the disk is read, then the tables, then three
messages may be sent, then the latches (`alerted`) are set. `told` counts
messages since a round last found the condition gone.

| action group | code |
|---|---|
| `Receive` ... `Begin` | `main.py` 1163-1324 |
| `Fetched` ... `ReceptionAborted` | `main.py` 261-356, `download_with_progress` |
| `Route` ... `SendFails` | `main.py` 1044-1071, `object_storage.py` 148-206 |
| `RegisterLocal` ... `Close` | `main.py` 1078-1143, `storage.py` 444-472, 866-877 |
| `AskReferenced`, `CollectOrphans` | `storage.py` 915-935 |
| `BeginAdd` ... `SetMode` | `admin_web.py` 550-694, `main.py` 587-616, 932-966 |
| `AskJob` ... `WorkerStart` | `worker.py` `main`, `process`, `renew_loop`, `resume_download` |
| `ReportDone`, `SweepObject` ... `SweepDrop`, `ServeLate` | `replication_api.py` |
| `LoopPoll` ... `LoopFail` | `main.py` 1471-1523 |
| `DeleteBegin` ... `DeleteFails` | `main.py` 190-206, `admin_web.py` 434-448 |
| `CancelJob` ... `TogglePause` | `admin_web.py` 399-418, 450-496 |
| `BeginCleanup` ... `DeletionFails` (Lifecycle) | `main.py` 190-213, 775-785, `admin_web.py` 434-448 |
| `BeginMigration` ... `EndUndo` | `admin_web.py` 696-758, `object_storage.py` 148-263, `storage.py` 815-855 |
| `Visit` ... `Turned` | `main.py` 1353-1408, `object_storage.py` 290-333 |
| `Take` ... `ReportFailure` (Resume) | `worker.py` 62-140, `replication_api.py` 73-102 |
| `ReadRows` ... `MarkMigrated` (Capacity) | `storage.py` 413-442, `object_storage.py` 99-263, `main.py` 1046-1121 |
| `LocalBegin` ... `Trimmed` | `main.py` 1525-1543, `admin_web.py` 350-358 |
| `OffsiteBegin` ... `Check` | `offsite_backup.py`, `object_storage.py` 345-401 |
| `LookAtDisk` ... `Remember` | `main.py` 1545-1581 |
| `Lapse`, `Silence`, `RetryTime`, `FileExpires` | the clock |

## Runs

The MC modules give the constants values.

| run | instance | checks | result |
|---|---|---|---|
| JobStore | 1 file, 3 backends, 2 workers with overlapping targets | `JobsHaveFiles`, `LeaseHasHolder`, `CopiesOnDistinctBackends`, `PromotionStandsAlone`, `PrimaryMovesOnce` | hold |
| Everyone | 1 file, 2 backends, worker, loop, deletion, every form, 1 failure | `TypeOK` (with the types of the tables), `ReplicasServed`, `ObjectsAccounted` | hold |
| TwoJobs | 1 file, 3 backends: 2 jobs, one the worker's, one the loop's; batches of 1, retries and extensions, 1 failure, fairness | `SpoolKept`, `QueueDrains` | hold |
| RemoteOnly | 2 workers on one target, loop paused, deletion and releases, 2 failures | `LinkServed`, `ReplicaRowsHaveFiles` | hold |
| Upload | 1 message, a primary and a replica backend, 1 form, 1 fault, fairness | types, `LinkBacked`, `NothingLeft`, `AbortHeeded`, `RegistersAsStore`, `OrphansCollected`, `UploadsEnd` | hold |
| Lifecycle | 1 file, local or in S3 with any replicas, 2 backends, 1 deletion, 1 visitor, the migration, 1 form, 1 fault, fairness | types, `Served`, `Accounted`, `TurnedAwayForCause`, `ExpiredGo`, `MigrationEnds` | hold |
| Resume | 2 workers, 4 chunks, 3 faults, fairness | types, `TargetComplete`, `TargetWhole`, `JobDone` | hold |
| Capacity | an upload and a migrated file, 3 backends (2 with room for either file, 1 without limit), 2 copies, 1 extension, 1 failure | types, `OverfullForCause`, `OnDifferentServices` | hold |
| Operations | the loop and one request at a time, 2 seconds, 1 backup kept, 2 errors; and, apart from it, alerts of 2 backends with 4 changes and 2 mishaps, fairness | types, `NewestSnapshotKept`, `ReportsTrue`, `NothingStrays`, `AlertedOnce`, `AlertsArrive` | hold |
| LinkLost | worker and loop, 1 failure | `LinkServed` | violated |
| BackendGone | 1 message, 2 backends, 1 form, no fault | `LinkedBackendsStay` | violated |
| Extended | 1 file, 1 backend, 1 form, no fault | `CleanupSparesValid` | violated |

What the violations show:

- **LinkLost.** Worker and loop hold the same promotion (the worker's lease
  lapsed, or it went silent). Both complete it. The second completion reads
  the primary's location, which by then is the target itself, returns it as
  `old_backend`, and the handler deletes it: the link's only object. A remote
  worker alone cannot do this, since its second completion is refused;
  `LinksKept` proves that one kind of runner is safe.
- **BackendGone.** `delete_storage` counts the rows that refer to a backend. An
  upload in flight has no row yet; it registers its file on the backend after
  the count, and the link has nowhere to go.
- **Extended.** `cleanup_expired_items` reads the expired files once. One whose
  expiry is extended before its turn comes is deleted nevertheless.

### What the models show without a run

What the properties except, or the actions contain, is behaviour of the code
too. Of the queue and the uploads:

- The loop completes a job whose file was deleted meanwhile, and the replica
  row it inserts stays without a file: the declared cascade (`storage.py:128`)
  needs `PRAGMA foreign_keys`, which is off. `ReplicaRowsHaveFiles` is
  therefore stated with the loop paused.
- A copy uploaded after a deletion read the list of copies stays in S3 with no
  row that refers to it.
- The deletion of the temporary file after the last commit is a step of its
  own: a restart in between leaves the file until its record goes. The object
  a promotion replaced is deleted after the commit too; an error there, or a
  restart, leaves it for good, as cancelling a job leaves what its runner
  uploads. `ObjectsAccounted` excepts these (`strayed`) and no other. The
  comment in `replication_api.py:86` has it that such an object can be cleaned
  up later; nothing does.
- The cancel form refuses jobs leased to workers only, so it cancels a job the
  loop is transferring; `replication_paused` is read by the loop alone, so a
  paused queue still feeds remote workers.
- An abort right after getFile leaves the file in the Bot API's cache; two
  configuration forms at once lose one of their changes; and an error of the
  last deletion in `perform_upload` comes before `record_saved`, so the handler
  deletes the object of a file that is already registered (the case
  `LinkBacked` excepts through `broken`).

Of files and copies:

- A deletion that read a local row while the migration moves the file deletes
  the local file and the record, and leaves the primary it never knew in S3
  (`crossed` in `Accounted`), although `admin_web.py:227` says that deletion
  includes the primary.
- A visitor who read the local row just before the migration dropped the file
  is turned away, and so is one whose file's copies are all on disabled
  backends, although `README.md:149` of the repository says that disabling
  leaves the copies downloadable (`TurnedAwayForCause` names both).
- A restart between the change of the row and the deletion of the local file
  leaves that file on the disk until its record goes (`broken` in
  `Accounted`).
- The worker compares sizes only. A server that ignores a Range appends the
  source to what is there; were that cut off at exactly the expected size, the
  result would be taken for the file. `TargetWhole` excepts `ignored` for this
  reason. `.part` files of jobs that somebody else finished stay on the
  worker's disk.

Of room, backups and alerts:

- Uploads that overlap decide on figures that do not contain each other, the
  three sums of `backend_usage` are read at three moments, the room of a
  promotion's destination is never looked at, and expired files are not counted
  although they are there until the cleanup and may be extended. These are
  the causes `OverfullForCause` allows (`strained`), and it shows that there is
  no other.
- `create_offsite_backup` takes its snapshot before the `try`: when that
  fails, the file stays and the last status, perhaps "ok", stays too. The
  same holds for the listing and the download of the restore test.
- When the first of the two deletions in its `finally` fails, the second is
  skipped, and the archive with `config.key` stays in `data/backups`. With an
  error of the first snapshot and an end of the process this is the third event
  `NothingStrays` excepts (`stray`).
- Two offsite backups of the same second share their file names and key
  (`twice`). Unfinished local snapshots count among the ones that are kept, and
  a backup that fails trims nothing.
- Requests to the panel may overlap. When ten newer snapshots have been begun
  before an older request comes to trim, it deletes what may be the only good
  one, its own, while the newer ones are unfinished or fail.
  `NewestSnapshotKept` allows this case (`Overlap`) and no other.
- A second backend that becomes unhealthy while another one is gets no alert
  of its own; a message that fails makes the earlier ones of its round come
  again.

**Bounds.** `MaxFaults` bounds failures (S3 errors, timeouts, crashes, lapses
under a working runner). `BatchLimit` is the LIMIT of the loop's query. One
file is enough for what the runs on the queue ask: no transaction reads another
file's rows, the loop works its batch job by job, and the properties speak of
one file at a time; two jobs of one file (TwoJobs) are where runners meet. That
run leaves out the form that cancels, with which its states are too many for
liveness; `SpoolStays` proves `SpoolKept` with every form, and Everyone has
cancellation with one job. Two
workers on one target are the smallest number that can fight over a job. The
proofs hold for any number of files, backends, workers, deletions and failures.

In the Upload run `MaxForms` bounds the forms and `MaxFaults` the errors of
Telegram, S3, SQLite and the disk and the crashes; one of each, at every step,
already crosses every await of an upload with a change of configuration or with
an error path. Two backends give a failover, a transit and a replica target.
The run has one admin, so forms do not cross in it, and no configuration file is
half written; the theorems hold for any number of admins.
What uploads share is the cache path of one Telegram file and the cleanup;
`Backed` and `Clean` are proved for any number of messages with shared files.
`Recent` bounds the clock: a file written moments ago is not an hour old, so
receiving after the last chunk, registering a local file, and the time between
the cleanup's query and its deletions do not take an hour. Nothing of the kind
is assumed of transfers to S3, whose spool file may be collected under them.

In the Lifecycle run one file suffices because no step reads another file's
row: a second would only lengthen the lists. One deletion against the
migration and a visitor makes every crossing of two tasks; the theorems hold
for any number of each. In Resume a size of 4 has a `.part` that is empty,
short, whole and too long, and cuts at every place between. In Capacity each
limited backend has room for either file and not for both, and the unlimited
one lets copies go elsewhere. In Operations one backup is kept, so
every further one trims, and two seconds let two backups be of the same and of
different ones; backups and alerts share no state, so the run explores either
while the other rests. The run has one request to the panel at a time, beside
the loop: with two the states are too many. What overlapping requests add is
left to the theorems, which hold for any number of them.

Deadlock is checked where the system never comes to rest (JobStore, Upload,
Lifecycle). Elsewhere it may: no job, no file or no budget is left.

**Fairness** (`FairSpec` of Replication). A worker that is up, the loop and the handlers take
their next step (threads and tasks are scheduled, requests end), an untended
lease lapses, a backoff ends and a silent worker is noticed, because the clock
goes on. Nothing is assumed of uploads, deletions, admins, renewals, restarts
of a crashed worker, or failures. Steps that spend the failure budget are not
fair. `QueueDrains` excuses jobs of expired files, which no claim returns, of
files whose deletion began, and
a paused queue.

`FairSpec` of Upload assumes the steps of an upload that is under way, without
faults (the event loop runs its tasks, and getFile, S3 and the disk answer or
time out), that spool files age, and that the cleanup loop goes round. Nothing
is assumed of senders, admins, aborts or crashes.

`FairSpec` of Lifecycle assumes that the cleanup loop goes round and that
deletions and the migration are continued; that of Resume that workers poll
and go on, and that a lease nobody renews lapses; that of Alerts that the loop
goes round and messages that are not refused arrive. None assumes a step that
spends the failure budget, and nothing is assumed of visitors, forms or the
expiry of files.

## Proofs

`JobStoreProofs` proves `StoreSpec => []StoreInv` and from it each property of
the JobStore run. `JobsHaveFiles`, `LeaseHasHolder` and the types are inductive
together. `CopiesOnDistinctBackends` and `PromotionStandsAlone` are not: a late
`CompleteReplicationJob` acts on a job whose row is long gone. `KindInv` keeps
what is known of such jobs: a replica job never names the backend of its
primary, and a promotion has its file to itself among all jobs ever queued.
`PrimaryMoves` is an action property from the same invariant.

`ReplicationProofs` proves that every step of every caller is a transaction of
JobStore or leaves the tables alone (`StepIsStoreStep`). This is so by the way
the actions are written and is used as a lemma only: the invariant of the tables
holds here. `Types` needs `HandInv`: whoever is past a claim has a job in hand.

`ServiceProofs` follows an object through its life. Five facts about single
steps (`StepFacts`) say what puts a job in hand, when an upload may be
reported, what a promotion abandons, who may delete an object, and what may be
recorded. From them:

- `Failover`: every listed replica is in S3 until its file's deletion starts.
  The invariant adds that unreported uploads of replica jobs are in S3
  (`ReplicaUploads`), which holds through lapsed leases, late requests and
  restarts because only promotions and deletions remove objects, and a
  promotion abandons the old primary, never the object of a replica job
  (`AbandonKind`).
- `LinksKept`: the object of a link is in S3 until deletion starts, if the
  loop is the only runner (no workers) or paused for good (`OneRunner`). The
  added parts are that an abandoned object is not the primary again
  (`AbandonMoved`) and that the loop is never at a promotion already done
  (`LoopFresh`). Without `OneRunner` the theorem is false: run LinkLost.

`UploadProofs` proves for any number of messages, shared files, backends,
admins, forms and faults:

- `Typed`: type correctness.
- `Backed`: a registered file is where its row says, unless the upload's own
  cleaning up met an error.
- `Clean`: an upload that ended without a row left neither object nor
  temporary file, with the same exception.
- `Aborted`: an abort accepted before the transfer began is never followed by
  a row with an object.
- `Registers`: every step is one of JobStore's transactions or leaves its
  tables alone. The registration needs that a promotion's target is not the
  backend that took the object, although the roles were read before the
  transfer and may have changed twice since.

Each property speaks of the end of an upload; the invariant `IInv` says what
makes it so at every step before, per upload, from what the coroutine knows:
which backends may have the object while candidates are tried (`Tried`), when
the spool file must be on the disk (`Received`), that a row has its object or
file (`Given`), that an upload without a row has no object but the one it
holds in its hands and will delete or register (`Bare`), and that an early
abort keeps the upload out of "sending" (`Heeded`). The part that is not
about the upload is the cleanup's snapshot: a local file missing from it was
registered after the query and is recent.

`ServiceProofs` also proves what the queue runs ask of the runners:

- `RowsOfFiles` with the loop paused for good (`PausedForGood`), from
  `PauseInv`, the loop at rest, which leaves completions to the transaction
  that asks for the lease and the file.
- `SpoolStays`, without any condition. Count and deletion are two steps;
  `DropInv` says that between them the file still has no job, since jobs come
  only with the insertion of a file whose token was never issued before. A
  deletion has made the file `doomed`.
- `Objects`, the account of the objects, for any mix of runners. Three facts
  are inductive together (`AccountInv`): `ObjectsAccounted` itself;
  `JobsAccounted`, that of every job ever queued the target is the primary, a
  replica, queued still, or `strayed`, unless the file is doomed; and
  `RowsDoomed`, that a row goes only with a deletion. A runner that uploads for
  a job it read long ago thus adds an object that somebody answers for, and the
  primary a promotion leaves behind is in the hands of the one request that
  completed it (`Pending`).

`LifecycleProofs` proves `Served`, `Accounted` and `TurnedAwayForCause`. The
difficulty is that each task goes by a row it read earlier, so the invariant
says what is still true of it: `Holding`, that a row read by a deletion has not
changed but for a migration (`crossed`) or is gone; `Deleting`, that the
objects left are those the deletion still has on its list; `Unmoved` in
`Migration`, that the files the migration has yet to move are local or gone,
and that what it has made is in S3 unless a deletion began; and `Viewed`, that
a visitor has the file's place among the locations not probed, or one was
missed.

`ResumeProofs`: `Sizes` keeps that whoever is past the check of the download
has a `.part` of the whole size, so every upload, late ones of workers that
lost the job included, writes an object of that size. `Beginnings` adds that,
while no server has ignored a Range, a `.part` is a beginning of the source and
the next byte is the one that is missing.

`CapacityProofs` proves the properties of the Capacity run for any files, sizes,
rooms and numbers of uploads at a time. Its lemmas on `Weight` say what a file
more or less adds or takes. `OverfullForCause` compares what the tables assign
with limits that were checked against figures read long before. So the
invariant says, per upload, how the figures relate to the tables now: `Figures`,
that after each of the three queries they are not below the sums read so far,
but on backends that have gained since the first; `Chosen`, that each backend
an upload may still send or copy to fits by its own figures; and `Fresh`, that
nothing is recorded of a file before it arrives. An arrival then either fits or
meets a backend in `gained`, which is when it becomes `strained`.
`OnDifferentServices` is inductive with `Chosen`: targets and copies never
include the backend that took the object.

`OperationsProofs` is about backups and alerts. Of the backups it proves, for
any number of requests, names and copies kept:

- `SnapshotKept`. The invariant `Snapshots` has for each task that trims that
  the names on its list have been outdone, by as many as are kept (`Trims`); the
  history `begun` makes that stable, while the files may go meanwhile. A task
  alone with its kind is known better (`Sole`): its name is the latest, what it
  has copied is the newest, and what it deletes is older.
- `ReportsHold`. `Course` says that a backup whose name no other was given has
  its files to itself, so what it uploads is whole and the first of its name;
  `Knows`, that what a task is about to delete has been outnumbered, or has a
  name given twice, and what it is about to report has arrived; `Bucket`, that an
  object that arrived is whole or has been outnumbered. Arrivals are never
  forgotten, so the list `prune_prefix` read before other objects came is still
  right to delete by.
- `NothingLeft`. `Owned`: every file of an offsite backup has a task that will
  unlink it, or is `stray` by one of the three events. The archive is owned
  until its own deletion, after that of the snapshot.

Of the alerts it proves `ToldOnce`: `Quiet` says that an alert which is not
latched, and not yet sent in this round, has cost no message but for mishaps.
`OperationsTyped` is the type correctness of both, in the composition.

The proofs use the named assumptions on the constants: targets are backends,
`None` and `Local` are none of the backends, bounds are naturals, sizes and
numbers of copies kept are positive, and the files of Capacity are finitely many.

Only model-checked: `QueueDrains`, `OrphansCollected`, `UploadsEnd`,
`ExpiredGo`, `MigrationEnds`, `JobDone` and `AlertsArrive`, since liveness under
fairness is out of the prover's reach. Every other property of a passing run is
a theorem.
`LinkServed` with both kinds of runner is false.

## Not modelled

- **Authentication** (password, login limiter, sessions, CSRF and API tokens):
  access control. The handlers are modelled as the logged-in administrator and
  the registered workers run them.
- **What two configuration forms at once should do.** Backends has their
  interleavings, the lost change and the half-written file included, and the
  upload properties hold under them; no document says what the result should
  be, so no property does.
- **The order of candidates.** `rank` in `_candidates` and
  `resolve_download_location` orders what is allowed anyway; every order is
  allowed here, so what is shown does not rest on it.
- **Methods nobody calls**: `delete_by_token`, `add_with_replicas`,
  `mark_migrated`, `best_location`.
- **Shell scripts, installer, parsing of the environment, encryption of
  credentials, pages and message texts**: no state that changes, or I/O outside
  the running program.
- **Telegram, S3 and SQLite themselves**: a call succeeds or fails, perhaps
  after its effect; an object is there or not; a transaction is one step. Ties
  of S3's LastModified and changes of the local clock are left out of Backups.

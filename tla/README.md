# LANrurugi in TLA+

LANrurugi serves a library of comic archives: it downloads archives through
plugins, watches a directory, catalogues what arrives, and serves pages,
searches and recommendations. These modules describe the parts of the server in
which several actors touch the same state, and say what they may and may not do.
TLC checks them on small instances, TLAPS proves the main invariants for all
values of the constants. Paths below are relative to `src/crates/`, and `api`,
`core`, `storage`, `scanner`, `plugin` and `server` are the crates
`lanrurugi-api`, `lanrurugi-core` and so on. `PROJECT.json` maps each definition
to the lines it stands for.

## The system

| component | state | operations | what makes it hard |
|---|---|---|---|
| download queue (`api/download_queue.rs`, `api/plugins.rs`, `storage/download_queue.rs`, sweeps in `server/main.rs`) | one Redis value per row; in memory: jobs, cancellation tokens, tasks | start, stop, pause, delete, patch, confirm; the task of a run; the detached writers; metadata fetch; two sweeps | every update is fetch, change, overwrite; requests vanish, tasks are cancelled, the process restarts |
| job gate of a plugin (`api/download_manager/mod.rs`) | a chain of one-shot channels, a replaceable semaphore | take a turn, acquire, give up, be cancelled | order across tasks of unknown speed; a drop must pass the turn on, not too early |
| filename reservations (`core/filename_lock.rs`) | a set of names | lock by polling, drop the guard | the release is delayed and goes by name |
| single flight (`core/singleflight.rs`) | a map of cells, a semaphore | run | any await may be the last one of a caller |
| ingest, scanner and watcher (`api/download_manager/ingest.rs`, `scanner/`, `storage/repository.rs`) | archive records, FILEMAP, files, staging directory; the watch, its signals and scans | catalogue, overwrite, rekey, move, scan, recover, repair | two stores and a disk with no transaction, a watcher that sees half-done work and breaks |
| archive rename (`api/archives.rs`, `server/main.rs`) | the same, a rename journal | rename, resolve at startup | crash between disk and store; two filename locks at once |
| recycle bin (`api/recycle.rs`, `storage/recycle.rs`) | a directory per deleted archive, its entry in a file and in Redis | delete, restore, purge, sweep, reconcile | a move and three stores, undone or finished by whoever comes next |
| subscriptions (`api/subscriptions/`, `storage/subscriptions.rs`) | seen and rejected works, questions, reservations, snapshot | scheduled and manual check, answers, edits | acted on first, recorded last; overlapping checks; a bad listing |
| domain permits and rate limits (`api/download_manager/`) | a semaphore and a token bucket per host pattern | acquire, release, change rules | the limit changes while permits are out |
| plugin pool and HTTP relay (`plugin/pool.rs`, `plugin/http.rs`) | one process per plugin, calls by request id | execute, reply, time out, respawn | late replies, dead processes, a lock held across a call |
| tokens and sessions (`storage/refresh_tokens.rs`, `api/login.rs`) | token families in Redis | rotate, burn, list | concurrent use of one token, reuse detection |
| shares (`api/shares.rs`, `api/share_net/`) | share records, peers, imports | publish, use, import | use counters, remote peers |
| workers for images, embeddings and books | child processes | request, idle stop, respawn | a request that meets the stop |
| search, tankoubons, categories, statistics, translation, OCR, backup, web frontend | records and pure computations | | mostly sequential |

Requests reach the queue and the library through axum handlers, whose future is
dropped when the client goes away. A start request launches a *run*, a spawned
task which passes the job gate of its plugin, calls the plugin through the
plugin pool, downloads under a domain permit, takes the reservation of the
destination name, ingests the file through the scanner's pipeline, and updates
its row all along. Uploads and the watcher take the same reservations. The
single flight stands in front of page and thumbnail rendering, archive
discovery, the plugins' HTTP requests and price look-ups. A rename takes two
reservations, a delete or restore one for the archive and one for the file name,
and all of them change the records, FILEMAP and the directory which the watcher
and the scans read. A startup reconciles and sweeps the bin, sweeps the queue,
resolves the renames and repairs the records, in this order, before the watcher
starts. A subscription's check asks a plugin for a list of works and puts rows on the queue.

What each must get right, in one line: the queue tells the truth about its runs
and loses none; the gate serves in order and strands nobody; one ingest per
filename; one computation per key and no stale result; library, FILEMAP and disk
agree after a crash; a rename is undone or finished, never half; no more
connections to a host than allowed; a plugin's answer reaches its own caller; a
burnt family has no living token; no work of a subscription is lost.

## Modules

| module | what it is |
|---|---|
| `DownloadQueue` | rows, runs, requests, sweeps, restart |
| `DownloadQueue_proofs` | its theorems |
| `JobTurns`, `JobTurns_proofs` | the job gate and its theorems |
| `TurnLine` | what the gate promises: a first-come, first-served line |
| `FilenameLocks` | filename reservations |
| `KeyedMutex` | what they promise: one mutex per name, given back atomically |
| `Singleflight` | the single flight |
| `Primitives_proofs` | the theorems of these two primitives of lanrurugi-core, whose names are kept apart for it (`LockInit`, `LockNext`, ...) |
| `Library`, `Library_proofs` | downloads, watcher and scans against one directory, crashes and repair, and theorems |
| `LibraryAtRest` | the invariant of `Library` from which a library at rest serves its files |
| `RecordRepair` | the startup repair of records, used by `Library`, `ArchiveRename` and `RecycleBin` |
| `ArchiveRename`, `ArchiveRename_proofs` | the rename, its journal, the startup, and theorems |
| `ArchiveNames` | what a rename promises: an atomic change of name |
| `RecycleBin`, `RecycleBin_proofs` | delete, restore, purge, sweep and the startup's reconciliation, and theorems |
| `Subscriptions`, `Subscriptions_proofs` | one subscription's checks and requests, and theorems |
| `PluginPool`, `PluginPool_proofs` | calls of plugins, their processes and pipes, and theorems |
| `MC...` | instances for TLC |

Operators marked "Mutant" in the modules are variants of an action with a
plausible mistake in it. They are never part of a specification: they record,
for each property, a change of the code which that property notices.

### DownloadQueue

`row` is what Redis holds, reduced to the state, the job id, the run whose
archive ids it carries, and the approval of an older revision: all that any
decision reads. `ingested` is history: the runs that got through ingestion.
A start launches its run from inside its handler, in three steps, each of which
waits for a lock and may be the handler's last: `CreateJob`, `RegisterToken` and
`SpawnTask`. A run whose handler was dropped on the way is at "dropped".
`pc[j]` is the place of run `j` in the task of `start_download`. At a place in
`WritePlaces` the task updates its row, in two steps: `Fetch` keeps the changed
copy in `put[j]`, `Store` writes it over whatever is there, and `LoseStore` is
an update given up after its retries. `Image` says which fields an update
changes, including those it resets by passing `None`. Between these places:
`Negotiate` and `PassTurn` (the job gate), `PluginAnswers`, `Classify` and `Ask`
(older revisions), `Grant`, `Answered`, `Transferred` and `TransferFails`
(permit, response headers, body), `Ingested` and `IngestFails`, `Abort` (the
cancellation branch, which reads the row again), `Report` (the job's end) and
`Cleanup` (the token's).

`aside[j]` holds the two writers a run does not wait for: the task that writes
Downloading when the permit comes, and the progress drain, which is joined when
the transfers succeed and left behind when they fail. `meta[i]` is the spawned
metadata fetch. `client[c]` is one request, cut at each Redis round trip;
`Disconnect` may end it at any of them. `sweep` is what the periodic sweep
listed and has not looked at yet. `Restart` forgets all of memory and runs the
startup sweep, which ends before the listener opens.

Abstracted: titles, progress, order of rows, activity records, several files per
plugin answer (the row sees their common outcome), the inside of ingest, and the
second Redis key which lists the rows. Not modelled: rows put on the queue
later, upload and share-import rows, and the resolution of a staged filename
conflict.

### JobTurns

A job is named by the place of its turn. `signalled` are the jobs whose sender
has been dropped, which is what the next job waits for; `relays` are the tasks
that `JobTurn::drop` spawns when the predecessor has not passed yet. A pool is
named by the job that put it in the slot, so that permits of a replaced pool
keep their meaning. `Resolve` reads the declared concurrency before the wait for
the turn, as the code does, and `ChangeRules` may change it in between.

### FilenameLocks

`locked` is the set; `Reserve` and `FindTaken` are one attempt of the loop;
`DropGuard` spawns the removal which `RunRemoval` runs later, by name and
without a look at who reserved it; `GiveUp` is a future dropped while it waits.

### Singleflight

`cell[c]` is the cell a call found or made, and is named by the call that made
it. `BeginInit`, `Acquire` and `Finish` are the `OnceCell` initialiser, run by
whichever call of the key came first to the cell, and by the next if that one is
dropped; `Remove` is the owner's last step; `Abandon` drops a call at an await.

### Library

`disk`, `record` and `filemap` are the directory, the archive records and
LRR_FILEMAP. An archive's id is the hash of its bytes, so contents and ids are
one set. `task[w]` is what a worker ingests, cut at each Redis round trip, each
rename and each removal; downloads, the watcher's loop (`Watcher`) and the two
scans (`Boot`, `CatchUp`) run the same pipeline, `Ingest`, and differ in where
the file is, in the policy for a name in use, and in the reservation, which
scans do not take. Reservations are those of `KeyedMutex`, which
`FilenameLocks` is proved to implement. `scan[s]` is the progress of a scan:
`Walk`, `Keys` (the filemap as it was), `Prune`, `Verify`, `ForgetDead`,
`TakeFile`. `watch` is the supervisor with its watch; `SeeFailure`, `SeeRescan`,
`Recover` and `RestartWatcher` are its branches. `UserChanges` puts a file there
or takes it away. `Crash` forgets all but the stores; `Startup` is the repair
followed by the boot scan; `StartupDies` is a repair interrupted anywhere.
`raced` is history, and excuses what no reservation prevents. A name lost its
file or got other bytes (`NoteRace`) while a scan ran, or while another file, or
an ingest of another file, had the same bytes (`Doubled`). Or a download made an
archive of bytes that the filemap still had under a name that lost them, or that
a name of the user's had to do with, in its file, mapping, record or task
(`NoteOutdated`).

Assumed of the environment: the user changes a file to bytes that no file,
record, mapping or ingest has (`Fresh`); while the program runs, a user works on
names no download is about; one scan's files are ingested one after the other (the two scans overlap). Left out: filemap
entries of staging paths, read errors in the middle of a scan, the copy that
replaces a rename across file systems, page counts, the idle throttle, and the
temp-directory paths which old releases left in records.

### ArchiveRename

`task[r]` is a rename request with the copy of the record it read, `journal`
the PENDING_RENAME entries, `boot` the startup. `Journal`, `Move`, `Save`,
`Unmap`, `MapNew` and `Clear` change one store each; `...Refused` and
`RefusedUnseen` are those steps refused, `Undo` the way back after a failed
save, `Disconnect` the handler dropped. The startup has refusals of its own: of
the journal as a whole (`BeginRefused`), of a record (`ResolveUnread`), of its
save, and of an update of the filemap that nobody sees (`ResolveRefusedUnseen`).

Three histories collect what the properties excuse. `exposed` are the archives
whose rename Redis refused to journal (it is best effort) or to resolve: the
repair may drop their record. `doubtful` are old names which a refusal may have
left mapped. `crossed` are the archives whose renames got in each other's way:
nothing in the code asks whether the new name is in use or another rename of the
archive goes on, so `StartRename` starts any rename, and where it is not a
`Careful` one, notes its archive and the others that have to do with either
name. Findings says what becomes of them. Left out: the patch file beside an
archive and the activity records.

### RecycleBin

`bin[i]` is the directory of an archive in the bin, with its payload, its
`meta.json`, and whether it is old; `inventory` is the Redis hash. Requests take
the reservation `recycle:{id}` and that of the file name. `sweep` is the hourly
sweep with the list it works from, `boot` the startup, which reconciles the bin,
sweeps it and repairs the records. `loose` says that something was refused or
abandoned since the last startup; `astray` collects the archives the code loses
track of in the ways Findings lists, so that the properties hold of all others.

Assumed: a file is copied in only under a free name that no record and no
request uses, its notice by the watcher is one step, days pass only with no
request at work, and two archives have different sizes. Left out: recycled
tankoubons, patch files, thumbnails.

### Subscriptions

One subscription. `offer[w]` is what the source would list of a work and how the
rules judge it. `check[c]` is a run of `run_check`: `Tick` or `CheckNow` starts
it, then it lists, reads what was settled before, decides, acts on each
accepted work, and records what it saw (`seen`, `rejected`, the snapshot and the
row). `user[u]` is a request: an answer to a question or a reservation, a
dismissal, a block, a withdrawal, a request to reconsider, an edit, a delete.
`claimed` is the scheduler's in-flight claim, which a manual check does not take.
`handled` are the works that were queued, held, superseded, withdrawn or
answered; an answer counts from the moment its request is read. `pruned` are the
reservations dropped from a full list; `crossed` are the works of a request to
reconsider that met a running check. Any call of Redis may be refused: a read
before the decision, some of which the check goes on without (`DecideUnread`), a
write of what it decided (`RefusedAct`, `RefusedMark`, `RefusedSave`), or one of
a dismissal (`DismissRefused`). `missed` are a check's works whose question,
reservation or rejection was refused; if that check then records them as settled
they are `lost`.

Abstracted: time (a check is due whenever it is enabled and not claimed), the
rules of `matcher.rs` (any verdict), whether an archive's revision is newer
(either). Merged into one step each: listing and claiming, `delete`, a discard, and the
reads of library, questions and reservations before a decision (one or more of
them may be refused). Pruning
may drop any subset, for other subscriptions fill the same list. Left out: the
list of blocked hashes, previews, cycle history, metadata re-fetch.

### PluginPool

Calls are numbered in the order in which they queue for the lock on the map of
workers (tokio's mutex is fair), and a worker has the number of the call that
spawned it. `LookUp` is what a call does between two awaits once it has the
lock: compare the file's mtime with the worker's, drop a stale worker, go on to
spawn or to write. `SpawnWorker` follows the answer of the throwaway process.
`Write` puts the request on `stdin`; `Deliver` is the reader task, which hands
a reply to the call that waits for it (`Reach`) or starts a relay, whose answer
`RelayAnswers` puts on `stdin`. The process is `dispatcher.ts`: `Import`,
`Read`, `Reply`, `Fetch` and `Flush`, of which the last blocks it while
`stdout` is full. `Drop` is a caller whose future goes away: its lock is free,
its request and the reply to it remain, and a line half written stays on the
pipe (`cut`), where it ends the process with the next one (`ReadTorn`). `Loop`
and `Exit` are a plugin's misbehaviour, `Edit` a new version of its file.

Abstracted: what calls say, the origin's answers and their time-out, and the time
a reply takes to wake its call. A pipe holds `PipeRoom` lines. Left out:
the relay's cache and host list (`http.rs`), permissions, and an edit that gives
a file an older mtime.

## Runs

| run | instance | distinct states | shows |
|---|---|---|---|
| `filename_locks` | 3 callers, 2 names | 1 332 | no leaked or stolen reservation, refinement of `KeyedMutex`, nobody stranded |
| `download_queue` | 1 row, 1 run, 1 client with all operations, all background writers, 1 restart | 2.66 million | jobs and archive ids stay true under stale copies and dropped launches |
| `queue_two_runs` | 2 rows of one url, 2 runs, 2 clients that start and confirm | 1.8 million up to symmetry | tokens when two requests start one row, or two rows of one url, at once |
| `queue_liveness` | 1 row, 1 run, 1 lost update, 1 restart | 0.43 million | every run ends and nothing stays in flight, unless a server is silent |
| `job_turns` | 3 jobs, capacities 1, 2 or none, 2 changes | 0.17 million | order, a limit that holds while it stands, refinement of `TurnLine`, nobody stranded |
| `singleflight` | 4 calls, 3 keys, 2 permits, any call dropped | 0.46 million | one work per key, no permit lost or made up, freshness while owners stay, calls return |
| `library` | 2 downloads of one name, of new bytes or of the user's file's, watcher, both scans, 1 fault | 1.74 million up to symmetry | at rest every file is served; no file is clobbered |
| `library_watch` | 2 contents under 2 names, changed once, 2 faults, no download | 0.30 million | every file is served in the end, whatever happens to the watch |
| `rename` | 2 requests, 2 archives, 4 names, 2 renames, 1 refusal, 2 crashes | 0.86 million | but for crossed and exposed archives: no crash loses an archive, renames are atomic (`ArchiveNames`), the filemap tells the truth; renames end unless they wait in a circle |
| `recycle` | 2 requests, 2 archives, 3 operations, a copy, a sweep, a refusal, a crash | 3.2 million up to symmetry | nothing not purged is lost, recovery lists what the bin holds |
| `subscriptions` | 1 work, 2 checks, 1 request, 1 change at the source, 1 fault | 0.98 million | no work slips away and what matches is offered, but for what a refused write of a decision loses |
| `plugin_pool` | 3 calls of 1 plugin, pipes of 1 line, 2 fetches, 3 upsets | 0.61 million | no old code answers, a process fails one call at most, every call returns but behind a jam |

Why these bounds. Three callers are enough for a holder, a waiter and a late
removal; two names let them collide or not. Three jobs are the fewest with a job
between two others whose end of the chain may be dropped early, and two changes
let a pool be replaced and a third capacity come after it. Four calls let an
owner be dropped while one call works, one waits and one comes later; three keys
exceed two permits. In the queue one row and one run already have up to seven
writers of that row; the second run is needed for what two generations of a row
do to each other, and the second row for the duplicate check. In the library two
downloads of one name meet the collision, the overwrite and the numbered name,
with a watcher and two scans beside them; one fault puts a crash, a broken watch
or a refused step anywhere, and `library_watch` has two, so that a crash meets a
recovery. A rename needs two crashes for one during the startup that repairs the
other, and two renames to swap, to take a name in use, or to go on after a
failure; the name `b.zip.zip` has the stem `b.zip`, which is a file's name, so
that the repair has a candidate. (`IndInv` and `MappingInv` were also checked
with three renames, in 8.6 million states.) Three
operations of the bin are a delete, its restore and another delete. A
subscription's works do not meet each other except on full lists (`pruned`), so
one work shows what two checks, a request, a change and a fault do to it. In the
pool the third call is the one that could find both pipes full: the first left a
plugin that fetches twice, the second a request nobody reads. Pipes of one line
fill soonest. Other plugins matter only by the lock, and the proofs have them.
Symmetry is used for interchangeable clients, downloads, requests and archives,
with invariants and one action property, never with liveness. What grows beyond
these bounds is what the proofs cover, all but liveness.

Every bound is a constant: `MaxRuns` (runs ever launched), `MaxFaults` (updates
lost; in the library crashes, broken watches, dropped events, restarts and
refused steps; in subscriptions bad listings, refused steps, lost clients and
restarts), `MaxCrashes`, `MaxErrors` (refused steps and lost clients),
`MaxJobs`, `MaxChanges`, `MaxIngests`, `MaxUserMoves`, `MaxRenames`, `MaxOps`,
`MaxCopies`, `MaxSweeps`, `MaxRequests`, `MaxFetches`, `MaxUpsets` (edits, lost
clients, failures, processes that loop or exit), and `Background`, `Requests` and
`Impatient`, which choose who takes part. `MissingThreshold` is 3 in the code
and 2 in the run. `RoomForRun` turns a start away before it stores Starting when
no run is left for it; without it the bound would leave a row that the real
program would have launched a run for. Deadlock is not checked where every actor
may have finished: no request, file, rename or change left to make.

## Fairness

Spawned tasks are polled by tokio, plugin calls end by a time-out in the pool,
and the sweep's interval keeps ticking: so `FairSpec` of the queue has weak
fairness for each run, each detached writer, each metadata fetch and the sweep.
A transfer has no time-out of any kind. `AtPeer` names the places where a run
may therefore wait for ever: for a permit and for data until it is cancelled,
for the response headers even then; no fairness is assumed there, and
`EveryRunEnds` and `NothingStaysInFlight` say what holds nevertheless. Nothing
is assumed of clients: a request may stop for ever or be dropped, and a row left
in flight by one is the sweep's to repair. Redis may fail `MaxFaults` times,
each after its retries; one that fails for ever repairs nothing. In the gate
each started job runs and a plugin call ends; the wait for a turn in the queue
(`PassTurn`) rests on `NobodyIsStranded` there. In the single flight the runtime
polls what is ready and work ends. For filename locks no fairness makes one
poller win a race, so what is checked is weaker: a caller that waits for ever
does so because others keep holding the name (`NeverStranded`).

In the library every worker and scan is a spawned task that runs on, the loop
takes what is reported, the supervisor sees its signals, and a process that is
down is started again. An ingest ends: it reads local files, and the watcher's
loop gives each a time-out. In the rename each handler runs on while its client
stays (`Disconnect` may come, its place is any await) and startup ends. In
subscriptions there is one weak fairness for the ticks and the steps of all
checks together: some check goes on, which one is tokio's choice; that is
enough, for a check's plugin calls have time-outs and its steps are finitely
many. In the plugin pool the tasks run on, and a process that does not loop
reads and writes what is there; whether it imports, replies or fetches is its
own affair.

## Proofs

All theorems are about `Spec`, for any values of the constants which the
modules' assumptions allow: `QueueAssumption` (the three bounds are naturals,
at least one run), `TurnsAssumption` (capacities are positive, "no limit" is no
number), `SingleflightAssumption` ("nothing" is no call, at least one permit),
`NamesAssumption` and `SubscriptionsAssumption` (placeholders are no names,
bounds are naturals), `PoolAssumption` (the same, each call has a plugin),
`NumberedAssumption`, `StemAssumption`, `BoundsAssumption`, `WorkersAssumption` and
`NothingAssumption` of the library (a download tries the wanted name first, an
archive file has an extension, bounds are naturals, workers are not each other,
"nothing" is no record), and `NamesAssumption` and `TriedAssumption` of the bin.
`AlwaysFilesSurvive`, `AlwaysRestingFilesAreServed` and `AlwaysRecordsAreTrue`
assume `NamesApart`, a condition on the names downloads ask for without which the
code does not keep the property (Findings).

- `Primitives_proofs`, reservations. `LockIndInv` is exclusion together with the
  account of reservations: a name is reserved exactly while there is a guard or one
  pending removal, never both. Exclusion alone is not inductive, since a removal
  goes by name. `FilenameLocksImplementKeyedMutex` maps each step to a step of
  `KeyedMutex` or a stutter; this is what lets `Library`, `ArchiveRename` and
  `RecycleBin` use the mutex in place of the polling and the late removals.
- `JobTurns_proofs`. `ChainFromTheFront` says that the ends of the chain are
  dropped from the front on and none by a job that still waits; with it, order
  and one job at the head follow, and every step is one of `TurnLine` or a
  stutter. A limit binds the jobs that ask one after the other while it is
  declared, however often the pool was replaced before or is after
  (`LimitHoldsWhileItStands`). Two facts give it: no pool hands out more permits
  than it has, from `PoolsHaveMakers` and an argument about cardinalities; and
  jobs that ask under one limit share one pool, since the slot changes hands under
  one job at a time (`PoolsStayWhileTheyFit`).
- `Primitives_proofs`, single flight. One initialiser per cell is not enough for one work
  per key: `EmptyCellIsListed` adds that whoever is at an empty cell finds that
  cell in the map, so no second one is made meanwhile. The semaphore is a counter
  of its own that taking, finishing and dropping change; `PermitsAreOutForWork`
  says that free permits and works always add up to all of them.
- `DownloadQueue_proofs`. Types, the order of launches, where a run may hold a
  copy, and the two invariants that a token belongs to a run that has not
  ended and that a job is open exactly while its run works, is launched, or was
  left half launched. A run half launched is in the hands of exactly one request,
  at the step its place says (`LaunchesAreHeld`). One lemma per group of actions,
  and lemmas for what requests have in common.
  For archive ids: a row carries only those of a run of that row that was
  ingested and did not fail. Any stale copy may be stored at any time, so the
  invariant is about copies: each one, whoever holds it, carries ids of such a run
  (`HonestCopies`), and an ingested run goes on to report success
  (`IngestedSucceed`). It is inductive because what is earned stays earned
  (`EarnedGrows`), a restart included.
- `ArchiveRename_proofs`. That every file is found is not inductive: it depends
  on what each request knows at its step (`RequestsKnow`: until the move the
  file has the old name, until the save the record has it, the entry is there
  from the journal on unless refused), on journal entries that name only their own
  archive's file, and on what startup has done of the entry it is at. None of
  this holds of a crossed archive. What keeps these from spoiling the others is
  that an archive has to do with a name another has to do with only if both are
  crossed (`RequestsApart`), so each step of a
  request disturbs its own archive or crossed ones (`OwnStep`). `IndInv` is their
  conjunction. `MappingInv` adds, on top
  of it, what excuses each mapping that names an archive whose file is elsewhere.
  For `RenameImplementsArchiveNames` an archive is shown where a startup
  would find it now (`View`): a step of a handler or a startup, a crash, a
  refusal, a rename that crosses others, or the repair is a `Rename`, an `Expose`, a `Cover`, a `Lose` or a
  stutter.
- `Subscriptions_proofs`. `NothingSlipsAway` is about a record that is written
  last, from copies read long before. `IndInv` says of each copy in a check that
  its works are accounted for, rejected, missed by a refusal, or still to be acted
  on by that check (`CheckKnows`), and of each request that what it is about to
  take out of a set is handled (`UserKnows`). Recording the missed makes them lost. It is inductive because accounted works stay
  accounted (`Grows`), and because a work leaves the rejected set only
  if it is accounted for, or is no longer seen while no check is at work.
- `PluginPool_proofs`. That new code answers is about a reply written long after
  the look-up. `IndInv` carries the fact along: a call found no version newer
  than the stamp of its worker, a process imports nothing older than its stamp
  and speaks after that (`CodeFollowsStamp`), and whatever is in a process or on
  its pipes was sent to that process (`PipesCarrySent`, a statement about the
  sets of lines the pipes are sequences over). Names must be fresh
  (`NamesAreFresh`), or a new process would inherit the lines of an old one.
  That a process fails one call follows from `FailedHaveLeft`: it is out of the
  map, and nothing puts it back.
- `Library_proofs`. `IndInv` says of each worker what it has in hand at its step
  and that a download, or the watcher's loop, holds its name from `Reserve` to
  `Leave`; so no two are ever at one name (`AlwaysOneIngestPerName`). That no
  bytes are lost needs one fact more, that the name a download has chosen is still
  free when it moves its file there (`ChosenNamesAreFree`): two downloads that
  hold different names have chosen different ones if the names tried for them
  are apart, and nobody else writes there.
- `Library_proofs`, at rest. `RestingFilesAreServed` speaks of states in which nobody
  is at work, so what is inductive is who is at work for which file.
  `FilesInHand` (in `LibraryAtRest`) says that each file on disk is shown by an
  archive (`Shown`), or is an event the loop will take, or is in the hands of a
  task that will give it an archive (`Tends`), or of a scan that will hand it over
  (`Hands`), or the supervisor will scan (`Alarmed`). It is inductive because
  of what can stop each of them. A look-up that leaves a file alone because the
  filemap has it is right only if what is mapped is shown (`DueAreShown`,
  `ScanDueAreShown`, `LateAreShown`). A record that is dropped, moved or left
  without a file must have shown nothing else (`RecordsAreTrue`, `Overwriting`,
  `NameIsClear`, `UnfiledInHand`, `UsersAlone`). Bytes that a name has lost must
  be nowhere else, or the archive of another file would follow them
  (`OutdatedAlone`, `UnreadableAlone`, `MappingsAreTrue`, `DueAreMapped`). And a
  worker that decided on what it read is still right when it acts (`ScansSee`,
  `WatcherSees`, `DownloadsSee`, `UsersAreRekeyed`). These parts, `CleanInv`, hold
  as long as no step was refused and nothing raced (`Clean`); `RestInv` adds what
  holds anyway. The proof first sorts the steps into kinds by what they change
  (`Looks`, `Rekeys`, `Drops`, `Catalogues`, `Moves`, `Forgets`, `Repairs`,
  `Changes` and so on); then there is one lemma for each part, by cases on the
  kind. TLC checked `RestInv` on the bounds of both library runs, and where a
  download brings bytes of a file that the user changes two or three times.
  The proof found what the bounds hide: with the excuse of `Doubled` alone the
  property is false, and so it is with downloads of what the user's files hold
  (Findings, Library); `raced` counts these cases now.
  `AlwaysRecordsAreTrue` states two of these parts for themselves, for what the
  overwrite policy and a rekey rely on while others are at work.
- `RecycleBin_proofs`. A kept archive, one neither purged nor in `astray`, may be
  in any of the half-done states of a delete, a restore or a reconciliation, so
  what is inductive is what each of them implies. `ArchivesAreFine` says of an
  archive with a record that its file is where the record says or a delete is at
  it, and of one without that the bin lists it, that a file waits for the
  watcher, or that `meta.json` will tell startup. It is preserved because of what
  the actors know: `RequestsKnow` (what a request read is still so under its
  reservations), `DestinationsAreTrue` (a restore writes over nobody's file),
  `BinIsPure` (a directory holds its own archive's file), `StartupKnows`,
  `SweepKnows`. There is one lemma for each way a step touches an archive
  (`StoreKept`, `Handled`, `BinHandled`, `Swept`, `Booted`) and one per action on
  top of them. TLC checked `IndInv` on the run's bounds and, by simulation, with 3
  names, 9 operations and 3 of each other bound. The proof found cases that the
  bounds hide: `astray` counts them now, Findings names them.

Only model-checked: all liveness (`NeverStranded`, `NobodyIsStranded`,
`EveryCallReturns`, `EveryRunEnds`, `NothingStaysInFlight`, `EveryFileIsServed`,
`RenamesEnd`, `MatchesAreOffered`), which needs fairness and ENABLED. Every
invariant and every action property of the runs is a theorem.

## Findings

Where the code does something else than it says. These were found while modelling
and confirmed with TLC on a variant of the instance named, or read off the code;
they have no run of their own, to keep the set of runs small.

Queue and single flight:

- Pause stores Paused and cancels, so that the run's cancellation branch leaves
  the label alone. A run between the fetch and the store of an update of its own
  overwrites Paused, then labels the row Cancelled.
- A start stores Starting with the job id the row had before, none or a terminal
  one; a sweep before the run has stored its own id marks a healthy start Error,
  the window its comment says was closed.
- The cleanup of a run removes the token of its row id whoever owns it. A run
  launched between the old run's last update and its cleanup cannot be stopped:
  Stop answers that nothing is running.
- Nothing limits the wait for a server's response and the token is not looked at
  meanwhile, so a stopped run may never end; its job stays active, which keeps
  the sweep from its row.
- A start whose client goes away between the registration of the job and the
  spawn (`plugins.rs:2243-2276`) leaves a job queued for ever. Behind the token's
  registration it leaves the token too, which the comment at 2279 says always gets
  removed: a Stop finds it, and cancels nothing. The row, still at Starting, names
  the job it had before, so the sweep repairs it.
- The sweep stores the copy it listed (`main.rs:1198`). A row whose run succeeded
  between that listing and the look at its job becomes an Error without its archive
  ids.
- An update that fetched a row before it was deleted stores it again, where the
  comments expect such updates to do nothing.
- The gate's pool is replaced whenever the next job asks under another capacity
  (`mod.rs:212`), and the permits of the old pool stay valid. One change of the
  setting may alternate it, since a job reads the capacity before it waits for its
  turn: jobs that run together can then be as many as there were changes of
  capacity, each under its own limit, and exceed them all.
- When the owner of a cell is dropped, a joiner computes the value and nobody
  removes the entry; later calls get the old value, which the module's
  documentation says cannot happen.

Library:

- A scan takes no reservation (`full_scan.rs:299`, where `pipeline.rs:88` and
  `filename_lock.rs:1` speak of every caller): its second save may bring back the
  record of an archive that a download has overwritten meanwhile, and it may
  rekey a record for a file that has changed since it was hashed.
- A scan forgets the mapping of a file that arrived after its walk.
- The repair's candidate for a moved file is the record's name in the library
  directory, which has no extension there: it practically never matches.
- A library of one archive whose file is missing passes for one whose volume is
  not mounted; its record stays.
- An archive whose file its user moved keeps the old path until a restart.
- A crash after the move of a finished download, and the download tried again,
  leave two copies under two names. `unique_dest_path` looks for a free name and
  renames later: whoever takes that name in between is overwritten.
- The look-up of an id and the save of its record are two steps, and the
  reservation is of the name: two downloads of the same bytes under two names, or
  one and a scan, both find the id unknown, and two files have one record. When
  the file the record names is then replaced by its user, the record moves on to
  the new bytes; when it is overwritten by a third download, the record is
  dropped, also while the second is about to name its own file in it. The other
  file is mapped to an id without a record, which no scan looks at again before
  a restart. Both need a second wanted name or a third ingest, which the run
  does not have.
- A mapping outlives its bytes until the file is looked at again. Bytes that come
  back under another name meanwhile get a record of their own, and the ingest or
  the next scan of the first name then moves that record to the first name's new
  bytes, as a rekey (`pipeline.rs:300-320`): the second file has no archive.
- A scan that has hashed a file before it changed, beside the watcher or the other
  scan, writes the mapping of the old bytes again after theirs, which leaves a
  mapping as in the entry above. Both need more changes than the runs have.
- A file is changed while it is ingested, and a download brings its former bytes,
  which have no record yet. The download makes one and names its own file in it;
  the ingest maps the file to these bytes, the ingest of the change rekeys the
  download's record, and the changed file, whose id the record has now, keeps no
  archive of its own. TLC finds it with one download and two changes.

Rename:

- The conflict check asks `find_by_filename` for a name with its extension. It
  compares with the records' names, which have none, so it finds nothing, and
  the rename at `archives.rs:1546` replaces the other archive's file;
  `repository.rs:206` says not to use it for this, and `archives.rs:1487` that
  the reservations protect the conflict check.
- Two renames that swap names each hold what the other polls for, for ever, where
  `archives.rs:1495` says the order rules it out (`Deadlocked`, which `RenamesEnd`
  excepts).
- The record is read before the reservations: a request that waited may move
  what is another archive's file by then. After a refused save, or a rename
  dropped behind its move, a second rename of the archive replaces the journal
  entry, the only place that knows the file's name, finds no file to move, and
  clears the entry; the comment at `archives.rs:1604` says it would redo the save.
- A refused save in the resolution "will retry next startup" (`main.rs:1253`), but
  the repair right after it drops the record. So it does when Redis cannot be
  reached or refuses the journal (`main.rs:1217-1227`), and when it refuses to read
  the record: then the entry is cleared, too, though nothing was applied
  (`main.rs:1245`, `1274`). A file somebody else put at a journalled name is taken
  for the archive's (`main.rs:1244`). A rename that Redis refused to journal goes
  on, and a crash then costs the record. (`exposed`.)
- Refused filemap updates are not seen, neither by the handler nor by the
  resolution, which clears the journal all the same (`main.rs:1257-1276`): a name
  may stay mapped to the wrong archive (`doubtful`).

Recycle bin:

- A delete creates the bin directory before the move. If the process dies in
  between, or the move fails and the directory stays, startup takes it for a
  delete that moved its file and drops the live record, tags and progress
  included, against `recycle.rs:222` and `1364`.
- Reconciliation drops a live record also when an archive was deleted and added
  again (it has two lives then), and when a restore crashed between its save and
  the removal of its entry.
- An entry recovered at startup names a patch file whether or not there was one;
  its restore moves the archive out, then fails, and the user's metadata is lost.
- A delete given up after the move and asked for again becomes permanent and leaves
  a payload nobody lists; its `remove_file` (`archives.rs:595`) takes whatever
  file has the name by then.
- A delete moves whatever has its record's path, and over a payload of that name:
  if another archive's file got there, that one goes into the wrong directory. The
  way back of a failed restore takes another's file along in the same way.
- A refused recovery is left to the next startup (`recycle.rs:1376`), but the
  repair right after it drops the record, and then neither entry nor `meta.json`
  lists the file.
- An archive deleted, restored and renamed keeps its old `meta.json` while a
  second delete moves the file: a crash before the new one is written makes
  startup list the archive under a name its directory does not have, and drop
  the record (`Mislaid`). A restore that crashed between the removal of its entry
  and that of the directory has its entry made again from `meta.json`, and the
  live record is dropped.
- A rollback, and a move into the library, overwrite a file that arrived
  meanwhile (`recycle.rs:1055` says never); a failed restore puts the payload
  back under a numbered name that no restore looks for.
- A file copied to the name of an archive whose delete was given up is taken for
  the archive's new content. The sweep works from a stale list without
  reservations. A directory with `meta.json` and no entry is reclaimed after 24
  hours although its journal is there (the comment at 1511 says there is none).

Plugin pool:

- The comment at `pool.rs:248` says that callers still waiting when a process
  exits observe the dropped sender. They do not: the worker keeps the map of
  senders, so such a call waits its 30 seconds, with the lock on all plugins.
- That lock is held across a call, so calls of all plugins follow each other, and
  there is no other request in flight for a failure to leave alone
  (`pool.rs:12`, `529`).
- The time-out covers the wait for a reply, not `write_all` (`pool.rs:279`). A
  plugin that computes for ever behind a full pipe holds the lock for good
  (`Jammed`, which `EveryCallReturns` excepts).
- A caller dropped inside `write_all` leaves part of a line; the next request
  completes it to one that is no JSON, and fails with the process.
- The permissions are asked for before the mtime is read: an edit in between
  runs new code with the old version's permissions. An edit that gives the file
  an older mtime is never noticed.

Subscriptions:

- `check_now` starts a check without the claim, though `scheduler.rs:14` says one
  subscription is never checked twice at once. Overlapping checks queue a work
  twice, offer a dismissed work again, and undo a request to reconsider.
- A check stores the record it read before it asked the source: an edit or a
  disable meanwhile is undone, a deleted subscription comes back.
- A request to reconsider that meets a check is undone by its record of seen
  works, and can hide a work a rule had turned away for good (`crossed`). A work
  blocked during a check is put into the rejected set by it, and is offered or
  downloaded later, against `api.rs:639`.
- A refused write of a question (`runner.rs:653`), a reservation (678, 763) or the
  rejected works (773) is ignored or only logged, and the works are recorded as
  seen (788): they are lost, and no later check looks at them (`lost`, which both
  properties of the run excuse).
- A crash between acting and recording, or a degraded listing, queues a work
  again; a crash inside a dismissal offers it again.
- The list of reservations drops its oldest entries whatever their status and
  without a word, where `prune_order` (unused) says which to keep. A failed
  listing returns before the time of the check is stored, so it is tried again at
  each tick. A work that leaves the four pages of the listing counts as removed.

## Not modelled, and what comes next

Pure computation on text and images (search grammar, recommendation, OCR,
inpainting, image comparison, plugin conversion), byte streaming, configuration,
diagnostics and the web frontend have no interleaving to speak of and stay out.
`PROJECT.json` lists each component with its reason. Hazards known and not
listed there: an approval of an older revision should serve one run, and a stale
copy of the row can bring it back (three runs of a row); a queue row is two
Redis keys, stored one after the other, and may exist without being listed; a
cancelled job makes its plugin call without a permit, which the comment at the
call accepts (`CancelledInLine`, `CancelledAtPool`); and two races the code loses
(Findings) and so no property covers: a pause against an update of the run, and an
edit against the record a check has read.

What would come next, in this order:

1. `RefreshTokens`: rotation, grace window, burning, for several holders.
2. Queue, continued: filename-conflict resolution, approvals with three runs of
   a row, the two Redis keys.
3. `HostPermits`: the per-domain semaphores, with `JobTurns` as the pattern.
4. `JobRegistry`, share counters and imports, and worker processes.

Worth proving there: that a burnt family stays burnt or how it does not. Of what
is there: that a mapping is current again once the file's event has been handled.

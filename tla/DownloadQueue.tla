--------------------------- MODULE DownloadQueue ---------------------------
(***************************************************************************)
(* The download queue: crates/lanrurugi-api/src/download_queue.rs (the      *)
(* request handlers), plugins.rs (start_download and the task it spawns),   *)
(* crates/lanrurugi-storage/src/download_queue.rs (the rows in Redis) and   *)
(* the two sweeps of crates/lanrurugi-server/src/main.rs.                   *)
(*                                                                          *)
(* A row is one Redis value, and every update replaces all of it.  Requests, *)
(* download runs, the writers a run leaves detached, the metadata fetch and  *)
(* the sweep each read a copy, change some fields and put the copy back, so  *)
(* a fetch and its store are two steps everywhere below.                    *)
(***************************************************************************)
EXTENDS Naturals, FiniteSets

CONSTANTS
  Items,      \* ids of the rows the queue holds at the start
  Url,        \* the source url of each item
  Clients,    \* requests being handled at the same time
  Requests,   \* the operations clients ask for
  Background, \* bound: which of "drain", "meta" and "sweep" take part
  MaxRuns,    \* bound: download runs ever launched
  MaxFaults,  \* bound: row updates lost to Redis errors after their retries
  MaxCrashes  \* bound: process restarts

ASSUME QueueAssumption ==
  /\ MaxRuns \in Nat \ {0}
  /\ MaxFaults \in Nat
  /\ MaxCrashes \in Nat

Runs == 1 .. MaxRuns
NoRun == 0

States == {"Queued", "Starting", "Waiting", "Downloading", "Done", "Error",
           "Cancelled", "Paused", "Awaiting"}

\* A row: its state, the run whose job id it names, the run whose archives' ids
\* it carries, and revision_confirmed.
Rows == [st : States, job : Runs \union {NoRun}, arch : Runs \union {NoRun}, yes : BOOLEAN]

\* No row: deleted, or, where a copy could be, no copy held.
Gone == [st |-> "Gone", job |-> NoRun, arch |-> NoRun, yes |-> FALSE]

Startable(r) == r.st \in {"Queued", "Error", "Cancelled", "Paused"}
InFlight(r) == r.st \in {"Starting", "Waiting", "Downloading"}

VARIABLES
  row,        \* the rows in Redis
  lastRun,    \* runs launched so far
  pc,         \* where each run stands in the task start_download spawns
  item,       \* the row a run was launched for
  ingested,   \* history: the runs whose downloads got through ingestion
  put,        \* the copy a run is about to store
  jobs,       \* the job registry's state of each run's job
  token,      \* download_cancellations: the run whose token a row id maps to
  cancelled,  \* runs whose token has been cancelled
  aside,      \* per run, its detached Downloading writer and progress drain
  meta,       \* the metadata fetch start_one spawns for a row
  client,     \* the requests
  sweep,      \* the periodic sweep's copies still to be looked at
  faults, crashes

vars == <<row, lastRun, pc, item, ingested, put, jobs, token, cancelled, aside,
          meta, client, sweep, faults, crashes>>

\* What a crash forgets, beside what the requests hold.
runVars == <<lastRun, pc, item, ingested, put, jobs, token, cancelled, aside>>
otherVars == <<meta, client, sweep, faults, crashes>>

Writers == {"late", "drain"}
Idle == [due |-> FALSE, put |-> Gone]
Due == [due |-> TRUE, put |-> Gone]
NoFetch == [due |-> FALSE, snap |-> Gone, put |-> Gone]
NoRequest(i) == [at |-> "idle", item |-> i, put |-> Gone, tok |-> NoRun, yes |-> FALSE]

Init ==
  /\ row = [i \in Items |-> [Gone EXCEPT !.st = "Queued"]]
  /\ lastRun = 0
  /\ pc = [j \in Runs |-> "none"]
  /\ item \in [Runs -> Items]
  /\ ingested = {}
  /\ put = [j \in Runs |-> Gone]
  /\ jobs = [j \in Runs |-> "none"]
  /\ token = [i \in Items |-> NoRun]
  /\ cancelled = {}
  /\ aside = [j \in Runs |-> [w \in Writers |-> Idle]]
  /\ meta = [i \in Items |-> NoFetch]
  /\ \E i \in Items : client = [c \in Clients |-> NoRequest(i)]
  /\ sweep = [i \in Items |-> Gone]
  /\ faults = 0
  /\ crashes = 0

-----------------------------------------------------------------------------
(* The task of a download run.  A place in WritePlaces is an update of the   *)
(* run's row: fetch, change, store, then After.                              *)

After ==
  [starting |-> "gate", gating |-> "queued", regating |-> "calling",
   chain |-> "classify", resume |-> "moving", moving |-> "permit",
   staging |-> "aborting", catalogued |-> "completing",
   completing |-> "jobFinish", filing |-> "jobFinish", parking |-> "jobFinish",
   failing |-> "jobFail", cancelling |-> "jobFail"]

WritePlaces == DOMAIN After

\* The places that put the row back with other fields changed than these four:
\* the version history, the resume support, the staged conflict, the file size.
NotePlaces == {"chain", "resume", "staging", "catalogued"}

Label ==
  [starting |-> "Starting", gating |-> "Waiting", regating |-> "Starting",
   moving |-> "Waiting", completing |-> "Done", filing |-> "Done",
   failing |-> "Error", cancelling |-> "Cancelled", parking |-> "Awaiting"]

\* The updates that give the row the run's job id; the others take it away.
Naming == {"starting", "gating", "regating", "moving"}

\* Mutant: a run that fails half way records the archives it catalogued before.
ImagePartial(j, r) ==
  IF pc[j] \in NotePlaces THEN r
  ELSE [r EXCEPT !.st = Label[pc[j]],
                 !.job = IF pc[j] \in Naming THEN j ELSE NoRun,
                 !.arch = IF pc[j] \in {"completing", "failing"} THEN j ELSE NoRun]

\* update_queue_item_state overwrites the job id and the archive ids with the
\* caller's, None included; parking leaves the archive ids.
Image(j, r) ==
  IF pc[j] \in NotePlaces THEN r
  ELSE [r EXCEPT !.st = Label[pc[j]],
                 !.job = IF pc[j] \in Naming THEN j ELSE NoRun,
                 !.arch = IF pc[j] = "parking" THEN r.arch
                          ELSE IF pc[j] = "completing" THEN j ELSE NoRun]

Goto(j, place) == pc' = [pc EXCEPT ![j] = place]

\* Mutant: a row that is gone is waited for.
FetchWaits(j) ==
  /\ pc[j] \in WritePlaces
  /\ put[j] = Gone
  /\ row[item[j]] # Gone
  /\ put' = [put EXCEPT ![j] = Image(j, row[item[j]])]
  /\ UNCHANGED <<row, lastRun, pc, item, ingested, jobs, token, cancelled, aside, otherVars>>

Fetch(j) ==
  /\ pc[j] \in WritePlaces
  /\ put[j] = Gone
  /\ IF row[item[j]] = Gone
       THEN Goto(j, After[pc[j]]) /\ UNCHANGED put
       ELSE put' = [put EXCEPT ![j] = Image(j, row[item[j]])] /\ UNCHANGED pc
  /\ UNCHANGED <<row, lastRun, item, ingested, jobs, token, cancelled, aside, otherVars>>

Store(j) ==
  /\ put[j] # Gone
  /\ row' = [row EXCEPT ![item[j]] = put[j]]
  /\ put' = [put EXCEPT ![j] = Gone]
  /\ Goto(j, After[pc[j]])
  /\ UNCHANGED <<lastRun, item, ingested, jobs, token, cancelled, aside, otherVars>>

\* The last retry failed: the task logs it and goes on.
LoseStore(j) ==
  /\ pc[j] \in WritePlaces
  /\ faults < MaxFaults
  /\ faults' = faults + 1
  /\ put' = [put EXCEPT ![j] = Gone]
  /\ Goto(j, After[pc[j]])
  /\ UNCHANGED <<row, lastRun, item, ingested, jobs, token, cancelled, aside, meta,
                 client, sweep, crashes>>

\* A step that only moves the task on.
Moves(j, from, to) ==
  /\ pc[j] = from
  /\ Goto(j, to)
  /\ UNCHANGED <<row, lastRun, item, ingested, put, jobs, token, cancelled, aside, otherVars>>

MarkActive(j) ==
  /\ pc[j] = "spawned"
  /\ jobs' = [jobs EXCEPT ![j] = "active"]
  /\ Goto(j, "starting")
  /\ UNCHANGED <<row, lastRun, item, ingested, put, token, cancelled, aside, otherVars>>

\* The plugin's job capacity is full right now (the row shows Waiting while the
\* task waits for its turn), or it is not.
Negotiate(j) == \E to \in {"gating", "calling"} : Moves(j, "gate", to)

\* acquire_job returned, with a permit or because the token was cancelled.
PassTurn(j) == Moves(j, "queued", "regating")

\* The plugin's answer: an error, a file of its own, a version history, or
\* downloads without one.
PluginAnswers(j) ==
  \E to \in {"failing", "filing", "chain", "resume", "moving"} : Moves(j, "calling", to)

\* The revision is older and blocked, older and to be asked about, or may go on.
Classify(j) == \E to \in {"failing", "asking", "resume", "moving"} : Moves(j, "classify", to)

\* WarnThenConflictMenu: revision_confirmed is read from the row as it is now.
Ask(j) ==
  \/ row[item[j]].yes /\ \E to \in {"resume", "moving"} : Moves(j, "asking", to)
  \/ ~row[item[j]].yes /\ Moves(j, "asking", "parking")

\* A permit: on_permit_acquired spawns the write of Downloading.
Grant(j) ==
  /\ pc[j] = "permit"
  /\ j \notin cancelled
  /\ aside' = [aside EXCEPT ![j]["late"] = Due]
  /\ Goto(j, "sending")
  /\ UNCHANGED <<row, lastRun, item, ingested, put, jobs, token, cancelled, otherVars>>

\* The server's answer, which may put a resume outcome on the progress channel.
Answered(j) ==
  /\ pc[j] = "sending"
  /\ \/ UNCHANGED aside
     \/ "drain" \in Background /\ aside' = [aside EXCEPT ![j]["drain"] = Due]
  /\ Goto(j, "receiving")
  /\ UNCHANGED <<row, lastRun, item, ingested, put, jobs, token, cancelled, otherVars>>

\* The transfer ended and the progress drain was joined.
Transferred(j) == ~aside[j]["drain"].due /\ Moves(j, "receiving", "ingesting")

\* run_managed_downloads returned Err, the drain left to itself.
TransferFails(j) ==
  \E from \in {"permit", "sending", "receiving"} : Moves(j, from, "aborting")

\* What a run can wait for without end, no time-out being set: other downloads
\* to give a permit back, the server to answer, its data.  Cancelling helps with
\* the first and the last.
AtPeer(j) ==
  \/ pc[j] = "sending"
  \/ pc[j] \in {"permit", "receiving"} /\ j \notin cancelled

Ingested(j) ==
  /\ pc[j] = "ingesting"
  /\ ingested' = ingested \union {j}
  /\ Goto(j, "catalogued")
  /\ UNCHANGED <<row, lastRun, item, put, jobs, token, cancelled, aside, otherVars>>
IngestFails(j) == \E to \in {"staging", "aborting"} : Moves(j, "ingesting", to)

\* A cancelled run keeps a row it finds Paused and labels any other Cancelled.
Abort(j) ==
  \/ /\ j \in cancelled
     /\ Moves(j, "aborting", IF row[item[j]].st = "Paused" THEN "jobFail" ELSE "cancelling")
  \/ /\ j \notin cancelled
     /\ Moves(j, "aborting", "failing")

\* Mutant: an early return that forgets jobs.fail.
ReportNothing(j) ==
  /\ pc[j] \in {"jobFail", "jobFinish"}
  /\ Goto(j, "cleanup")
  /\ jobs' = [jobs EXCEPT ![j] = IF pc[j] = "jobFail" THEN @ ELSE "finished"]
  /\ UNCHANGED <<row, lastRun, item, ingested, put, token, cancelled, aside, otherVars>>

\* Mutant: a cancelled run's job gets a state of its own.
ReportCancelled(j) ==
  /\ pc[j] \in {"jobFail", "jobFinish"}
  /\ jobs' = [jobs EXCEPT ![j] = IF j \in cancelled THEN "cancelled"
                                ELSE IF pc[j] = "jobFail" THEN "failed" ELSE "finished"]
  /\ Goto(j, "cleanup")
  /\ UNCHANGED <<row, lastRun, item, ingested, put, token, cancelled, aside, otherVars>>

Report(j) ==
  /\ pc[j] \in {"jobFail", "jobFinish"}
  /\ jobs' = [jobs EXCEPT ![j] = IF pc[j] = "jobFail" THEN "failed" ELSE "finished"]
  /\ Goto(j, "cleanup")
  /\ UNCHANGED <<row, lastRun, item, ingested, put, token, cancelled, aside, otherVars>>

\* Mutant: the cleanup after the task body is skipped.
CleanupSkipped(j) == Moves(j, "cleanup", "ended")

\* The entry of the row id goes, whichever run's token it holds.
Cleanup(j) ==
  /\ pc[j] = "cleanup"
  /\ token' = [token EXCEPT ![item[j]] = NoRun]
  /\ Goto(j, "ended")
  /\ UNCHANGED <<row, lastRun, item, ingested, put, jobs, cancelled, aside, otherVars>>

RunStep(j) ==
  \/ Fetch(j) \/ Store(j) \/ MarkActive(j)
  \/ Negotiate(j) \/ PassTurn(j) \/ PluginAnswers(j) \/ Classify(j) \/ Ask(j)
  \/ Grant(j) \/ Answered(j) \/ Transferred(j) \/ TransferFails(j)
  \/ Ingested(j) \/ IngestFails(j) \/ Abort(j)
  \/ Report(j) \/ Cleanup(j)

-----------------------------------------------------------------------------
(* The writers a run leaves behind: the Downloading update spawned when the  *)
(* permit came, and the drain task's record of a resume outcome.             *)

AsideImage(j, w, r) ==
  IF w = "drain" THEN r ELSE [r EXCEPT !.st = "Downloading", !.job = j, !.arch = NoRun]

AsideFetch(j, w) ==
  /\ aside[j][w].due
  /\ aside[j][w].put = Gone
  /\ LET r == row[item[j]] IN
       aside' = [aside EXCEPT ![j][w] =
                   IF r = Gone THEN Idle ELSE [due |-> TRUE, put |-> AsideImage(j, w, r)]]
  /\ UNCHANGED <<row, lastRun, pc, item, ingested, put, jobs, token, cancelled, otherVars>>

AsideStore(j, w) ==
  /\ aside[j][w].put # Gone
  /\ row' = [row EXCEPT ![item[j]] = aside[j][w].put]
  /\ aside' = [aside EXCEPT ![j][w] = Idle]
  /\ UNCHANGED <<lastRun, pc, item, ingested, put, jobs, token, cancelled, otherVars>>

(* ensure_metadata_cached: the plugin call, a fresh read that takes only the *)
(* metadata fields over, and the caller's own copy when there is no row.     *)
MetaFetch(i) ==
  /\ meta[i].due
  /\ meta[i].put = Gone
  /\ meta' = [meta EXCEPT ![i].put = IF row[i] = Gone THEN meta[i].snap ELSE row[i],
                          ![i].snap = Gone]
  /\ UNCHANGED <<row, runVars, client, sweep, faults, crashes>>

\* No metadata plugin matched, or it failed.
MetaNothing(i) ==
  /\ meta[i].due
  /\ meta[i].put = Gone
  /\ meta' = [meta EXCEPT ![i] = NoFetch]
  /\ UNCHANGED <<row, runVars, client, sweep, faults, crashes>>

MetaStore(i) ==
  /\ meta[i].put # Gone
  /\ row' = [row EXCEPT ![i] = meta[i].put]
  /\ meta' = [meta EXCEPT ![i] = NoFetch]
  /\ UNCHANGED <<runVars, client, sweep, faults, crashes>>

-----------------------------------------------------------------------------
(* The requests.  A handler's future is dropped when its client disconnects. *)

\* The places of a handler that has registered a job for a run not yet spawned.
LaunchPlaces == {"registering", "spawning"}

Finish(c) == client' = [client EXCEPT ![c] = NoRequest(@.item)]

Accept(c, op, i) == client[c].at = "idle" /\ op \in Requests /\ row[i] # Gone

\* start_one reads the row.
RequestStart(c, i) ==
  /\ Accept(c, "start", i)
  /\ Startable(row[i])
  /\ client' = [client EXCEPT ![c].at = "checking", ![c].item = i, ![c].put = row[i]]
  /\ UNCHANGED <<row, runVars, meta, sweep, faults, crashes>>

\* start_one called for a confirmed older revision.
StartAnswered(c) ==
  /\ client[c].at = "answered"
  /\ LET r == row[client[c].item] IN
       IF Startable(r) THEN client' = [client EXCEPT ![c].at = "checking", ![c].put = r]
       ELSE Finish(c)
  /\ UNCHANGED <<row, runVars, meta, sweep, faults, crashes>>

HasRunningDuplicate(i) == \E o \in Items \ {i} : Url[o] = Url[i] /\ InFlight(row[o])

\* bound: no start beyond MaxRuns
RoomForRun ==
  lastRun + Cardinality({c \in Clients : client[c].at \in {"storing", "launching"}}) < MaxRuns

\* The copy start_one will store: the approval is kept only by the start it was
\* given for; the job id and the archive ids stay as they were read.
StartImage(c) ==
  [client[c].put EXCEPT !.st = "Starting", !.yes = client[c].yes /\ @]

CheckDuplicates(c) ==
  /\ client[c].at = "checking"
  /\ IF HasRunningDuplicate(client[c].item) THEN Finish(c)
     ELSE RoomForRun /\ client' = [client EXCEPT ![c].at = "storing", ![c].put = StartImage(c)]
  /\ UNCHANGED <<row, runVars, meta, sweep, faults, crashes>>

\* Without a title, a metadata fetch is spawned with a clone of the row.
StoreStarting(c) ==
  /\ client[c].at = "storing"
  /\ LET i == client[c].item IN
       /\ row' = [row EXCEPT ![i] = client[c].put]
       /\ \/ UNCHANGED meta
          \/ /\ "meta" \in Background /\ ~meta[i].due
             /\ meta' = [meta EXCEPT ![i] = [due |-> TRUE, snap |-> client[c].put, put |-> Gone]]
  /\ client' = [client EXCEPT ![c].at = "launching", ![c].put = Gone]
  /\ UNCHANGED <<runVars, sweep, faults, crashes>>

\* start_download, still inside the handler: the job is registered, the token
\* takes the place of an older one, and the turn is taken and the task spawned.
\* Each of the three awaits a lock first, where the handler may be dropped.
CreateJob(c) ==
  /\ client[c].at = "launching"
  /\ lastRun < MaxRuns
  /\ LET j == lastRun + 1 IN
       /\ lastRun' = j
       /\ item' = [item EXCEPT ![j] = client[c].item]
       /\ jobs' = [jobs EXCEPT ![j] = "queued"]
       /\ Goto(j, "created")
       /\ client' = [client EXCEPT ![c].at = "registering", ![c].tok = j]
  /\ UNCHANGED <<row, ingested, put, token, cancelled, aside, meta, sweep, faults, crashes>>

RegisterToken(c) ==
  /\ client[c].at = "registering"
  /\ token' = [token EXCEPT ![client[c].item] = client[c].tok]
  /\ Goto(client[c].tok, "registered")
  /\ client' = [client EXCEPT ![c].at = "spawning"]
  /\ UNCHANGED <<row, lastRun, item, ingested, put, jobs, cancelled, aside, meta, sweep, faults, crashes>>

SpawnTask(c) ==
  /\ client[c].at = "spawning"
  /\ Goto(client[c].tok, "spawned")
  /\ Finish(c)
  /\ UNCHANGED <<row, lastRun, item, ingested, put, jobs, token, cancelled, aside, meta, sweep,
                 faults, crashes>>

RequestStop(c, i) ==
  /\ Accept(c, "stop", i)
  /\ InFlight(row[i])
  /\ client' = [client EXCEPT ![c].at = "stopping", ![c].item = i]
  /\ UNCHANGED <<row, runVars, meta, sweep, faults, crashes>>

\* The token of the row id is cancelled; without one the answer is NotRunning.
StopNow(c) ==
  /\ client[c].at = "stopping"
  /\ cancelled' = cancelled \union ({token[client[c].item]} \ {NoRun})
  /\ Finish(c)
  /\ UNCHANGED <<row, lastRun, pc, item, ingested, put, jobs, token, aside, meta, sweep, faults, crashes>>

RequestPause(c, i) ==
  /\ Accept(c, "pause", i)
  /\ InFlight(row[i])
  /\ client' = [client EXCEPT ![c].at = "pausing", ![c].item = i, ![c].put = row[i]]
  /\ UNCHANGED <<row, runVars, meta, sweep, faults, crashes>>

PauseFindToken(c) ==
  /\ client[c].at = "pausing"
  /\ IF token[client[c].item] = NoRun THEN Finish(c)
     ELSE client' = [client EXCEPT ![c].at = "pauseFetch", ![c].tok = token[client[c].item]]
  /\ UNCHANGED <<row, runVars, meta, sweep, faults, crashes>>

\* update_queue_item_state(Paused) with the job id of the first read.
PauseFetch(c) ==
  /\ client[c].at = "pauseFetch"
  /\ LET r == row[client[c].item] IN
       IF r = Gone THEN client' = [client EXCEPT ![c].at = "pauseCancel", ![c].put = Gone]
       ELSE client' = [client EXCEPT ![c].at = "pauseStore", ![c].put =
                         [r EXCEPT !.st = "Paused", !.job = client[c].put.job, !.arch = NoRun]]
  /\ UNCHANGED <<row, runVars, meta, sweep, faults, crashes>>

PauseStore(c) ==
  /\ client[c].at = "pauseStore"
  /\ row' = [row EXCEPT ![client[c].item] = client[c].put]
  /\ client' = [client EXCEPT ![c].at = "pauseCancel", ![c].put = Gone]
  /\ UNCHANGED <<runVars, meta, sweep, faults, crashes>>

PauseCancel(c) ==
  /\ client[c].at = "pauseCancel"
  /\ cancelled' = cancelled \union ({client[c].tok} \ {NoRun})
  /\ Finish(c)
  /\ UNCHANGED <<row, lastRun, pc, item, ingested, put, jobs, token, aside, meta, sweep, faults, crashes>>

\* delete_queue_item, delete_selected and clear_completed: the row's state is
\* looked at in one round trip and the row deleted in another.
RequestDelete(c, i) ==
  /\ Accept(c, "delete", i)
  /\ ~InFlight(row[i])
  /\ client' = [client EXCEPT ![c].at = "deleting", ![c].item = i]
  /\ UNCHANGED <<row, runVars, meta, sweep, faults, crashes>>

DeleteRow(c) ==
  /\ client[c].at = "deleting"
  /\ row' = [row EXCEPT ![client[c].item] = Gone]
  /\ Finish(c)
  /\ UNCHANGED <<runVars, meta, sweep, faults, crashes>>

\* PATCH: title, preview and the two flags change, the rest goes back as read.
RequestPatch(c, i) ==
  /\ Accept(c, "patch", i)
  /\ client' = [client EXCEPT ![c].at = "patching", ![c].item = i, ![c].put = row[i]]
  /\ UNCHANGED <<row, runVars, meta, sweep, faults, crashes>>

PatchRow(c) ==
  /\ client[c].at = "patching"
  /\ row' = [row EXCEPT ![client[c].item] = client[c].put]
  /\ Finish(c)
  /\ UNCHANGED <<runVars, meta, sweep, faults, crashes>>

\* confirm_older_revision: no leaves the row Cancelled, yes queues it approved.
RequestConfirm(c, i) ==
  /\ Accept(c, "confirm", i)
  /\ row[i].st = "Awaiting"
  /\ \E proceed \in BOOLEAN :
       client' = [client EXCEPT ![c].at = "answering", ![c].item = i, ![c].yes = proceed,
                    ![c].put = [row[i] EXCEPT !.st = IF proceed THEN "Queued" ELSE "Cancelled",
                                              !.yes = proceed]]
  /\ UNCHANGED <<row, runVars, meta, sweep, faults, crashes>>

StoreAnswer(c) ==
  /\ client[c].at = "answering"
  /\ row' = [row EXCEPT ![client[c].item] = client[c].put]
  /\ IF client[c].yes THEN client' = [client EXCEPT ![c].at = "answered", ![c].put = Gone]
     ELSE Finish(c)
  /\ UNCHANGED <<runVars, meta, sweep, faults, crashes>>

\* Dropped while it launches a run, it leaves the job, and the token if that
\* was there already, to nobody.
Disconnect(c) ==
  /\ client[c].at # "idle"
  /\ IF client[c].at \in LaunchPlaces THEN Goto(client[c].tok, "dropped") ELSE UNCHANGED pc
  /\ Finish(c)
  /\ UNCHANGED <<row, lastRun, item, ingested, put, jobs, token, cancelled, aside, meta, sweep,
                 faults, crashes>>

ClientStep(c) ==
  \/ \E i \in Items : \/ RequestStart(c, i) \/ RequestStop(c, i) \/ RequestPause(c, i)
                      \/ RequestDelete(c, i) \/ RequestPatch(c, i) \/ RequestConfirm(c, i)
  \/ StartAnswered(c) \/ CheckDuplicates(c) \/ StoreStarting(c)
  \/ CreateJob(c) \/ RegisterToken(c) \/ SpawnTask(c)
  \/ StopNow(c) \/ PauseFindToken(c) \/ PauseFetch(c) \/ PauseStore(c) \/ PauseCancel(c)
  \/ DeleteRow(c) \/ PatchRow(c) \/ StoreAnswer(c) \/ Disconnect(c)

-----------------------------------------------------------------------------
(* The sweeps.                                                               *)

\* Mutant: a row without a job id is passed over.
JobGoneNamed(j) == j # NoRun /\ ~(jobs[j] \in {"queued", "active"})

\* No job id, no such job, or a job in a terminal state.
JobGone(j) == ~(j # NoRun /\ jobs[j] \in {"queued", "active"})

SweepList ==
  /\ "sweep" \in Background
  /\ \A i \in Items : sweep[i] = Gone
  /\ \E i \in Items : InFlight(row[i])
  /\ sweep' = [i \in Items |-> IF InFlight(row[i]) THEN row[i] ELSE Gone]
  /\ UNCHANGED <<row, runVars, meta, client, faults, crashes>>

SweepMark(i) ==
  /\ sweep[i] # Gone
  /\ JobGone(sweep[i].job)
  /\ row' = [row EXCEPT ![i] = [sweep[i] EXCEPT !.st = "Error"]]
  /\ sweep' = [sweep EXCEPT ![i] = Gone]
  /\ UNCHANGED <<runVars, meta, client, faults, crashes>>

SweepSpare(i) ==
  /\ sweep[i] # Gone
  /\ ~JobGone(sweep[i].job)
  /\ sweep' = [sweep EXCEPT ![i] = Gone]
  /\ UNCHANGED <<row, runVars, meta, client, faults, crashes>>

\* A restart: memory is gone, and the startup sweep marks every row in flight
\* before the first request is accepted.
Restart ==
  /\ crashes < MaxCrashes
  /\ crashes' = crashes + 1
  /\ row' = [i \in Items |-> IF InFlight(row[i]) THEN [row[i] EXCEPT !.st = "Error"] ELSE row[i]]
  /\ pc' = [j \in Runs |-> IF j <= lastRun THEN "ended" ELSE "none"]
  /\ put' = [j \in Runs |-> Gone]
  /\ jobs' = [j \in Runs |-> "none"]
  /\ token' = [i \in Items |-> NoRun]
  /\ cancelled' = {}
  /\ aside' = [j \in Runs |-> [w \in Writers |-> Idle]]
  /\ meta' = [i \in Items |-> NoFetch]
  /\ client' = [c \in Clients |-> NoRequest(client[c].item)]
  /\ sweep' = [i \in Items |-> Gone]
  /\ UNCHANGED <<lastRun, item, ingested, faults>>

-----------------------------------------------------------------------------
Asides(j, w) == AsideFetch(j, w) \/ AsideStore(j, w)
MetaStep(i) == MetaFetch(i) \/ MetaNothing(i) \/ MetaStore(i)
SweepStep(i) == SweepMark(i) \/ SweepSpare(i)

Next ==
  \/ \E j \in Runs : RunStep(j) \/ LoseStore(j) \/ \E w \in Writers : Asides(j, w)
  \/ \E i \in Items : MetaStep(i) \/ SweepStep(i)
  \/ \E c \in Clients : ClientStep(c)
  \/ SweepList
  \/ Restart

Spec == Init /\ [][Next]_vars

\* Spawned tasks run, plugin calls end (the pool gives each a timeout), and the
\* sweep's interval keeps ticking.  Nothing is assumed of the clients, nor of the
\* servers downloaded from.
FairSpec ==
  /\ Spec
  /\ \A j \in Runs : WF_vars(~AtPeer(j) /\ RunStep(j))
  /\ \A j \in Runs, w \in Writers : WF_vars(Asides(j, w))
  /\ \A i \in Items : WF_vars(MetaStep(i)) /\ WF_vars(SweepStep(i))
  /\ WF_vars(SweepList)

-----------------------------------------------------------------------------
(* Properties.                                                               *)

\* Places of a run that has no task: not launched, in the hands of a handler that
\* launches it, given up by that handler, or ended.
NoTask == {"none", "created", "registered", "dropped", "ended"}

Places == NoTask \union WritePlaces \union
          {"spawned", "gate", "queued", "calling", "classify", "asking", "permit", "sending",
           "receiving", "ingesting", "aborting", "jobFail", "jobFinish", "cleanup"}

\* Places before the run's task has told the job registry how it ended.
Working == Places \ (NoTask \union {"cleanup"})

Copies == Rows \union {Gone}

\* The steps of a request's handler: each is named for what comes next.
HandlerPlaces == LaunchPlaces \union
                 {"idle", "checking", "storing", "launching", "stopping", "pausing",
                  "pauseFetch", "pauseStore", "pauseCancel", "deleting", "patching",
                  "answering", "answered"}
Handlers == [at : HandlerPlaces, item : Items, put : Copies, tok : Runs \union {NoRun},
             yes : BOOLEAN]
Fetches == [due : BOOLEAN, snap : Copies, put : Copies]

TypeOK ==
  /\ row \in [Items -> Copies]
  /\ lastRun \in 0 .. MaxRuns
  /\ pc \in [Runs -> Places]
  /\ item \in [Runs -> Items]
  /\ ingested \subseteq Runs
  /\ put \in [Runs -> Copies]
  /\ jobs \in [Runs -> {"none", "queued", "active", "finished", "failed"}]
  /\ token \in [Items -> Runs \union {NoRun}]
  /\ cancelled \subseteq Runs
  /\ aside \in [Runs -> [Writers -> [due : BOOLEAN, put : Copies]]]
  /\ meta \in [Items -> Fetches]
  /\ client \in [Clients -> Handlers]
  /\ sweep \in [Items -> Copies]
  /\ faults \in 0 .. MaxFaults
  /\ crashes \in 0 .. MaxCrashes

\* A handler is launching run j.
Launches(c, j) == client[c].at \in LaunchPlaces /\ client[c].tok = j

\* An entry of download_cancellations belongs to a run of that row: one whose task
\* has not ended (every early return of the body reaches the cleanup), or whose
\* launch has come as far as the token, be the handler still at it or dropped.
TokenBelongsToLiveRun ==
  \A i \in Items : token[i] # NoRun =>
    /\ item[token[i]] = i
    /\ pc[token[i]] \in Working \union {"registered", "dropped", "cleanup"}

\* What the sweep takes for "job gone" is so: a job is open in the registry
\* exactly while the run's task works, on every path the task can leave by, or
\* while a handler launches it, or because that handler was dropped half way.
JobMirrorsRun ==
  \A j \in Runs : jobs[j] \in {"queued", "active"} <=>
                  \/ pc[j] \in Working \union {"dropped"}
                  \/ \E c \in Clients : Launches(c, j)

\* What the archive ids of a row may be: none, or those of an ingested run of it.
Earned(i) == {NoRun} \union {j \in ingested : item[j] = i}

\* The archive ids a row carries are those of a run of this very row that got
\* through ingestion and did not report a failure, though stale copies of rows
\* are stored all the time, by earlier runs and by requests, before and after a
\* restart.
ArchivesOnlyAfterIngest ==
  \A i \in Items : row[i].arch \in Earned(i) /\ (row[i].arch # NoRun => jobs[row[i].arch] # "failed")

\* A run that was never launched has no writers, and no writer claims archive ids
\* but those that a run of its row has earned.
HonestWriter(j, writer) ==
  /\ writer # Idle => j <= lastRun
  /\ writer.put.arch \in Earned(item[j])

\* Every copy of a row, whoever holds it, claims archive ids only of a run that
\* has earned them.
HonestCopies ==
  /\ \A i \in Items : row[i].arch \in Earned(i)
  /\ \A j \in Runs : put[j].arch \in Earned(item[j])
  /\ \A j \in Runs, w \in Writers : HonestWriter(j, aside[j][w])
  /\ \A i \in Items : meta[i].snap.arch \in Earned(i) /\ meta[i].put.arch \in Earned(i)
  /\ \A c \in Clients : /\ client[c].put.arch \in Earned(client[c].item)
                        /\ client[c].at = "idle" => client[c].put.arch = NoRun
  /\ \A i \in Items : sweep[i].arch \in Earned(i)

\* An ingested run goes on to its success.
IngestedSucceed ==
  \A j \in Runs : /\ pc[j] \in {"catalogued", "completing"} => j \in ingested
                  /\ j \in ingested => /\ jobs[j] # "failed"
                                        /\ pc[j] \in {"catalogued", "completing", "jobFinish",
                                                     "cleanup", "ended"}

\* Runs are launched in order, and a run holds a copy only at a place where it
\* is about to store one.
FreshRuns == \A j \in Runs : j > lastRun <=> pc[j] = "none"
PutIsDue == \A j \in Runs : put[j] # Gone => pc[j] \in WritePlaces

\* A run being launched is in the hands of one handler, for that handler's row.
LaunchesAreHeld ==
  /\ \A j \in Runs : pc[j] \in {"created", "registered"} => \E c \in Clients : Launches(c, j)
  /\ \A c \in Clients : client[c].at \in LaunchPlaces =>
       LET j == client[c].tok IN
         /\ j # NoRun
         /\ item[j] = client[c].item
         /\ pc[j] = IF client[c].at = "registering" THEN "created" ELSE "registered"
         /\ \A d \in Clients \ {c} : ~Launches(d, j)

\* JobMirrorsRun by the run's place alone.
OpenJobs ==
  \A j \in Runs : jobs[j] \in {"queued", "active"} <=>
                  pc[j] \in Working \union {"created", "registered", "dropped"}

RunsInv == TypeOK /\ FreshRuns /\ PutIsDue /\ TokenBelongsToLiveRun /\ OpenJobs

IndInv == RunsInv /\ LaunchesAreHeld

\* Every task that was spawned ends, or its server keeps it waiting; and cancelling
\* it ends it even then, once the server has answered (stream.rs:568).
EveryRunEnds == \A j \in Runs : []<>(pc[j] \in NoTask \/ AtPeer(j))

\* A row in flight does not stay so for ever unless a server keeps its run
\* waiting, whatever was lost, overwritten by a stale copy, dropped with its
\* request or forgotten by a crash.
NothingStaysInFlight ==
  \A i \in Items : []<>(~InFlight(row[i]) \/ \E j \in Runs : item[j] = i /\ AtPeer(j))
=============================================================================

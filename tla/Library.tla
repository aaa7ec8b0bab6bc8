------------------------------ MODULE Library ------------------------------
(***************************************************************************)
(* How a file becomes an archive.  Three kinds of worker run the ingest of  *)
(* lanrurugi-scanner/src/pipeline.rs against a directory and a Redis that   *)
(* are never changed together: downloads, which ingest a staged file and    *)
(* move it into the library (download_manager/ingest.rs); the watcher's     *)
(* ingestion loop; and the full scans at boot and after a watch failure     *)
(* (full_scan.rs, handle.rs), which take no filename reservation.  A crash  *)
(* is repaired at startup (repair_zombie_archives, main.rs).                *)
(*                                                                          *)
(* An archive's id is the hash of its bytes, so ids and contents are one    *)
(* set.  Of a record only `file' and `name' are kept.  A staging path is    *)
(* unique to its download: its filemap entry is left out.                   *)
(***************************************************************************)
EXTENDS Naturals, Sequences, FiniteSets

CONSTANTS
  Downloads,     \* ingests of finished downloads and uploads that may overlap
  Watcher,       \* the ingestion loop behind the file watcher
  Boot, CatchUp, \* the scan at startup and the supervisor's scan
  Brought,       \* what downloads bring, hence archive ids
  UserContents,  \* what the user's files hold, hence archive ids
  Names,         \* file names in the library directory
  Wanted,        \* the names downloads ask for
  UserNames,     \* the names a user puts in or takes out of the directory
  Numbered,      \* name -> the names tried for it: itself, "name (1)", ...
  Stem,          \* name -> the name without its extension
  Nothing,       \* no file, no record, no filemap entry, no path
  MaxIngests, MaxUserMoves, MaxFaults  \* bounds

Scans == {Boot, CatchUp}
Contents == Brought \union UserContents
Workers == Downloads \union Scans \union {Watcher}
Stems == {Stem[n] : n \in Names}

ASSUME NumberedAssumption ==
  /\ Wanted \subseteq Names /\ UserNames \subseteq Names
  /\ Nothing \notin Names \union Contents
  /\ \A n \in Wanted : Numbered[n] \in Seq(Names) \ {<<>>} /\ Numbered[n][1] = n
ASSUME WorkersAssumption ==
  /\ Boot # CatchUp /\ Watcher \notin Scans
  /\ Downloads \cap (Scans \union {Watcher}) = {}
\* Every archive file has an extension.
ASSUME StemAssumption == Stems \cap Names = {}
ASSUME BoundsAssumption == MaxIngests \in Nat /\ MaxUserMoves \in Nat /\ MaxFaults \in Nat

VARIABLES
  disk,     \* the library directory: name -> content
  record,   \* the archive records: id -> [file, name]
  filemap,  \* LRR_FILEMAP: name -> id
  holders,  \* the filename reservations, as KeyedMutex promises them
  task,     \* what each worker is ingesting
  scan,     \* the progress of each scan
  events,   \* names the watcher has reported and the loop has not taken
  watch,    \* the supervisor and its watch
  raced,    \* history: a name lost its file or its bytes in a way that no
            \* reservation orders (NoteRace, NoteOutdated)
  ingests, userMoves, errors, outages  \* counters for the bounds

vars == <<disk, record, filemap, holders, task, scan, events, watch, raced,
          ingests, userMoves, errors, outages>>

Locks == INSTANCE KeyedMutex WITH Callers <- Workers, Filenames <- Names

Steps == {"idle", "lock", "hash", "lookup", "rekey", "rekeyed", "known", "restore",
          "collide", "unlink", "drop", "unmap", "catalogue", "thumb", "map",
          "dest", "move", "fix", "fixsave", "remap"}

\* `path' is Nothing for a staged file, `want' is Nothing for a file in place;
\* `other' is the archive being rekeyed or overwritten, `dest' the chosen name.
Idle == [step |-> "idle", path |-> Nothing, want |-> Nothing, id |-> Nothing,
         overwrite |-> FALSE, other |-> Nothing, dest |-> Nothing]

Tasks == [step : Steps, path : Names \union {Nothing}, want : Names \union {Nothing},
          id : Contents \union {Nothing}, overwrite : BOOLEAN,
          other : Contents \union {Nothing}, dest : Names \union {Nothing}]

Records == [file : Names \union {Nothing}, name : Stems]
ASSUME NothingAssumption == Nothing \notin Records

NoScan == [phase |-> "done", seen |-> {}, known |-> {}, dead |-> {}]
Phases == {"done", "walk", "keys", "prune", "verify", "forget", "ingest"}

ScanStates == [phase : Phases, seen : SUBSET Names, known : SUBSET Names,
               dead : SUBSET Names]

\* `mode' is where supervise() stands, `broken' and `rescan' the signals queued
\* for it; a broken watch reports nothing any more.
Modes == {"down", "watching", "rescanning", "recovering", "catchingUp"}
WatchStates == [mode : Modes, broken : BOOLEAN, rescan : BOOLEAN]

TypeOK ==
  /\ disk \in [Names -> Contents \union {Nothing}]
  /\ record \in [Contents -> Records \union {Nothing}]
  /\ filemap \in [Names -> Contents \union {Nothing}]
  /\ holders \in [Names -> SUBSET Workers]
  /\ task \in [Workers -> Tasks]
  /\ scan \in [Scans -> ScanStates]
  /\ events \subseteq Names
  /\ watch \in WatchStates
  /\ raced \in BOOLEAN
  /\ ingests \in 0..MaxIngests /\ userMoves \in 0..MaxUserMoves
  /\ errors \in 0..MaxFaults /\ outages \in 0..MaxFaults

INSTANCE RecordRepair

Reported == watch.mode \in {"watching", "rescanning", "catchingUp"} /\ ~watch.broken

\* The directory as a process finds it that has never run: files, no archives.
\* No two of the user's files hold the same bytes.
Init ==
  /\ disk \in [Names -> UserContents \union {Nothing}]
  /\ \A n \in Names \ (Wanted \union UserNames) : disk[n] = Nothing
  /\ \A m, n \in Names : OnDisk(m) /\ disk[m] = disk[n] => m = n
  /\ record = [i \in Contents |-> Nothing]
  /\ filemap = [n \in Names |-> Nothing]
  /\ Locks!Init
  /\ task = [w \in Workers |-> Idle]
  /\ scan = [s \in Scans |-> NoScan]
  /\ events = {}
  /\ watch = [mode |-> "down", broken |-> FALSE, rescan |-> FALSE]
  /\ raced = FALSE
  /\ ingests = 0 /\ userMoves = 0 /\ errors = 0 /\ outages = 0

bounds == <<ingests, userMoves, errors, outages>>
store == <<disk, record, filemap>>

-----------------------------------------------------------------------------
(* Building blocks of a worker's step *)

At(w, step) == task[w].step = step
Goto(w, step) == task' = [task EXCEPT ![w].step = step]
Staged(w) == task[w].want # Nothing

\* The reservation is on the name a download asks for, on the basename the
\* watcher found; a scan's task has none.
Reserved(w) == IF Staged(w) THEN task[w].want ELSE task[w].path

\* The worker's call returns: its guard is dropped on every path out.
Leave(w) ==
  /\ task' = [task EXCEPT ![w] = Idle]
  /\ holders' = [n \in Names |-> holders[n] \ {w}]

\* Mutant: the record of a staged file keeps the extension in its name.
NewRecordUnstemmed(w) ==
  [file |-> task[w].path, name |-> IF Staged(w) THEN task[w].want ELSE Stem[task[w].path]]

\* What catalogue_new_archive writes: a staged file's record has no file yet.
NewRecord(w) ==
  [file |-> task[w].path, name |-> Stem[IF Staged(w) THEN task[w].want ELSE task[w].path]]

Others == <<scan, events, watch, raced>>

\* Another file has the bytes of this one, or an ingest of another file.
Doubled(n) ==
  \/ \E m \in Names \ {n} : disk[m] = disk[n]
  \/ \E w \in Workers : task[w].id = disk[n] /\ task[w].path # n

\* The file under this name goes away, or other bytes take its place: while a
\* scan runs, or while the bytes are also elsewhere.
NoteRace(n) ==
  raced' = \/ raced
           \/ OnDisk(n) /\ Doubled(n)
           \/ (OnDisk(n) \/ filemap[n] # Nothing) /\ \E s \in Scans : scan[s] # NoScan

\* The names at which the user changes files.
Changing == IF MaxUserMoves = 0 THEN {} ELSE UserNames

InPlace(w) == task[w] # Idle /\ ~Staged(w)

\* A name has to do with bytes: in its file, its mapping, a record or a task.
Has(n, i) ==
  \/ i \in {disk[n], filemap[n]}
  \/ Exists(i) /\ record[i].file = n
  \/ \E w \in Workers : InPlace(w) /\ task[w].path = n /\ i \in {task[w].id, task[w].other}

\* A staged file gets an archive while the filemap still has its bytes under a
\* name that lost them, or while a name that the user changes has to do with them.
NoteOutdated(w) ==
  raced' = (raced \/ (Staged(w) /\
    \/ \E n \in Names : filemap[n] = task[w].id /\ disk[n] # filemap[n]
    \/ \E n \in Changing : Has(n, task[w].id)))

-----------------------------------------------------------------------------
(* The start of an ingest *)

\* ingest_downloaded_file, upload and conflict resolution: a staged file and the
\* name it should get.
StartDownload(d, i, n, overwrite) ==
  /\ watch.mode # "down" /\ ingests < MaxIngests
  /\ At(d, "idle")
  /\ task' = [task EXCEPT ![d] = [Idle EXCEPT !.step = "lock", !.want = n, !.id = i,
                                              !.overwrite = overwrite]]
  /\ ingests' = ingests + 1
  /\ UNCHANGED <<store, holders, Others, userMoves, errors, outages>>

\* One turn of the watcher's loop: events of one name are folded into one.
TakeEvent(n) ==
  /\ watch.mode \in {"watching", "rescanning"}
  /\ At(Watcher, "idle") /\ n \in events
  /\ task' = [task EXCEPT ![Watcher] = [Idle EXCEPT !.step = "lock", !.path = n]]
  /\ events' = events \ {n}
  /\ UNCHANGED <<raced, store, holders, scan, watch, bounds>>

\* Mutant: the ingest does not wait for its reservation.
ReserveUnlocked(w) ==
  /\ At(w, "lock")
  /\ holders' = [holders EXCEPT ![Reserved(w)] = @ \union {w}]
  /\ Goto(w, IF Staged(w) THEN "known" ELSE "hash")
  /\ UNCHANGED <<store, Others, bounds>>

Reserve(w) ==
  /\ At(w, "lock")
  /\ Locks!Take(w, Reserved(w))
  /\ Goto(w, IF Staged(w) THEN "known" ELSE "hash")
  /\ UNCHANGED <<store, Others, bounds>>

\* wait_until_stable and size_aware_id; a file that has disappeared is an error.
\* A staged file is its download's own: its id does not change, and nothing is
\* mapped to its path.
Hash(w) ==
  /\ At(w, "hash")
  /\ IF OnDisk(task[w].path)
     THEN /\ task' = [task EXCEPT ![w].step = "lookup", ![w].id = disk[task[w].path]]
          /\ UNCHANGED holders
     ELSE Leave(w)
  /\ UNCHANGED <<store, Others, bounds>>

Lookup(w) ==
  /\ At(w, "lookup")
  /\ LET previous == filemap[task[w].path] IN
       \/ previous = task[w].id /\ Leave(w)
       \/ previous = Nothing /\ Goto(w, "known") /\ UNCHANGED holders
       \/ /\ previous \notin {Nothing, task[w].id}
          /\ task' = [task EXCEPT ![w].step = "rekey", ![w].other = previous]
          /\ UNCHANGED holders
  /\ UNCHANGED <<store, Others, bounds>>

\* rename_id: the record moves with its metadata, over any record of the new id.
Rekey(w) ==
  /\ At(w, "rekey")
  /\ IF Exists(task[w].other)
     THEN /\ record' = [record EXCEPT ![task[w].id] = record[task[w].other],
                                      ![task[w].other] = Nothing]
          /\ Goto(w, "rekeyed")
     ELSE Goto(w, "known") /\ UNCHANGED record
  /\ UNCHANGED <<disk, filemap, holders, Others, bounds>>

MapPath(w) == filemap' = [filemap EXCEPT ![task[w].path] = task[w].id]

Rekeyed(w) ==
  /\ At(w, "rekeyed")
  /\ MapPath(w) /\ Leave(w)
  /\ UNCHANGED <<disk, record, Others, bounds>>

-----------------------------------------------------------------------------
(* The duplicate checks *)

Known(w) ==
  /\ At(w, "known")
  /\ Goto(w, IF Exists(task[w].id) THEN "restore"
             ELSE IF Staged(w) THEN "collide" ELSE "catalogue")
  /\ UNCHANGED <<store, holders, Others, bounds>>

\* A content that has an archive already: the mapping is restored, the ingest
\* rejected.
Restore(w) ==
  /\ At(w, "restore")
  /\ IF Staged(w) THEN UNCHANGED filemap ELSE MapPath(w)
  /\ Leave(w)
  /\ UNCHANGED <<disk, record, Others, bounds>>

\* find_by_exact_file_basename: an archive, any if there are several, whose file
\* has the wanted name.
Collide(w) ==
  /\ At(w, "collide")
  /\ LET taken == {i \in Contents : Exists(i) /\ record[i].file = task[w].want}
         go(i) == IF i = task[w].id THEN Goto(w, "catalogue") /\ UNCHANGED holders
                  ELSE IF task[w].overwrite
                  THEN /\ task' = [task EXCEPT ![w].step = "unlink", ![w].other = i]
                       /\ UNCHANGED holders
                  ELSE Leave(w)
     IN \/ taken = {} /\ Goto(w, "catalogue") /\ UNCHANGED holders
        \/ \E i \in taken : go(i)
  /\ UNCHANGED <<store, Others, bounds>>

\* delete_existing_archive: the file, then the record, then the filemap entry.
Unlink(w) ==
  /\ At(w, "unlink")
  /\ disk' = [disk EXCEPT ![task[w].want] = Nothing]
  /\ NoteRace(task[w].want)
  /\ Goto(w, "drop")
  /\ UNCHANGED <<record, filemap, holders, scan, events, watch, bounds>>

Drop(w) ==
  /\ At(w, "drop")
  /\ record' = [record EXCEPT ![task[w].other] = Nothing]
  /\ Goto(w, "unmap")
  /\ UNCHANGED <<disk, filemap, holders, Others, bounds>>

Unmap(w) ==
  /\ At(w, "unmap")
  /\ filemap' = [filemap EXCEPT ![task[w].want] = Nothing]
  /\ Goto(w, "catalogue")
  /\ UNCHANGED <<disk, record, holders, Others, bounds>>

-----------------------------------------------------------------------------
(* Cataloguing, and the move of a staged file *)

Catalogue(w) ==
  /\ At(w, "catalogue")
  /\ record' = [record EXCEPT ![task[w].id] = NewRecord(w)]
  /\ NoteOutdated(w)
  /\ Goto(w, "thumb")
  /\ UNCHANGED <<disk, filemap, holders, scan, events, watch, bounds>>

\* Once the thumbnail is made the whole record is saved again from the copy made
\* before; an archive without pages, or whose thumbnail fails, is not.
Thumb(w) ==
  /\ At(w, "thumb")
  /\ \/ record' = [record EXCEPT ![task[w].id] = NewRecord(w)]
     \/ UNCHANGED record
  /\ Goto(w, IF Staged(w) THEN "dest" ELSE "map")
  /\ UNCHANGED <<disk, filemap, holders, Others, bounds>>

MapFile(w) ==
  /\ At(w, "map")
  /\ IF Staged(w) THEN Goto(w, "dest") /\ UNCHANGED <<raced, filemap, holders>>
     ELSE MapPath(w) /\ Leave(w)
  /\ UNCHANGED <<disk, record, Others, bounds>>

\* unique_dest_path: the first name tried that no file has.
ChooseDest(w) ==
  /\ At(w, "dest")
  /\ LET tried == Numbered[task[w].want]
         free  == {k \in DOMAIN tried : ~OnDisk(tried[k])}
     IN \E k \in free :
          /\ \A j \in free : k <= j
          /\ task' = [task EXCEPT ![w].step = "move", ![w].dest = tried[k]]
  /\ UNCHANGED <<store, holders, Others, bounds>>

\* The rename replaces whatever has the name by now; the watcher sees it.
Move(w) ==
  /\ At(w, "move")
  /\ disk' = [disk EXCEPT ![task[w].dest] = task[w].id]
  /\ events' = IF Reported THEN events \union {task[w].dest} ELSE events
  /\ Goto(w, "fix")
  /\ UNCHANGED <<raced, record, filemap, holders, scan, watch, bounds>>

Fix(w) ==
  /\ At(w, "fix")
  /\ Goto(w, IF Exists(task[w].id) THEN "fixsave" ELSE "remap")
  /\ UNCHANGED <<store, holders, Others, bounds>>

FixSave(w) ==
  /\ At(w, "fixsave")
  /\ record' = [record EXCEPT ![task[w].id] =
                  [file |-> task[w].dest,
                   name |-> IF Exists(task[w].id) THEN @.name ELSE Stem[task[w].want]]]
  /\ Goto(w, "remap")
  /\ UNCHANGED <<disk, filemap, holders, Others, bounds>>

\* Three attempts have failed: logged, left to the next startup.
FixFails(w) ==
  /\ task[w].step \in {"fix", "fixsave"} /\ errors + outages < MaxFaults
  /\ errors' = errors + 1
  /\ Goto(w, "remap")
  /\ UNCHANGED <<store, holders, Others, ingests, userMoves, outages>>

Remap(w) ==
  /\ At(w, "remap")
  /\ filemap' = [filemap EXCEPT ![task[w].dest] = task[w].id]
  /\ Leave(w)
  /\ UNCHANGED <<disk, record, Others, bounds>>

\* Redis or the disk refuses a step, or the watcher's ingest runs into its
\* timeout: what was done stays done.  A refused remap is ignored, which ends the
\* ingest as well.
Fail(w) ==
  /\ task[w].step \notin {"idle", "lock", "fix", "fixsave"}
  /\ errors + outages < MaxFaults
  /\ errors' = errors + 1
  /\ Leave(w)
  /\ UNCHANGED <<store, Others, ingests, userMoves, outages>>

Ingest(w) ==
  \/ Reserve(w) \/ Hash(w) \/ Lookup(w) \/ Rekey(w) \/ Rekeyed(w)
  \/ Known(w) \/ Restore(w) \/ Collide(w) \/ Unlink(w) \/ Drop(w) \/ Unmap(w)
  \/ Catalogue(w) \/ Thumb(w) \/ MapFile(w) \/ ChooseDest(w) \/ Move(w)
  \/ Fix(w) \/ FixSave(w) \/ Remap(w)

-----------------------------------------------------------------------------
(* full_scan: files on disk that the filemap does not know are ingested.  The  *)
(* files of one scan go one after another here, in any order; Boot and CatchUp *)
(* may overlap. *)

StartScan(s) == scan' = [scan EXCEPT ![s] = [NoScan EXCEPT !.phase = "walk"]]

Walk(s) ==
  /\ scan[s].phase = "walk"
  /\ scan' = [scan EXCEPT ![s].phase = "keys", ![s].seen = {n \in Names : OnDisk(n)}]
  /\ UNCHANGED <<raced, store, holders, task, events, watch, bounds>>

Keys(s) ==
  /\ scan[s].phase = "keys"
  /\ scan' = [scan EXCEPT ![s].phase = "prune",
                          ![s].known = {n \in Names : filemap[n] # Nothing}]
  /\ UNCHANGED <<raced, store, holders, task, events, watch, bounds>>

Forget(gone) == filemap' = [n \in Names |-> IF n \in gone THEN Nothing ELSE filemap[n]]

Prune(s) ==
  /\ scan[s].phase = "prune"
  /\ Forget(scan[s].known \ scan[s].seen)
  /\ scan' = [scan EXCEPT ![s].phase = IF scan[s].known = {} THEN "forget" ELSE "verify"]
  /\ UNCHANGED <<raced, disk, record, holders, task, events, watch, bounds>>

\* HGETALL and the pipelined EXISTS are one step.
Verify(s) ==
  /\ scan[s].phase = "verify"
  /\ scan' = [scan EXCEPT ![s].phase = "forget",
                ![s].dead = {n \in Names : filemap[n] # Nothing /\ ~Exists(filemap[n])}]
  /\ UNCHANGED <<raced, store, holders, task, events, watch, bounds>>

\* Mutant: a path with a dead mapping stays "already known".
ForgetNothing(s) ==
  /\ scan[s].phase = "forget"
  /\ scan' = [scan EXCEPT ![s] = [NoScan EXCEPT !.phase = "ingest",
                                  !.seen = scan[s].seen \ scan[s].known]]
  /\ UNCHANGED <<raced, store, holders, task, events, watch, bounds>>

ForgetDead(s) ==
  /\ scan[s].phase = "forget"
  /\ Forget(scan[s].dead)
  /\ scan' = [scan EXCEPT ![s] =
                [NoScan EXCEPT !.phase = "ingest", !.seen =
                   (scan[s].seen \ (scan[s].known \ scan[s].dead))]]
  /\ UNCHANGED <<raced, disk, record, holders, task, events, watch, bounds>>

TakeFile(s, n) ==
  /\ scan[s].phase = "ingest" /\ At(s, "idle") /\ n \in scan[s].seen
  /\ task' = [task EXCEPT ![s] = [Idle EXCEPT !.step = "hash", !.path = n]]
  /\ scan' = [scan EXCEPT ![s].seen = @ \ {n}]
  /\ UNCHANGED <<raced, store, holders, events, watch, bounds>>

\* The supervisor goes on watching when its scan returns.
EndScan(s) ==
  /\ scan[s].phase = "ingest" /\ At(s, "idle") /\ scan[s].seen = {}
  /\ scan' = [scan EXCEPT ![s] = NoScan]
  /\ watch' = IF s = CatchUp THEN [watch EXCEPT !.mode = "watching"] ELSE watch
  /\ UNCHANGED <<raced, store, holders, task, events, bounds>>

ScanStep(s) ==
  \/ Walk(s) \/ Keys(s) \/ Prune(s) \/ Verify(s) \/ ForgetDead(s)
  \/ (\E n \in Names : TakeFile(s, n)) \/ EndScan(s)

-----------------------------------------------------------------------------
(* The supervisor of the watch (handle.rs) *)

\* The ingestion task dies with the watch: its backlog and its ingest are lost.
StopIngesting ==
  /\ task' = [task EXCEPT ![Watcher] = Idle]
  /\ holders' = [n \in Names |-> holders[n] \ {Watcher}]
  /\ events' = {}

SeeFailure ==
  /\ watch.mode = "watching" /\ watch.broken
  /\ watch' = [mode |-> "recovering", broken |-> FALSE, rescan |-> FALSE]
  /\ StopIngesting
  /\ UNCHANGED <<raced, store, scan, bounds>>

SeeRescan ==
  /\ watch.mode = "watching" /\ watch.rescan
  /\ watch' = [watch EXCEPT !.mode = "rescanning", !.rescan = FALSE]
  /\ StartScan(CatchUp)
  /\ UNCHANGED <<raced, store, holders, task, events, bounds>>

\* Mutant: a recovered watch goes on without the catch-up scan.
RecoverWithoutScan ==
  /\ watch.mode = "recovering"
  /\ watch' = [watch EXCEPT !.mode = "watching"]
  /\ UNCHANGED <<raced, store, holders, task, scan, events, bounds>>

\* The new watch is up before the files are walked.
Recover ==
  /\ watch.mode = "recovering"
  /\ watch' = [watch EXCEPT !.mode = "catchingUp"]
  /\ StartScan(CatchUp)
  /\ UNCHANGED <<raced, store, holders, task, events, bounds>>

\* An admin restarts the watcher: the supervisor is aborted with what it runs.
RestartWatcher ==
  /\ watch.mode # "down" /\ errors + outages < MaxFaults
  /\ outages' = outages + 1
  /\ watch' = [mode |-> "catchingUp", broken |-> FALSE, rescan |-> FALSE]
  /\ task' = [task EXCEPT ![Watcher] = Idle, ![CatchUp] = Idle]
  /\ holders' = [n \in Names |-> holders[n] \ {Watcher}]
  /\ events' = {}
  /\ StartScan(CatchUp)
  /\ UNCHANGED <<raced, store, ingests, userMoves, errors>>

Supervise == SeeFailure \/ SeeRescan \/ Recover

-----------------------------------------------------------------------------
(* The environment: the user's files, a watch that fails or drops events, a    *)
(* crash *)

\* Bytes that no file, record, filemap entry or ingest of the library has.
Fresh(i) ==
  /\ ~Exists(i)
  /\ \A n \in Names : disk[n] # i /\ filemap[n] # i
  /\ \A w \in Workers : i \notin {task[w].id, task[w].other}

\* A file is put in place, rewritten or taken away.
UserChanges(n, content) ==
  /\ userMoves < MaxUserMoves /\ disk[n] # content
  /\ content # Nothing => Fresh(content)
  /\ userMoves' = userMoves + 1
  /\ disk' = [disk EXCEPT ![n] = content]
  /\ NoteRace(n)
  /\ events' = IF Reported /\ content # Nothing THEN events \union {n} ELSE events
  /\ UNCHANGED <<record, filemap, holders, task, scan, watch, ingests, errors, outages>>

BreakWatch ==
  /\ Reported /\ errors + outages < MaxFaults
  /\ outages' = outages + 1
  /\ watch' = [watch EXCEPT !.broken = TRUE]
  /\ UNCHANGED <<raced, store, holders, task, scan, events, ingests, userMoves, errors>>

DropEvents ==
  /\ Reported /\ events # {} /\ errors + outages < MaxFaults
  /\ outages' = outages + 1
  /\ events' = {}
  /\ watch' = [watch EXCEPT !.rescan = TRUE]
  /\ UNCHANGED <<raced, store, holders, task, scan, ingests, userMoves, errors>>

Crash ==
  /\ watch.mode # "down" /\ errors + outages < MaxFaults
  /\ outages' = outages + 1
  /\ watch' = [mode |-> "down", broken |-> FALSE, rescan |-> FALSE]
  /\ task' = [w \in Workers |-> Idle]
  /\ holders' = [n \in Names |-> {}]
  /\ scan' = [s \in Scans |-> NoScan]
  /\ events' = {}
  /\ UNCHANGED <<raced, store, ingests, userMoves, errors>>

-----------------------------------------------------------------------------
(* Startup: repair_zombie_archives, then the watcher, then the scan *)

Startup ==
  /\ watch.mode = "down"
  /\ RepairStore(Doomed, Doomed, Repairable)
  /\ watch' = [watch EXCEPT !.mode = "watching"]
  /\ StartScan(Boot)
  /\ UNCHANGED <<raced, disk, holders, task, events, bounds>>

\* The process dies again in the middle of the repair.
StartupDies(dropped, unmapped) ==
  /\ watch.mode = "down" /\ errors + outages < MaxFaults
  /\ dropped \subseteq Doomed /\ unmapped \subseteq dropped
  /\ outages' = outages + 1
  /\ RepairStore(dropped, unmapped, {})
  /\ UNCHANGED <<raced, disk, holders, task, scan, events, watch, ingests, userMoves, errors>>

Next ==
  \/ \E d \in Downloads, i \in Brought, n \in Wanted, o \in BOOLEAN : StartDownload(d, i, n, o)
  \/ \E n \in Names : TakeEvent(n)
  \/ \E w \in Workers : Ingest(w) \/ FixFails(w) \/ Fail(w)
  \/ \E s \in Scans : ScanStep(s)
  \/ Supervise \/ RestartWatcher
  \/ \E n \in UserNames, c \in UserContents \union {Nothing} : UserChanges(n, c)
  \/ BreakWatch \/ DropEvents \/ Crash \/ Startup
  \/ \E dropped \in SUBSET Contents : \E unmapped \in SUBSET dropped :
       StartupDies(dropped, unmapped)

\* A task that has been started runs on, a scan goes on, the loop takes what is
\* reported, the supervisor sees its signals, a process that is down is started.
Fairness ==
  /\ \A w \in Workers : WF_vars(Ingest(w))
  /\ \A s \in Scans : WF_vars(ScanStep(s))
  /\ \A n \in Names : WF_vars(TakeEvent(n))
  /\ WF_vars(SeeFailure) /\ WF_vars(SeeRescan) /\ WF_vars(Recover)
  /\ WF_vars(Startup)

Spec == Init /\ [][Next]_vars /\ Fairness

-----------------------------------------------------------------------------
(* Properties *)

Readable(i) == Exists(i) /\ record[i].file # Nothing /\ disk[record[i].file] = i

\* Its bytes are an archive's, or an archive shows what is under this name.
Served(n) ==
  Readable(disk[n]) \/ \E i \in Contents : Exists(i) /\ record[i].file = n

\* Nothing is in progress and no signal is queued.
AtRest ==
  /\ watch = [mode |-> "watching", broken |-> FALSE, rescan |-> FALSE]
  /\ events = {}
  /\ \A w \in Workers : At(w, "idle")
  /\ \A s \in Scans : scan[s] = NoScan

\* Once downloads, watcher, scans and repair have all come to rest, after any
\* crash, broken watch or dropped events, no file of the library is without an
\* archive: whatever order the record, the move, the filemap entry and the event
\* for it came in.  Excepted are a refused step, which the code leaves to the
\* next startup, a name whose file or mapping changed under a scan, which takes no
\* reservation, a file whose bytes another file or ingest had, since the record of
\* both goes with it, and a download of bytes that the filemap had still under a
\* name that lost them, or that a file had which the user changes: what is then
\* rekeyed is the record of both.
RestingFilesAreServed ==
  AtRest /\ errors = 0 /\ ~raced => \A n \in Names : OnDisk(n) => Served(n)

\* No download, scan, repair or crash ever takes away or replaces the bytes of a
\* file: only the user does, and a download that overwrites the very name it was
\* asked for.  Two downloads of one name never clobber each other's file
\* (ingest.rs:258-265).
FilesSurvive ==
  [][\A n \in Names : disk[n] \notin {Nothing, disk'[n]} =>
        \/ userMoves' # userMoves
        \/ \E w \in Downloads : At(w, "unlink") /\ task[w].want = n]_vars

\* The condition of FilesSurvive: unique_dest_path looks for a free name, but the
\* name it finds is not the one the ingest holds (ingest.rs:312).  Names tried for
\* one wanted name are wanted by no other, and no user puts a file there.
Tried(n) == {Numbered[n][k] : k \in DOMAIN Numbered[n]}
NamesApart ==
  /\ \A m, n \in Wanted : m # n => Tried(m) \cap Tried(n) = {}
  /\ MaxUserMoves = 0 \/ \A n \in Wanted : Tried(n) \cap UserNames = {}

\* What a worker has in hand fits its step: only a staged file is moved, to a name
\* tried for the wanted one, only a file in place is hashed, and an id or an
\* archive is known before it is used.
StagedSteps == {"collide", "unlink", "drop", "unmap", "dest", "move", "fix", "fixsave", "remap"}
FoundSteps == {"hash", "lookup", "rekey", "rekeyed"}
TaskFits(w) ==
  task[w] # Idle =>
    /\ ~At(w, "idle")
    /\ IF Staged(w) THEN w \in Downloads /\ task[w].want \in Wanted ELSE task[w].path \in Names
    /\ task[w].step \in StagedSteps => Staged(w)
    /\ task[w].step \in FoundSteps => ~Staged(w)
    /\ Staged(w) \/ task[w].step \notin {"lock", "hash"} => task[w].id \in Contents
    /\ At(w, "rekey") => task[w].other \in Contents
    /\ At(w, "move") => task[w].dest \in Tried(task[w].want)

\* Downloads and the watcher's loop hold their name as long as they are at it.
Inside(w) == task[w] # Idle /\ ~At(w, "lock") /\ (Staged(w) \/ w \notin Scans)
HoldsItsName(w) == Inside(w) => holders[Reserved(w)] = {w}

\* No two of them are ever at one name (filename_lock.rs:1-5).
OneIngestPerName ==
  \A v, w \in Workers : Inside(v) /\ Inside(w) /\ Reserved(v) = Reserved(w) => v = w

TasksAreSound ==
  /\ task \in [Workers -> Tasks] /\ holders \in [Names -> SUBSET Workers]
  /\ \A w \in Workers : TaskFits(w) /\ HoldsItsName(w)

IndInv == TypeOK /\ TasksAreSound

\* The name a download has chosen is still free when it moves its file there.
ChosenNamesAreFree == \A w \in Workers : At(w, "move") => ~OnDisk(task[w].dest)

\* A file put into the library is sooner or later served by an archive, or gone
\* again, also when the watch breaks, drops its events or the process crashes
\* right after (run_catch_up, handle.rs): with no refused step.
EveryFileIsServed ==
  \A n \in Names : OnDisk(n) ~> ~OnDisk(n) \/ Served(n) \/ errors > 0 \/ raced
=============================================================================

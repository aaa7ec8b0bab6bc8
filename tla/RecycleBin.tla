------------------------------ MODULE RecycleBin ------------------------------
(***************************************************************************)
(* The recycle bin (lanrurugi-api/src/recycle.rs, lanrurugi-storage/src/     *)
(* recycle.rs): deleting an archive moves its file into a directory of its   *)
(* own, with its entry beside it (meta.json) and in a Redis hash, and drops  *)
(* the record; restore goes the other way, purge and the hourly sweep remove *)
(* it for good.  A startup first finishes the deletes it finds half done.    *)
(*                                                                          *)
(* All files are in one directory of the library.  Left out: patch files     *)
(* beside an archive (an entry recovered at startup names one all the same), *)
(* recycled tankoubons, thumbnails and everything keyed by the id that is    *)
(* restored with the record, of which `meta' stands for the whole.           *)
(***************************************************************************)
EXTENDS Naturals, FiniteSets

CONSTANTS
  Callers,    \* requests that may overlap
  Archives,   \* archives, each its file's content
  Names,      \* file names in the library directory
  Tried,      \* name -> names resolve_destination tries, the name itself first
  Nothing,    \* no file, no record, no mapping, no entry, no directory
  MaxOps, MaxCopies, MaxSweeps, MaxErrors, MaxCrashes   \* bounds

VARIABLES
  disk,       \* the library directory: name -> content
  record,     \* the archive records: id -> [file, name, meta]
  filemap,    \* LRR_FILEMAP: name -> id
  bin,        \* the bin's directories: id -> [payload, meta, old]
  inventory,  \* RECYCLE_BIN_KEY: id -> entry
  holders,    \* the reservations of file names and of "recycle:{id}"
  task,       \* what each request is at
  sweep,      \* what the sweep is at
  boot,       \* what startup is at
  loose,      \* history: something was refused or abandoned since startup
  purged,     \* history: archives purged or swept
  astray,     \* history: archives the code is known to lose track of
  ops, copies, sweeps, errors, crashes   \* counters for the bounds

INSTANCE RecordRepair WITH Contents <- Archives

\* An archive stands for the name "recycle:{id}".
Locks == INSTANCE KeyedMutex WITH Filenames <- Names \union Archives

library == <<disk, record, filemap>>
store == <<library, bin, inventory>>
history == <<loose, purged, astray>>
counters == <<ops, copies, sweeps, errors, crashes>>
vars == <<store, holders, task, sweep, boot, history, counters>>

\* "own" is what users made of an archive, "new" what cataloguing gives it.
Metas == {"own", "new"}

\* The name of a record has no extension: the startup repair finds no such file.
Records == [file : Names, name : {Nothing}, meta : Metas]
Record(n, m) == [file |-> n, name |-> Nothing, meta |-> m]

\* `patch': the entry names a patch file.
Entries == [path : Names, meta : Metas, patch : BOOLEAN]

Bytes == Archives \union {Nothing}
Directories == [payload : [Names -> Bytes], meta : Entries \union {Nothing}, old : BOOLEAN]
NewDirectory == [payload |-> [n \in Names |-> Nothing], meta |-> Nothing, old |-> FALSE]

ASSUME NamesAssumption ==
  /\ Names \cap Archives = {}
  /\ Nothing \notin Names \union Archives \union Records \union Entries \union Directories
ASSUME TriedAssumption == \A n \in Names : \A k \in DOMAIN Tried[n] : Tried[n][k] \in Names

Steps == {"idle",
          "d lock", "look", "drop gone", "unlink", "mkdir", "stash", "meta", "put", "unmap", "drop",
          "back", "unput", "d rmdir",
          "r lock", "entry", "dest", "name", "move", "save", "map", "return", "remove", "r rmdir",
          "find", "p lock", "p rmdir", "p remove"}

Idle == [step |-> "idle", id |-> Nothing, entry |-> Nothing, dest |-> Nothing]
Tasks == [step : Steps, id : Bytes, entry : Entries \union {Nothing},
          dest : Names \union {Nothing}]

NoSweep == [step |-> "idle", id |-> Nothing, left |-> {}]
Sweeps == [step : {"idle", "list", "purge", "remove", "known", "leftovers"},
           id : Bytes, left : SUBSET Archives]

Running == [step |-> "up", id |-> Nothing, left |-> {}]
Boots == [step : {"up", "down", "reconcile", "meta", "put", "drop", "sweep", "repair",
                   "scan"},
          id : Bytes, left : SUBSET Archives]

TypeOK ==
  /\ disk \in [Names -> Bytes]
  /\ record \in [Archives -> Records \union {Nothing}]
  /\ filemap \in [Names -> Bytes]
  /\ bin \in [Archives -> Directories \union {Nothing}]
  /\ inventory \in [Archives -> Entries \union {Nothing}]
  /\ holders \in [Names \union Archives -> SUBSET Callers]
  /\ task \in [Callers -> Tasks]
  /\ sweep \in Sweeps
  /\ boot \in Boots
  /\ loose \in BOOLEAN /\ purged \subseteq Archives /\ astray \subseteq Archives

\* Every archive has a file of its own, and an empty bin.
Init ==
  /\ \E at \in [Archives -> Names] :
       /\ \A i, j \in Archives : at[i] = at[j] => i = j
       /\ disk = [n \in Names |-> IF \E i \in Archives : at[i] = n
                                  THEN CHOOSE i \in Archives : at[i] = n ELSE Nothing]
       /\ record = [i \in Archives |-> Record(at[i], "own")]
  /\ filemap = disk
  /\ bin = [i \in Archives |-> Nothing]
  /\ inventory = [i \in Archives |-> Nothing]
  /\ Locks!Init
  /\ task = [c \in Callers |-> Idle]
  /\ sweep = NoSweep
  /\ boot = Running
  /\ loose = FALSE /\ purged = {} /\ astray = {}
  /\ ops = 0 /\ copies = 0 /\ sweeps = 0 /\ errors = 0 /\ crashes = 0

-----------------------------------------------------------------------------
(* Requests *)

Up == boot.step = "up"
At(c, step) == Up /\ task[c].step = step
Goto(c, step) == task' = [task EXCEPT ![c].step = step]
Id(c) == task[c].id
Path(c) == task[c].entry.path
InBin(i, n) == bin[i] # Nothing /\ bin[i].payload[n] # Nothing

\* The handler returns or is dropped: its guards go with it.
Leave(c) ==
  /\ task' = [task EXCEPT ![c] = Idle]
  /\ holders' = [k \in Names \union Archives |-> holders[k] \ {c}]

\* One of delete_archive, restore and purge, for an id a user has seen.
Start(c, i, step) ==
  /\ At(c, "idle") /\ ops < MaxOps
  /\ step \in {"d lock", "r lock", "find"}
  /\ task' = [task EXCEPT ![c] = [Idle EXCEPT !.step = step, !.id = i]]
  /\ ops' = ops + 1
  /\ UNCHANGED <<store, holders, sweep, boot, history, copies, sweeps, errors, crashes>>

LockEntry(c, at, next) ==
  /\ At(c, at)
  /\ Locks!Take(c, Id(c))
  /\ Goto(c, next)
  /\ UNCHANGED <<store, sweep, boot, history, counters>>

Rest(c) == UNCHANGED <<sweep, boot, history, counters>>

-----------------------------------------------------------------------------
(* recycle_archive *)

\* The record is read, its file looked for, the snapshot taken.
Look(c) ==
  /\ At(c, "look")
  /\ IF ~Exists(Id(c)) THEN Leave(c)
     ELSE LET r == record[Id(c)] IN
          /\ task' = [task EXCEPT
                        ![c].step = IF OnDisk(r.file) THEN "mkdir" ELSE "drop gone",
                        ![c].entry = [path |-> r.file, meta |-> r.meta, patch |-> FALSE]]
          /\ UNCHANGED holders
  /\ UNCHANGED store /\ Rest(c)

\* purge_one_archive PERMANENT: an archive whose file is gone has nothing to keep,
\* unless it is in the bin, by a delete that was given up half way.
DropGone(c) ==
  /\ At(c, "drop gone")
  /\ record' = [record EXCEPT ![Id(c)] = Nothing]
  /\ astray' = astray \union {Id(c)}
  /\ Goto(c, "unlink")
  /\ UNCHANGED <<disk, filemap, bin, inventory, holders, sweep, boot, loose, purged, counters>>

Unlink(c) ==
  /\ At(c, "unlink")
  /\ disk' = [disk EXCEPT ![Path(c)] = Nothing]
  /\ astray' = astray \union ({disk[Path(c)]} \ {Nothing})
  /\ Leave(c)
  /\ UNCHANGED <<record, filemap, bin, inventory, sweep, boot, loose, purged, counters>>

\* move_into_bin, first half.
MakeDirectory(c) ==
  /\ At(c, "mkdir")
  /\ bin' = [bin EXCEPT ![Id(c)] = IF @ = Nothing THEN NewDirectory ELSE @]
  /\ Goto(c, "stash")
  /\ UNCHANGED <<library, inventory, holders>> /\ Rest(c)

\* Second half: an error if the file, or by now the directory, is missing.  It takes
\* whatever has the name, and replaces what is in the bin under that name.
Stash(c) ==
  /\ At(c, "stash")
  /\ IF OnDisk(Path(c)) /\ bin[Id(c)] # Nothing
     THEN /\ disk' = [disk EXCEPT ![Path(c)] = Nothing]
          /\ bin' = [bin EXCEPT ![Id(c)].payload[Path(c)] = disk[Path(c)]]
          /\ astray' = IF disk[Path(c)] = Id(c) THEN astray
                       ELSE astray \union {Id(c), disk[Path(c)]}
          /\ Goto(c, "meta") /\ UNCHANGED holders
     ELSE Leave(c) /\ UNCHANGED <<disk, bin, astray>>
  /\ UNCHANGED <<record, filemap, inventory, sweep, boot, loose, purged, counters>>

WriteMeta(c) ==
  /\ At(c, "meta")
  /\ IF bin[Id(c)] # Nothing
     THEN /\ bin' = [bin EXCEPT ![Id(c)].meta = task[c].entry, ![Id(c)].old = FALSE]
          /\ Goto(c, "put")
     ELSE Goto(c, "back") /\ UNCHANGED bin
  /\ UNCHANGED <<library, inventory, holders>> /\ Rest(c)

Put(c) ==
  /\ At(c, "put")
  /\ inventory' = [inventory EXCEPT ![Id(c)] = task[c].entry]
  /\ Goto(c, "unmap")
  /\ UNCHANGED <<library, bin, holders>> /\ Rest(c)

Unmap(c) ==
  /\ At(c, "unmap")
  /\ filemap' = [filemap EXCEPT ![Path(c)] = Nothing]
  /\ Goto(c, "drop")
  /\ UNCHANGED <<disk, record, bin, inventory, holders>> /\ Rest(c)

\* purge_one_archive AFTER_RECYCLE.
Drop(c) ==
  /\ At(c, "drop")
  /\ record' = [record EXCEPT ![Id(c)] = Nothing]
  /\ Leave(c)
  /\ UNCHANGED <<disk, filemap, bin, inventory>> /\ Rest(c)

\* rollback_move; whatever has the name by now is replaced.
MoveBack(c) ==
  /\ At(c, "back")
  /\ IF InBin(Id(c), Path(c))
     THEN /\ disk' = [disk EXCEPT ![Path(c)] = bin[Id(c)].payload[Path(c)]]
          /\ bin' = [bin EXCEPT ![Id(c)].payload[Path(c)] = Nothing]
          /\ astray' = astray \union ({disk[Path(c)]} \ {Id(c), Nothing})
          /\ Goto(c, "unput") /\ UNCHANGED holders
     ELSE Leave(c) /\ UNCHANGED <<disk, bin, astray>>
  /\ UNCHANGED <<record, filemap, inventory, sweep, boot, loose, purged, counters>>

\* Three calls to remove an entry, by delete, restore and purge.
RemoveEntry(c, at, next) ==
  /\ At(c, at)
  /\ inventory' = [inventory EXCEPT ![Id(c)] = Nothing]
  /\ IF next = "idle" THEN Leave(c) ELSE Goto(c, next) /\ UNCHANGED holders
  /\ UNCHANGED <<library, bin>> /\ Rest(c)

RemoveDirectory(c, at) ==
  /\ At(c, at)
  /\ bin' = [bin EXCEPT ![Id(c)] = Nothing]
  /\ Leave(c)
  /\ UNCHANGED <<library, inventory>> /\ Rest(c)

Delete(c) ==
  \/ LockEntry(c, "d lock", "look") \/ Look(c) \/ DropGone(c) \/ Unlink(c)
  \/ MakeDirectory(c) \/ Stash(c) \/ WriteMeta(c) \/ Put(c) \/ Unmap(c) \/ Drop(c)
  \/ MoveBack(c) \/ RemoveEntry(c, "unput", "d rmdir") \/ RemoveDirectory(c, "d rmdir")

-----------------------------------------------------------------------------
(* restore_archive *)

\* The entry, its payload, which must have the recorded size, and the record,
\* which must not exist.
ReadEntry(c) ==
  /\ At(c, "entry")
  /\ LET e == inventory[Id(c)] IN
     IF e # Nothing /\ bin[Id(c)] # Nothing /\ bin[Id(c)].payload[e.path] = Id(c) /\ ~Exists(Id(c))
     THEN /\ task' = [task EXCEPT ![c].step = "dest", ![c].entry = e]
          /\ UNCHANGED holders
     ELSE Leave(c)
  /\ UNCHANGED store /\ Rest(c)

\* resolve_destination looks at the disk; the name is reserved afterwards.
ChooseDestination(c) ==
  /\ At(c, "dest")
  /\ LET tried == Tried[Path(c)]
         free  == {k \in DOMAIN tried : ~OnDisk(tried[k])}
     IN \E k \in free :
          /\ \A l \in free : k <= l
          /\ task' = [task EXCEPT ![c].step = "name", ![c].dest = tried[k]]
  /\ UNCHANGED <<store, holders>> /\ Rest(c)

ReserveName(c) ==
  /\ At(c, "name")
  /\ Locks!Take(c, task[c].dest)
  /\ Goto(c, "move")
  /\ UNCHANGED store /\ Rest(c)

\* move_out_of_bin: the file first, then the patch, which a recovered entry names
\* without having one; the file is out by then.
MoveOut(c) ==
  /\ At(c, "move")
  /\ IF InBin(Id(c), Path(c))
     THEN /\ disk' = [disk EXCEPT ![task[c].dest] = bin[Id(c)].payload[Path(c)]]
          /\ bin' = [bin EXCEPT ![Id(c)].payload[Path(c)] = Nothing]
          /\ astray' = astray \union ({disk[task[c].dest]} \ {Id(c), Nothing})
     ELSE UNCHANGED <<disk, bin, astray>>
  /\ IF InBin(Id(c), Path(c)) /\ ~task[c].entry.patch
     THEN Goto(c, "save") /\ UNCHANGED holders
     ELSE Leave(c)
  /\ UNCHANGED <<record, filemap, inventory, sweep, boot, loose, purged, counters>>

\* Mutant: the record's name keeps the extension.
SaveUnstemmed(c) ==
  /\ At(c, "save")
  /\ record' = [record EXCEPT ![Id(c)] = [file |-> task[c].dest, name |-> task[c].dest,
                                          meta |-> task[c].entry.meta]]
  /\ Goto(c, "map")
  /\ UNCHANGED <<disk, filemap, bin, inventory, holders>> /\ Rest(c)

Save(c) ==
  /\ At(c, "save")
  /\ record' = [record EXCEPT ![Id(c)] = Record(task[c].dest, task[c].entry.meta)]
  /\ Goto(c, "map")
  /\ UNCHANGED <<disk, filemap, bin, inventory, holders>> /\ Rest(c)

\* The id is computed from the file at the destination.
Map(c) ==
  /\ At(c, "map")
  /\ filemap' = [filemap EXCEPT ![task[c].dest] =
                   IF OnDisk(task[c].dest) THEN disk[task[c].dest] ELSE @]
  /\ Goto(c, IF OnDisk(task[c].dest) THEN "remove" ELSE "return")
  /\ UNCHANGED <<disk, record, bin, inventory, holders>> /\ Rest(c)

\* A restore that failed moves the file back, under the name it had in the
\* library: not the one its entry knows if a suffix was added.
Return(c) ==
  /\ At(c, "return")
  /\ LET n == task[c].dest
         d == IF bin[Id(c)] = Nothing THEN NewDirectory ELSE bin[Id(c)]
     IN /\ disk' = [disk EXCEPT ![n] = Nothing]
        /\ bin' = [bin EXCEPT ![Id(c)] =
                     [d EXCEPT !.payload[n] = IF OnDisk(n) THEN disk[n] ELSE @]]
        /\ astray' = astray \union ({disk[n]} \ {Id(c), Nothing})
                            \union (IF n = Path(c) THEN {} ELSE {Id(c)})
  /\ Leave(c)
  /\ UNCHANGED <<record, filemap, inventory, sweep, boot, loose, purged, counters>>

Restore(c) ==
  \/ LockEntry(c, "r lock", "entry") \/ ReadEntry(c) \/ ChooseDestination(c) \/ ReserveName(c)
  \/ MoveOut(c) \/ Save(c) \/ Map(c) \/ Return(c)
  \/ RemoveEntry(c, "remove", "r rmdir") \/ RemoveDirectory(c, "r rmdir")

-----------------------------------------------------------------------------
(* purge_entry, for a request *)

\* The entry is looked up before the reservation, which is all that is done with it.
Find(c) ==
  /\ At(c, "find")
  /\ IF inventory[Id(c)] = Nothing THEN Leave(c) ELSE Goto(c, "p lock") /\ UNCHANGED holders
  /\ UNCHANGED store /\ Rest(c)

PurgeDirectory(c) ==
  /\ At(c, "p rmdir")
  /\ bin' = [bin EXCEPT ![Id(c)] = Nothing]
  /\ purged' = purged \union {Id(c)}
  /\ Goto(c, "p remove")
  /\ UNCHANGED <<library, inventory, holders, sweep, boot, loose, astray, counters>>

Purge(c) ==
  \/ Find(c) \/ LockEntry(c, "p lock", "p rmdir") \/ PurgeDirectory(c)
  \/ RemoveEntry(c, "p remove", "idle")

Handle(c) == Delete(c) \/ Restore(c) \/ Purge(c)

-----------------------------------------------------------------------------
(* What fails *)

\* Where a request goes on when the disk or Redis refuses its step; elsewhere it
\* returns the error.
Otherwise(step) == CASE step \in {"meta", "put"} -> "back"
                     [] step = "unmap"  -> "drop"
                     [] step = "unput"  -> "d rmdir"
                     [] step = "save"   -> "return"
                     [] step = "map"    -> "remove"
                     [] step = "remove" -> "r rmdir"
                     [] OTHER           -> "idle"

\* The client may go away as well: the handler is dropped at an await.
Refused(c) ==
  /\ Up /\ task[c].step # "idle" /\ errors < MaxErrors
  /\ errors' = errors + 1
  /\ loose' = TRUE
  /\ \/ Leave(c)
     \/ /\ Otherwise(task[c].step) # "idle"
        /\ Goto(c, Otherwise(task[c].step)) /\ UNCHANGED holders
  /\ UNCHANGED <<store, sweep, boot, purged, astray, ops, copies, sweeps, crashes>>

-----------------------------------------------------------------------------
(* The sweep, every hour and at startup.  It takes no reservation. *)

StartSweep ==
  /\ Up /\ sweep.step = "idle" /\ sweeps < MaxSweeps
  /\ sweep' = [NoSweep EXCEPT !.step = "list"]
  /\ sweeps' = sweeps + 1
  /\ UNCHANGED <<store, holders, task, boot, history, ops, copies, errors, crashes>>

\* Any of the entries may have expired, or be in excess of the bin's size.
List ==
  /\ sweep.step = "list"
  /\ \E due \in SUBSET {i \in Archives : inventory[i] # Nothing} :
       sweep' = [sweep EXCEPT !.step = "purge", !.left = due]
  /\ UNCHANGED <<store, holders, task, boot, history, counters>>

Expire(i) ==
  /\ sweep.step = "purge" /\ i \in sweep.left
  /\ bin' = [bin EXCEPT ![i] = Nothing]
  /\ purged' = purged \union {i}
  /\ sweep' = [step |-> "remove", id |-> i, left |-> sweep.left \ {i}]
  /\ UNCHANGED <<library, inventory, holders, task, boot, loose, astray, counters>>

ExpireEntry ==
  /\ sweep.step = "remove"
  /\ inventory' = [inventory EXCEPT ![sweep.id] = Nothing]
  /\ sweep' = [sweep EXCEPT !.step = "purge", !.id = Nothing]
  /\ UNCHANGED <<library, bin, holders, task, boot, history, counters>>

\* The entries are listed again: directories without one are leftovers.
ListAgain ==
  /\ sweep.step = "purge" /\ sweep.left = {}
  /\ sweep' = [sweep EXCEPT !.step = "leftovers",
                            !.left = {i \in Archives : inventory[i] = Nothing}]
  /\ UNCHANGED <<store, holders, task, boot, history, counters>>

Reclaim(i) ==
  /\ sweep.step = "leftovers" /\ i \in sweep.left
  /\ LET reclaimed == bin[i] # Nothing /\ bin[i].old IN
       /\ bin' = [bin EXCEPT ![i] = IF reclaimed THEN Nothing ELSE @]
       /\ astray' = IF reclaimed /\ \E n \in Names : InBin(i, n) THEN astray \union {i} ELSE astray
  /\ sweep' = [sweep EXCEPT !.left = @ \ {i}]
  /\ UNCHANGED <<library, inventory, holders, task, boot, loose, purged, counters>>

EndSweep ==
  /\ sweep.step = "leftovers" /\ sweep.left = {}
  /\ sweep' = NoSweep
  /\ boot' = IF boot.step = "sweep" THEN [Running EXCEPT !.step = "repair"] ELSE boot
  /\ UNCHANGED <<store, holders, task, history, counters>>

Sweep ==
  \/ List \/ ExpireEntry \/ ListAgain \/ EndSweep
  \/ \E i \in Archives : Expire(i) \/ Reclaim(i)

\* 24 hours in which no request is at work.
DayPasses ==
  /\ Up /\ \A c \in Callers : task[c] = Idle
  /\ \E i \in Archives : bin[i] # Nothing /\ ~bin[i].old
  /\ bin' = [i \in Archives |-> IF bin[i] = Nothing THEN Nothing ELSE [bin[i] EXCEPT !.old = TRUE]]
  /\ UNCHANGED <<library, inventory, holders, task, sweep, boot, history, counters>>

-----------------------------------------------------------------------------
(* Users and the watcher *)

\* A user copies an archive's file to a free name no request is busy with and no
\* record has: at the name of an archive whose delete was given up half way it
\* would be taken for that archive's new content.
Copy(i, n) ==
  /\ copies < MaxCopies
  /\ ~OnDisk(n) /\ \A k \in Archives : Exists(k) => record[k].file # n
  /\ \A c \in Callers : task[c].dest # n
  /\ \A c \in {c \in Callers : task[c].entry # Nothing} : Path(c) # n
  /\ disk' = [disk EXCEPT ![n] = i]
  /\ copies' = copies + 1
  /\ UNCHANGED <<record, filemap, bin, inventory, holders, task, sweep, boot, history,
                 ops, sweeps, errors, crashes>>

\* The watcher ingests a file the filemap does not know, under its name's
\* reservation: Library has the steps.
Notice(n) ==
  /\ Up /\ OnDisk(n) /\ filemap[n] # disk[n] /\ holders[n] = {}
  /\ LET i   == disk[n]
         was == filemap[n]
         rekeyed == was # Nothing /\ Exists(was)
     IN /\ record' = IF rekeyed
                     THEN [record EXCEPT ![i] = record[was], ![was] = Nothing]
                     ELSE IF Exists(i) THEN record
                     ELSE [record EXCEPT ![i] = Record(n, "new")]
        /\ astray' = IF rekeyed THEN astray \union {was, i} ELSE astray
  /\ filemap' = [filemap EXCEPT ![n] = disk[n]]
  /\ UNCHANGED <<disk, bin, inventory, holders, task, sweep, boot, loose, purged, counters>>

-----------------------------------------------------------------------------
(* Crash and startup: reconcile, a sweep, the repair of the records, the scan *)

Crash ==
  /\ boot.step # "down" /\ crashes < MaxCrashes
  /\ crashes' = crashes + 1
  /\ boot' = [Running EXCEPT !.step = "down"]
  /\ task' = [c \in Callers |-> Idle]
  /\ holders' = [k \in Names \union Archives |-> {}]
  /\ sweep' = NoSweep
  /\ loose' = FALSE
  /\ UNCHANGED <<store, purged, astray, ops, copies, sweeps, errors>>

BootAt(step) == boot.step = step
BootGoto(step) == boot' = [boot EXCEPT !.step = step]

Begin ==
  /\ BootAt("down")
  /\ boot' = [step |-> "reconcile", id |-> Nothing, left |-> {i \in Archives : bin[i] # Nothing}]
  /\ UNCHANGED <<store, holders, task, sweep, history, counters>>

\* Mutant: a directory without a journal is left to the sweep.
ReconcileJournalled(i) ==
  /\ BootAt("reconcile") /\ i \in boot.left
  /\ boot' = [step |-> IF inventory[i] # Nothing
                       THEN IF Exists(i) THEN "drop" ELSE "reconcile"
                       ELSE IF bin[i].meta # Nothing THEN "put" ELSE "reconcile",
              id |-> i, left |-> boot.left \ {i}]
  /\ UNCHANGED <<store, holders, task, sweep, history, counters>>

\* A directory without an entry gets the one in its meta.json, or else a new one
\* made from the record; then the record is dropped.
Reconcile(i) ==
  /\ BootAt("reconcile") /\ i \in boot.left
  /\ boot' = [step |-> IF inventory[i] # Nothing
                       THEN IF Exists(i) THEN "drop" ELSE "reconcile"
                       ELSE IF bin[i].meta # Nothing THEN "put"
                       ELSE IF Exists(i) THEN "meta" ELSE "reconcile",
              id |-> i, left |-> boot.left \ {i}]
  /\ UNCHANGED <<store, holders, task, sweep, history, counters>>

\* The bin has a file of the archive, but not where the entry says.
Mislaid(i, entry) ==
  /\ \E n \in Names : InBin(i, n)
  /\ entry = Nothing \/ bin[i].payload[entry.path] # i

\* archive_file_patch_name names a patch without a look at the disk.
RecoverMeta ==
  /\ BootAt("meta")
  /\ bin' = [bin EXCEPT ![boot.id].meta =
               [path |-> record[boot.id].file, meta |-> record[boot.id].meta, patch |-> TRUE]]
  /\ BootGoto("put")
  /\ UNCHANGED <<library, inventory, holders, task, sweep, history, counters>>

\* Mutant: the record of an entry just recovered is not dropped.
RecoverEntryOnly ==
  /\ BootAt("put")
  /\ inventory' = [inventory EXCEPT ![boot.id] = bin[boot.id].meta]
  /\ BootGoto("reconcile")
  /\ UNCHANGED <<library, bin, holders, task, sweep, history, counters>>

RecoverEntry ==
  /\ BootAt("put")
  /\ inventory' = [inventory EXCEPT ![boot.id] = bin[boot.id].meta]
  /\ BootGoto(IF Exists(boot.id) THEN "drop" ELSE "reconcile")
  /\ UNCHANGED <<library, bin, holders, task, sweep, history, counters>>

\* The entry may be an older one than the delete that was interrupted.
FinishDrop ==
  /\ BootAt("drop")
  /\ record' = [record EXCEPT ![boot.id] = Nothing]
  /\ astray' = IF Mislaid(boot.id, inventory[boot.id]) THEN astray \union {boot.id} ELSE astray
  /\ BootGoto("reconcile")
  /\ UNCHANGED <<disk, filemap, bin, inventory, holders, task, sweep, loose, purged, counters>>

\* The next startup tries again, but by then the repair has dropped the record: an
\* entry that was to be made from it, or an older one, leaves the file unlisted.
RecoverRefused ==
  /\ boot.step \in {"meta", "put", "drop"} /\ errors < MaxErrors
  /\ errors' = errors + 1
  /\ loose' = TRUE
  /\ astray' = IF Mislaid(boot.id, IF BootAt("drop") THEN inventory[boot.id] ELSE bin[boot.id].meta)
               THEN astray \union {boot.id} ELSE astray
  /\ BootGoto("reconcile")
  /\ UNCHANGED <<store, holders, task, sweep, purged, ops, copies, sweeps, crashes>>

Reconciled ==
  /\ BootAt("reconcile") /\ boot.left = {}
  /\ boot' = [Running EXCEPT !.step = "sweep"]
  /\ sweep' = [NoSweep EXCEPT !.step = "list"]
  /\ UNCHANGED <<store, holders, task, history, counters>>

Repair ==
  /\ BootAt("repair")
  /\ RepairStore(Doomed, Doomed, Repairable)
  /\ BootGoto("scan")
  /\ UNCHANGED <<disk, bin, inventory, holders, task, sweep, history, counters>>

\* The scan forgets mappings without a file or without a record; what it ingests
\* the watcher would.
Scan ==
  /\ BootAt("scan")
  /\ filemap' = [n \in Names |-> IF OnDisk(n) /\ filemap[n] # Nothing /\ Exists(filemap[n])
                                 THEN filemap[n] ELSE Nothing]
  /\ boot' = Running
  /\ UNCHANGED <<disk, record, bin, inventory, holders, task, sweep, history, counters>>

Startup ==
  \/ Begin \/ (\E i \in Archives : Reconcile(i)) \/ RecoverMeta \/ RecoverEntry
  \/ FinishDrop \/ Reconciled \/ Repair \/ Scan

Next ==
  \/ \E c \in Callers : Handle(c) \/ Refused(c)
  \/ \E c \in Callers, i \in Archives, step \in {"d lock", "r lock", "find"} : Start(c, i, step)
  \/ \E i \in Archives, n \in Names : Copy(i, n)
  \/ \E n \in Names : Notice(n)
  \/ StartSweep \/ Sweep \/ DayPasses
  \/ Crash \/ Startup \/ RecoverRefused

Spec == Init /\ [][Next]_vars

-----------------------------------------------------------------------------
(* Properties *)

InLibrary(i) == Exists(i) /\ disk[record[i].file] = i
InTheBin(i) ==
  inventory[i] # Nothing /\ bin[i] # Nothing /\ bin[i].payload[inventory[i].path] = i

AtRest ==
  /\ Up /\ sweep = NoSweep
  /\ \A c \in Callers : task[c] = Idle
  /\ \A n \in Names : OnDisk(n) => filemap[n] = disk[n]

\* Whatever crash or sweep came in between, an archive nobody purged can be opened
\* in the library or restored from the bin.  Excepted until the next startup is
\* what was refused or abandoned on the way, and for good the archives in `astray'.
NothingIsLost ==
  AtRest /\ ~loose => \A i \in Archives \ (purged \union astray) : InLibrary(i) \/ InTheBin(i)

\* Once startup has reconciled the bin, every archive in it has an
\* entry, and no record.
RecoveryListsEveryFile ==
  BootAt("repair") /\ ~loose =>
    \A i \in Archives \ (purged \union astray) :
      (\E n \in Names : InBin(i, n)) => inventory[i] # Nothing /\ ~Exists(i)

-----------------------------------------------------------------------------
(* Why they hold *)

Kept == Archives \ (purged \union astray)
Busy(i, steps) == \E c \in Callers : task[c].step \in steps /\ Id(c) = i
Holds(i) == \E n \in Names : InBin(i, n)

\* A delete has moved the file and not dropped the record.
Half(i) == Exists(i) /\ bin[i] # Nothing /\ bin[i].payload[record[i].file] = i

\* The directory has no entry yet, but meta.json says where its file is.
Journalled(i) ==
  /\ bin[i] # Nothing /\ inventory[i] = Nothing
  /\ bin[i].meta # Nothing /\ bin[i].payload[bin[i].meta.path] = i

\* Startup is yet to reconcile the archive's directory.
Finishing == {"meta", "put", "drop"}
Unsettled(i) ==
  \/ BootAt("down")
  \/ BootAt("reconcile") /\ i \in boot.left
  \/ boot.step \in Finishing /\ i \in boot.left \union {boot.id}

Stashed == {"meta", "put", "back", "unmap", "drop"}

\* A record tells where the file is, or else its delete is under way, or was
\* interrupted and startup will see to it.
RecordIsTrue(i) ==
  Exists(i) /\ ~InLibrary(i) =>
    /\ Half(i)
    /\ \/ Busy(i, Stashed)
       \/ Unsettled(i)
       \/ loose /\ (Up \/ InTheBin(i) \/ Journalled(i))

\* An archive without a record is in the bin, or the watcher has yet to find its
\* file, or startup the directory's meta.json.
RestIsFound(i) ==
  ~Exists(i) =>
    \/ InTheBin(i)
    \/ \E n \in Names : disk[n] = i /\ (filemap[n] # i \/ loose \/ ~Up \/ Busy(i, {"save"}))
    \/ Journalled(i) /\ (loose \/ Unsettled(i))

\* A restore that will stop half way finds no mapping of the archive.
RecoveredIsUnmapped(i) ==
  Up /\ ~Exists(i) /\ inventory[i] # Nothing /\ inventory[i].patch =>
    \A n \in Names : filemap[n] # i

\* What the bin holds can be traced to its archive.
BinIsTraceable(i) ==
  Holds(i) => inventory[i] # Nothing \/ bin[i].meta # Nothing \/ Exists(i)

SettledIsListed(i) ==
  boot.step \in {"reconcile", "sweep", "repair"} \union Finishing /\ ~loose /\ Holds(i) =>
    Unsettled(i) \/ (inventory[i] # Nothing /\ ~Exists(i))

ArchiveIsFine(i) ==
  /\ RecordIsTrue(i) /\ RestIsFound(i) /\ RecoveredIsUnmapped(i)
  /\ BinIsTraceable(i) /\ SettledIsListed(i)

ArchivesAreFine == \A i \in Kept : ArchiveIsFine(i)

\* A directory holds its own archive's file.
BinIsPure ==
  \A i \in Archives, n \in Names : InBin(i, n) => bin[i].payload[n] \in {i} \union astray

StartupKnows ==
  /\ ~Up => \A c \in Callers : task[c] = Idle
  /\ boot.step \notin {"up", "sweep"} => sweep = NoSweep
  /\ boot.step \in {"reconcile"} \union Finishing => \A i \in boot.left : bin[i] # Nothing
  /\ boot.step \in Finishing => boot.id \in Archives \ boot.left /\ bin[boot.id] # Nothing
  /\ BootAt("meta") =>
       Exists(boot.id) /\ bin[boot.id].meta = Nothing /\ inventory[boot.id] = Nothing
  /\ BootAt("put") => bin[boot.id].meta # Nothing /\ inventory[boot.id] = Nothing
  /\ BootAt("drop") => Exists(boot.id) /\ inventory[boot.id] # Nothing

SweepKnows == sweep.step = "remove" => sweep.id \in purged

Unreserved == {"idle", "d lock", "r lock", "find", "p lock"}
AtName == {"move", "save", "map", "return"}
Moving == {"mkdir", "stash", "unput", "d rmdir"}
Restoring == {"dest", "name", "move", "save", "return"}

\* What a request has in hand at each step, and the reservations it has.
RequestHas(c) ==
  LET t == task[c] IN
  /\ t.step # "idle" => t.id \in Archives
  /\ t.step \in Moving \union Stashed \union Restoring \union {"drop gone", "unlink", "map"} =>
       t.entry # Nothing
  /\ t.step \in AtName \union {"name"} => t.dest # Nothing
  /\ t.step \notin Unreserved => holders[t.id] = {c}
  /\ t.step \in AtName => holders[t.dest] = {c}
  /\ t.step = "p remove" => t.id \in purged
  /\ t.step = "unlink" => t.id \in astray

\* What it knows about its archive, if that is kept.
RequestKnows(c) ==
  LET t == task[c]
      i == t.id
  IN /\ t.step \in Moving \union Stashed =>
          Exists(i) /\ record[i].file = t.entry.path /\ ~t.entry.patch
     /\ t.step \in Stashed =>
          bin[i] # Nothing /\ bin[i].payload[t.entry.path] = i /\ disk[t.entry.path] # i
     /\ t.step \in {"unput", "d rmdir"} => disk[t.entry.path] = i
     /\ t.step \in {"unmap", "drop"} => inventory[i] = t.entry
     /\ t.step \in Restoring => inventory[i] = t.entry /\ (Exists(i) => InLibrary(i))
     /\ t.step \in {"dest", "name", "move"} => InTheBin(i)
     /\ t.step \in {"save", "return"} => disk[t.dest] = i
     /\ t.step = "return" => loose
     /\ t.step \in {"map", "remove", "r rmdir"} => Exists(i) /\ InLibrary(i)
     /\ t.step = "map" => record[i].file = t.dest

RequestsKnow == \A c \in Callers : RequestHas(c) /\ (Id(c) \in Kept => RequestKnows(c))

\* A kept archive's file under a restore's name is the restore's, or one that a
\* delete has moved back meanwhile.
DestinationIsTrue(c, i) ==
  task[c].step \in {"save", "map"} /\ disk[task[c].dest] = i /\ Id(c) # i =>
    Exists(i) /\ record[i].file = task[c].dest /\ ~Busy(i, Restoring)

DestinationsAreTrue == \A c \in Callers, i \in Kept : DestinationIsTrue(c, i)

IndInv ==
  /\ TypeOK /\ ArchivesAreFine /\ BinIsPure /\ StartupKnows /\ SweepKnows
  /\ RequestsKnow /\ DestinationsAreTrue
=============================================================================

---------------------------- MODULE ArchiveRename ----------------------------
(***************************************************************************)
(* PUT /archives/{id}/rename (rename_archive, lanrurugi-api/src/archives.rs) *)
(* and what startup makes of a rename that was cut short                     *)
(* (resolve_pending_renames, repair_zombie_archives, main.rs).  The file,    *)
(* the record and the filemap change one after the other under a journal     *)
(* entry, between two filename reservations.                                 *)
(*                                                                          *)
(* The record is the copy the handler read before its reservations.  Names   *)
(* share one extension; Stem takes it off.  Left out: the patch file beside  *)
(* an archive, and the watcher, which finds every name it is told of mapped. *)
(***************************************************************************)
EXTENDS Naturals, FiniteSets

CONSTANTS
  Requests,   \* rename requests that may overlap
  Archives,   \* archives, each its file's content
  Names,      \* file names in the library directory
  Stem,       \* name -> the name without its extension
  Nothing,    \* no file, no record, no mapping, no journal entry
  MaxRenames, MaxErrors, MaxCrashes   \* bounds

Stems == {Stem[n] : n \in Names}
Records == [file : Names, name : Stems]
Entries == [old : Names, new : Names]

ASSUME NamesAssumption ==
  /\ Nothing \notin Names \union Archives \union Records \union Entries
  /\ MaxRenames \in Nat /\ MaxErrors \in Nat /\ MaxCrashes \in Nat

VARIABLES
  disk,      \* the library directory: name -> content
  record,    \* the archive records: id -> [file, name]
  filemap,   \* LRR_FILEMAP: name -> id
  journal,   \* PENDING_RENAME: id -> [old, new]
  holders,   \* the filename reservations
  task,      \* what each request is at
  boot,      \* what startup is at
  crossed,   \* history: archives whose renames got in each other's way
  exposed,   \* history: archives whose rename Redis refused to journal or to resolve
  doubtful,  \* history: old names that a refusal may have left mapped
  renames, errors, crashes   \* counters for the bounds

INSTANCE RecordRepair WITH Contents <- Archives
Locks == INSTANCE KeyedMutex WITH Callers <- Requests, Filenames <- Names

store == <<disk, record, filemap, journal>>
counters == <<renames, errors, crashes>>
vars == <<store, holders, task, boot, crossed, exposed, doubtful, counters>>

Steps == {"idle", "old", "new", "check", "journal", "move", "undo", "save",
          "unmap", "map", "clear"}
Idle == [step |-> "idle", id |-> Nothing, old |-> Nothing, new |-> Nothing]
Tasks == [step : Steps, id : Archives \union {Nothing}, old : Names \union {Nothing},
          new : Names \union {Nothing}]

\* `left' are the journal entries startup has read and not resolved yet.
BootSteps == {"up", "down", "resolve", "save", "unmap", "map", "clear", "repair"}
Boots == [step : BootSteps, id : Archives \union {Nothing}, left : SUBSET Archives]
Running == [step |-> "up", id |-> Nothing, left |-> {}]

TypeOK ==
  /\ disk \in [Names -> Archives \union {Nothing}]
  /\ record \in [Archives -> Records \union {Nothing}]
  /\ filemap \in [Names -> Archives \union {Nothing}]
  /\ journal \in [Archives -> Entries \union {Nothing}]
  /\ holders \in [Names -> SUBSET Requests]
  /\ task \in [Requests -> Tasks]
  /\ boot \in Boots
  /\ crossed \subseteq Archives /\ exposed \subseteq Archives /\ doubtful \subseteq Names
  /\ renames \in 0..MaxRenames /\ errors \in 0..MaxErrors /\ crashes \in 0..MaxCrashes

\* Every archive has a file of its own, and the filemap knows it.
Init ==
  /\ \E at \in [Archives -> Names] :
       /\ \A i, j \in Archives : at[i] = at[j] => i = j
       /\ disk = [n \in Names |-> IF \E i \in Archives : at[i] = n
                                  THEN CHOOSE i \in Archives : at[i] = n ELSE Nothing]
       /\ record = [i \in Archives |-> [file |-> at[i], name |-> Stem[at[i]]]]
  /\ filemap = disk
  /\ journal = [i \in Archives |-> Nothing]
  /\ Locks!Init
  /\ task = [r \in Requests |-> Idle]
  /\ boot = Running
  /\ crossed = {} /\ exposed = {} /\ doubtful = {}
  /\ renames = 0 /\ errors = 0 /\ crashes = 0

-----------------------------------------------------------------------------
(* The handler *)

Up == boot.step = "up"
At(r, step) == Up /\ task[r].step = step
Goto(r, step) == task' = [task EXCEPT ![r].step = step]

\* The handler returns or is dropped: its guards go with it.
Leave(r) ==
  /\ task' = [task EXCEPT ![r] = Idle]
  /\ holders' = [n \in Names |-> holders[n] \ {r}]

Busy(r) == task[r].step # "idle"
BeforeMove == {"old", "new", "check", "journal", "move", "undo"}
AfterSave == {"unmap", "map", "clear"}

\* The name a request moves a file from, until it has, and the one it moves it to.
Claims(r, n) ==
  /\ Busy(r)
  /\ \/ task[r].new = n
     \/ task[r].old = n /\ task[r].step \in BeforeMove

\* An archive has to do with a name: its file has it, or an entry or a request says so.
Stake(i, n) ==
  \/ disk[n] = i
  \/ journal[i] # Nothing /\ journal[i].new = n
  \/ \E r \in Requests : task[r].id = i /\ Claims(r, n)

\* The other archives that a rename of i to n would cross.
Others(i, n) == {j \in Archives \ {i} : Stake(j, n) \/ Stake(j, record[i].file)}

\* The new name is free, and no other rename of the archive goes on, was left to the
\* next startup or went wrong there.
Careful(i, n) ==
  /\ Others(i, n) = {} /\ ~OnDisk(n)
  /\ journal[i] = Nothing /\ i \notin exposed /\ \A r \in Requests : task[r].id # i

\* The record is read, its file is the old name; to the same name is no rename.
\* Whether the rename is a careful one is only noted: nothing in the code asks.
StartRename(r, i, n) ==
  /\ At(r, "idle") /\ renames < MaxRenames
  /\ Exists(i) /\ n # record[i].file
  /\ task' = [task EXCEPT ![r] = [step |-> "old", id |-> i, old |-> record[i].file, new |-> n]]
  /\ renames' = renames + 1
  /\ crossed' = IF Careful(i, n) THEN crossed ELSE crossed \union {i} \union Others(i, n)
  /\ UNCHANGED <<store, holders, boot, exposed, doubtful, errors, crashes>>

ReserveOld(r) ==
  /\ At(r, "old")
  /\ Locks!Take(r, task[r].old)
  /\ Goto(r, "new")
  /\ UNCHANGED <<store, boot, crossed, exposed, doubtful, counters>>

\* Mutant: the old name is reserved twice.
ReserveOldAgain(r) ==
  /\ At(r, "new")
  /\ Locks!Take(r, task[r].old)
  /\ Goto(r, "check")
  /\ UNCHANGED <<store, boot, crossed, exposed, doubtful, counters>>

ReserveNew(r) ==
  /\ At(r, "new")
  /\ Locks!Take(r, task[r].new)
  /\ Goto(r, "check")
  /\ UNCHANGED <<store, boot, crossed, exposed, doubtful, counters>>

\* find_by_filename compares what it is given, a name with its extension, with
\* the records' names, which have none.
Check(r) ==
  /\ At(r, "check")
  /\ IF \E j \in Archives \ {task[r].id} : Exists(j) /\ record[j].name = task[r].new
     THEN Leave(r)
     ELSE Goto(r, "journal") /\ UNCHANGED holders
  /\ UNCHANGED <<store, boot, crossed, exposed, doubtful, counters>>

Journal(r) ==
  /\ At(r, "journal")
  /\ journal' = [journal EXCEPT ![task[r].id] = [old |-> task[r].old, new |-> task[r].new]]
  /\ Goto(r, "move")
  /\ UNCHANGED <<disk, record, filemap, holders, boot, crossed, exposed, doubtful, counters>>

\* Redis refuses the entry: the rename goes on without it.
JournalRefused(r) ==
  /\ At(r, "journal") /\ errors < MaxErrors
  /\ errors' = errors + 1
  /\ exposed' = exposed \union {task[r].id} /\ doubtful' = doubtful \union {task[r].old}
  /\ Goto(r, "move")
  /\ UNCHANGED <<store, holders, boot, crossed, renames, crashes>>

\* A file that has the new name already is replaced.
Move(r) ==
  /\ At(r, "move")
  /\ IF OnDisk(task[r].old)
     THEN /\ disk' = [disk EXCEPT ![task[r].old] = Nothing, ![task[r].new] = disk[task[r].old]]
          /\ Goto(r, "save")
     ELSE Goto(r, "undo") /\ UNCHANGED disk
  /\ UNCHANGED <<record, filemap, journal, holders, boot, crossed, exposed, doubtful, counters>>

MoveRefused(r) ==
  /\ At(r, "move") /\ errors < MaxErrors
  /\ errors' = errors + 1
  /\ Goto(r, "undo")
  /\ UNCHANGED <<store, holders, boot, crossed, exposed, doubtful, renames, crashes>>

Undo(r) ==
  /\ At(r, "undo")
  /\ journal' = [journal EXCEPT ![task[r].id] = Nothing]
  /\ exposed' = exposed \ {task[r].id}
  /\ Leave(r)
  /\ UNCHANGED <<disk, record, filemap, boot, crossed, doubtful, counters>>

\* Mutant: the record's name keeps the extension.
SaveUnstemmed(r) ==
  /\ At(r, "save")
  /\ record' = [record EXCEPT ![task[r].id] = [file |-> task[r].new, name |-> task[r].new]]
  /\ exposed' = exposed \ {task[r].id}
  /\ Goto(r, "unmap")
  /\ UNCHANGED <<disk, filemap, journal, holders, boot, crossed, doubtful, counters>>

Save(r) ==
  /\ At(r, "save")
  /\ record' = [record EXCEPT ![task[r].id] =
                  [file |-> task[r].new, name |-> Stem[task[r].new]]]
  /\ exposed' = exposed \ {task[r].id}
  /\ Goto(r, "unmap")
  /\ UNCHANGED <<disk, filemap, journal, holders, boot, crossed, doubtful, counters>>

\* Mutant: a rename that ends with an error takes its journal entry back.
SaveRefusedAndForgotten(r) ==
  /\ At(r, "save") /\ errors < MaxErrors
  /\ errors' = errors + 1
  /\ journal' = [journal EXCEPT ![task[r].id] = Nothing]
  /\ Leave(r)
  /\ UNCHANGED <<disk, record, filemap, boot, crossed, exposed, doubtful, renames, crashes>>

\* The journal entry stays for the next startup.
SaveRefused(r) ==
  /\ At(r, "save") /\ errors < MaxErrors
  /\ errors' = errors + 1
  /\ Leave(r)
  /\ UNCHANGED <<store, boot, crossed, exposed, doubtful, renames, crashes>>

Map(n, i) ==
  /\ filemap' = [filemap EXCEPT ![n] = i]
  /\ doubtful' = doubtful \ {n}

Unmap(r) ==
  /\ At(r, "unmap")
  /\ Map(task[r].old, Nothing)
  /\ Goto(r, "map")
  /\ UNCHANGED <<disk, record, journal, holders, boot, crossed, exposed, counters>>

MapNew(r) ==
  /\ At(r, "map")
  /\ Map(task[r].new, task[r].id)
  /\ Goto(r, "clear")
  /\ UNCHANGED <<disk, record, journal, holders, boot, crossed, exposed, counters>>

Clear(r) ==
  /\ At(r, "clear")
  /\ journal' = [journal EXCEPT ![task[r].id] = Nothing]
  /\ Leave(r)
  /\ UNCHANGED <<disk, record, filemap, boot, crossed, exposed, doubtful, counters>>

\* Redis refuses one of these calls: nobody looks.
RefusedUnseen(r) ==
  /\ task[r].step \in {"undo", "unmap", "map", "clear"} /\ Up /\ errors < MaxErrors
  /\ errors' = errors + 1
  /\ CASE task[r].step = "unmap" -> Goto(r, "map") /\ UNCHANGED holders
       [] task[r].step = "map"   -> Goto(r, "clear") /\ UNCHANGED holders
       [] OTHER                  -> Leave(r)
  /\ doubtful' = IF task[r].step = "unmap" THEN doubtful \union {task[r].old} ELSE doubtful
  /\ UNCHANGED <<store, boot, crossed, exposed, renames, crashes>>

\* The client goes away: the server drops the handler at its next await.
Disconnect(r) ==
  /\ Up /\ task[r].step # "idle" /\ errors < MaxErrors
  /\ errors' = errors + 1
  /\ Leave(r)
  /\ UNCHANGED <<store, boot, crossed, exposed, doubtful, renames, crashes>>

Handle(r) ==
  \/ ReserveOld(r) \/ ReserveNew(r) \/ Check(r) \/ Journal(r) \/ Move(r) \/ Undo(r)
  \/ Save(r) \/ Unmap(r) \/ MapNew(r) \/ Clear(r)

-----------------------------------------------------------------------------
(* Crash and startup *)

\* Also in the middle of a startup.
Crash ==
  /\ boot.step # "down" /\ crashes < MaxCrashes
  /\ crashes' = crashes + 1
  /\ boot' = [Running EXCEPT !.step = "down"]
  /\ task' = [r \in Requests |-> Idle]
  /\ holders' = [n \in Names |-> {}]
  /\ UNCHANGED <<store, crossed, exposed, doubtful, renames, errors>>

Begin ==
  /\ boot.step = "down"
  /\ boot' = [step |-> "resolve", id |-> Nothing,
              left |-> {i \in Archives : journal[i] # Nothing}]
  /\ UNCHANGED <<store, holders, task, crossed, exposed, doubtful, counters>>

\* Redis cannot be reached, or does not give the entries: nothing is resolved, and the
\* repair finds records whose files are gone.
BeginRefused ==
  /\ boot.step = "down" /\ errors < MaxErrors
  /\ errors' = errors + 1
  /\ boot' = [Running EXCEPT !.step = "repair"]
  /\ exposed' = exposed \union {i \in Archives : journal[i] # Nothing}
  /\ UNCHANGED <<store, holders, task, crossed, doubtful, renames, crashes>>

BootAt(step) == boot.step = step
Entry == journal[boot.id]
BootGoto(step) == boot' = [boot EXCEPT !.step = step]

\* Mutant: an entry whose old name is in use, by whatever file, is taken for a rename
\* that never ran.
ResolveIfOldIsGone(i) ==
  /\ BootAt("resolve") /\ i \in boot.left
  /\ boot' = [step |-> IF OnDisk(journal[i].new) /\ ~OnDisk(journal[i].old) /\ Exists(i)
                       THEN "save" ELSE "clear",
              id |-> i, left |-> boot.left \ {i}]
  /\ UNCHANGED <<store, holders, task, crossed, exposed, doubtful, counters>>

\* The new name's file decides; the old one is only looked at for the log.
Resolve(i) ==
  /\ BootAt("resolve") /\ i \in boot.left
  /\ boot' = [step |-> IF OnDisk(journal[i].new) /\ Exists(i) THEN "save" ELSE "clear",
              id |-> i, left |-> boot.left \ {i}]
  /\ UNCHANGED <<store, holders, task, crossed, exposed, doubtful, counters>>

\* The record, or the directory, cannot be read: the entry is cleared all the same.
ResolveUnread(i) ==
  /\ BootAt("resolve") /\ i \in boot.left /\ errors < MaxErrors
  /\ errors' = errors + 1
  /\ boot' = [step |-> "clear", id |-> i, left |-> boot.left \ {i}]
  /\ exposed' = exposed \union {i}
  /\ UNCHANGED <<store, holders, task, crossed, doubtful, renames, crashes>>

ResolveSave ==
  /\ BootAt("save")
  /\ record' = [record EXCEPT ![boot.id] = [file |-> Entry.new, name |-> Stem[Entry.new]]]
  /\ BootGoto("unmap")
  /\ UNCHANGED <<disk, filemap, journal, holders, task, crossed, exposed, doubtful, counters>>

\* The entry stays for the next startup, but the repair that follows finds a
\* record whose file is gone.
ResolveRefused ==
  /\ BootAt("save") /\ errors < MaxErrors
  /\ errors' = errors + 1
  /\ exposed' = exposed \union {boot.id}
  /\ BootGoto("resolve")
  /\ UNCHANGED <<store, holders, task, crossed, doubtful, renames, crashes>>

ResolveUnmap ==
  /\ BootAt("unmap")
  /\ Map(Entry.old, Nothing)
  /\ BootGoto("map")
  /\ UNCHANGED <<disk, record, journal, holders, task, crossed, exposed, counters>>

\* Mutant: the old name is mapped again.
ResolveMapOld ==
  /\ BootAt("map")
  /\ Map(Entry.old, boot.id)
  /\ BootGoto("clear")
  /\ UNCHANGED <<disk, record, journal, holders, task, crossed, exposed, counters>>

ResolveMap ==
  /\ BootAt("map")
  /\ Map(Entry.new, boot.id)
  /\ BootGoto("clear")
  /\ UNCHANGED <<disk, record, journal, holders, task, crossed, exposed, counters>>

ResolveClear ==
  /\ BootAt("clear")
  /\ journal' = [journal EXCEPT ![boot.id] = Nothing]
  /\ BootGoto("resolve")
  /\ UNCHANGED <<disk, record, filemap, holders, task, crossed, exposed, doubtful, counters>>

\* Redis refuses one of these three calls: nobody looks.
ResolveRefusedUnseen ==
  /\ boot.step \in {"unmap", "map", "clear"} /\ errors < MaxErrors
  /\ errors' = errors + 1
  /\ BootGoto(CASE BootAt("unmap") -> "map" [] BootAt("map") -> "clear" [] OTHER -> "resolve")
  /\ doubtful' = IF BootAt("unmap") THEN doubtful \union {Entry.old} ELSE doubtful
  /\ UNCHANGED <<store, holders, task, crossed, exposed, renames, crashes>>

Resolved ==
  /\ BootAt("resolve") /\ boot.left = {}
  /\ BootGoto("repair")
  /\ UNCHANGED <<store, holders, task, crossed, exposed, doubtful, counters>>

Repair ==
  /\ BootAt("repair")
  /\ RepairStore(Doomed, Doomed, Repairable)
  /\ boot' = Running
  /\ UNCHANGED <<disk, journal, holders, task, crossed, exposed, doubtful, counters>>

Startup ==
  \/ Begin \/ (\E i \in Archives : Resolve(i)) \/ ResolveSave \/ ResolveUnmap
  \/ ResolveMap \/ ResolveClear \/ Resolved \/ Repair

Next ==
  \/ \E r \in Requests : Handle(r) \/ \E i \in Archives, n \in Names : StartRename(r, i, n)
  \/ \E r \in Requests : JournalRefused(r) \/ MoveRefused(r) \/ SaveRefused(r)
                         \/ RefusedUnseen(r) \/ Disconnect(r)
  \/ Crash \/ Startup
  \/ BeginRefused \/ (\E i \in Archives : ResolveUnread(i)) \/ ResolveRefused
  \/ ResolveRefusedUnseen

\* A handler that has been started runs on, a process that is down is started.
Fairness == WF_vars(Startup) /\ \A r \in Requests : WF_vars(Handle(r))

Spec == Init /\ [][Next]_vars /\ Fairness

-----------------------------------------------------------------------------
(* Properties *)

\* Where startup would say the archive's file is: this is what a rename means,
\* at any moment, for whoever restarts the program.
View(i) ==
  IF ~Exists(i) THEN Nothing
  ELSE IF journal[i] # Nothing /\ OnDisk(journal[i].new) THEN journal[i].new
  ELSE record[i].file

\* At every moment, handlers half way and startups half way included, every
\* archive has a record, and its file is where the journal entry or else the
\* record says, so that no crash costs an archive its record (the promise of
\* archives.rs:1528-1535).  Excepted are archives whose rename Redis refused to
\* journal or to resolve, and those whose renames crossed.
EveryFileIsFound ==
  \A i \in Archives \ (exposed \union crossed) : View(i) # Nothing /\ disk[View(i)] = i

-----------------------------------------------------------------------------
(* Why it holds *)

\* What a request knows about its archive at each step: until the move the file
\* has the old name and nothing the new one, until the save the record has the
\* old name, and from the journal on the entry is there unless Redis refused it.
RequestKnows(r) ==
  LET t == task[r] IN
  /\ Exists(t.id)
  /\ t.step \in BeforeMove => disk[t.old] = t.id /\ ~OnDisk(t.new) /\ record[t.id].file = t.old
  /\ t.step = "save" => disk[t.new] = t.id
  /\ t.step \in AfterSave => disk[t.new] = t.id /\ record[t.id].file = t.new
  /\ t.step \in {"old", "new", "check", "journal"} => journal[t.id] = Nothing /\ t.id \notin exposed
  /\ journal[t.id] \in {Nothing, [old |-> t.old, new |-> t.new]}
  /\ t.step \in {"move", "save"} /\ journal[t.id] = Nothing => t.id \in exposed

RequestsKnow ==
  \A r \in Requests : Busy(r) =>
    /\ Up /\ task[r].id \in Archives
    /\ task[r].old \in Names /\ task[r].new \in Names /\ task[r].old # task[r].new
    /\ task[r].id \notin crossed => RequestKnows(r)

\* An archive is renamed by one request at a time, and a name that a request claims is
\* no other archive's business, but for those that crossed.
RequestsApart ==
  /\ \A r, s \in Requests :
       Busy(r) /\ Busy(s) /\ r # s /\ task[r].id = task[s].id => task[r].id \in crossed
  /\ \A i \in Archives, s \in Requests, n \in Names :
       Claims(s, n) /\ Stake(i, n) /\ i # task[s].id => {i, task[s].id} \subseteq crossed

\* A file at a journalled name is the archive's own.
JournalTrue ==
  \A i \in Archives \ crossed : journal[i] # Nothing => disk[journal[i].new] \in {Nothing, i}

\* The record says what the entry says, or the rename never ran.
Applied(i) == Exists(i) /\ OnDisk(journal[i].new) => record[i].file = journal[i].new

\* What startup has done of the entry it is at, and what of the entries it has passed.
StartupKnows ==
  /\ boot.step \in {"save", "unmap", "map", "clear"} =>
       /\ boot.id \in Archives \ boot.left /\ journal[boot.id] # Nothing
       /\ boot.step # "clear" => Exists(boot.id) /\ OnDisk(Entry.new)
       /\ boot.step \in {"unmap", "map"} => record[boot.id].file = Entry.new
       /\ boot.step = "clear" /\ boot.id \notin exposed => Applied(boot.id)
  /\ \A i \in boot.left : journal[i] # Nothing
  /\ boot.step \notin {"up", "down"} =>
       \A i \in Archives \ (boot.left \union exposed) : journal[i] # Nothing =>
         Applied(i) \/ (i = boot.id /\ boot.step = "save")
  /\ boot.step \in {"up", "down", "repair"} => boot.left = {}

IndInv ==
  TypeOK /\ EveryFileIsFound /\ RequestsKnow /\ RequestsApart /\ JournalTrue /\ StartupKnows

\* The archive's file has moved, but its old name is still to be unmapped.
Pending(i) ==
  /\ journal[i] # Nothing /\ disk[journal[i].new] = i
  /\ \A r \in Requests : Busy(r) /\ task[r].id = i => task[r].step \notin {"map", "clear"}
  /\ boot.step \in {"map", "clear"} => boot.id # i

\* Exposed archives that no request is at work for: what the repair makes of their
\* records may map any name, as may the renames of crossed ones.
Suspect == crossed \union {i \in exposed : \A r \in Requests : Busy(r) => task[r].id # i}

\* What excuses a mapping to an archive whose file is elsewhere.
MappingsExcused ==
  \A n \in Names \ doubtful :
    LET i == filemap[n] IN
    \/ i \in {Nothing, disk[n]} \union Suspect
    \/ (Pending(i) /\ journal[i].old = n)

\* A rename that is not journalled leaves a doubt about the name it takes.
MoversDoubt ==
  \A r \in Requests :
    task[r].step = "move" /\ task[r].id \notin crossed /\ journal[task[r].id] = Nothing =>
      task[r].old \in doubtful \/ filemap[task[r].old] = Nothing

MappingInv == MappingsExcused /\ MoversDoubt

-----------------------------------------------------------------------------
(* Further properties *)

AtRest == Up /\ \A r \in Requests : task[r] = Idle

\* The filemap never names an archive where its file is not: the scanner would take
\* the next file of that name for the archive's new content and re-key its record
\* (pipeline.rs:295-311).  Handlers at work are excepted, the old name of a journal
\* entry that waits for the next startup, the names whose unmapping Redis refused,
\* and mappings to archives that are exposed or crossed.
MappingsAreTrue ==
  AtRest =>
    \A n \in Names \ doubtful :
      LET i == filemap[n] IN
      \/ i \in {Nothing, disk[n]} \union exposed \union crossed
      \/ (journal[i] # Nothing /\ journal[i].old = n)

\* Each rename takes effect in one step, but for those that crossed and those that
\* Redis refused to journal or to resolve.
Promise == INSTANCE ArchiveNames WITH shown <- [i \in Archives |-> View(i)],
                                      exposed <- exposed \union crossed
RenamesAreAtomic == Promise!Spec

Awaits(r, s) ==
  \/ task[r].step = "old" /\ s \in holders[task[r].old]
  \/ task[r].step = "new" /\ s \in holders[task[r].new]

\* Requests that wait for each other in a circle, or for one that does.
Deadlocked == UNION {S \in SUBSET Requests : \A r \in S : \E s \in S : Awaits(r, s)}

\* Every rename ends, unless it waits for a circle of renames each of which holds the
\* name that another wants to take (two that swap names do; archives.rs:1495-1497
\* claims that the fixed order rules a deadlock out).
RenamesEnd == \A r \in Requests : Busy(r) ~> ~Busy(r) \/ r \in Deadlocked
=============================================================================

---------------------------- MODULE LibraryAtRest ----------------------------
(***************************************************************************)
(* Why a library at rest serves all its files: what holds of files, records, *)
(* filemap, tasks and scans between any two steps, as long as no step was    *)
(* refused and no name lost its bytes in a way that no reservation orders.    *)
(***************************************************************************)
EXTENDS Library

-----------------------------------------------------------------------------
(* What holds whatever happens *)

\* A process that is down has nothing in hand, and the supervisor waits for its scan.
Orderly ==
  /\ watch.mode = "down" =>
       events = {} /\ (\A w \in Workers : task[w] = Idle) /\ (\A s \in Scans : scan[s] = NoScan)
  /\ scan[CatchUp] # NoScan => watch.mode \in {"rescanning", "catchingUp"}

\* What a task holds from the start: downloads bring files, the others find them.
TasksBegin == \A w \in Workers :
  /\ Staged(w) => task[w].id \in Brought /\ task[w].path = Nothing
  /\ InPlace(w) => w \in Scans \union {Watcher}
  /\ InPlace(w) /\ task[w].step \in {"lock", "hash"} => task[w].id = Nothing /\ task[w].other = Nothing

-----------------------------------------------------------------------------
(* What workers and scans know *)

Clean == errors = 0 /\ ~raced

\* What a scan has seen is there, and has the bytes its task has hashed.
ScansSee == \A s \in Scans :
  /\ scan[s].phase \notin {"done", "walk"} => \A n \in scan[s].seen : OnDisk(n)
  /\ task[s] # Idle => /\ scan[s].phase = "ingest"
                       /\ OnDisk(task[s].path) /\ task[s].id \in {Nothing, disk[task[s].path]}

\* So has the file that the watcher's loop works at, but for what the user does.
WatcherSees ==
  InPlace(Watcher) /\ task[Watcher].path \notin Changing =>
    task[Watcher].id \in {Nothing, disk[task[Watcher].path]}

\* What a download has moved is where it moved it.
DownloadsSee == \A w \in Workers :
  Staged(w) /\ task[w].step \in {"fix", "fixsave", "remap"} =>
    task[w].dest \in Tried(task[w].want) /\ disk[task[w].dest] = task[w].id

-----------------------------------------------------------------------------
(* The user's files *)

Before == {"lock", "known", "restore"}
Deciding == {"collide", "unlink", "drop", "unmap", "catalogue"}

\* Bytes that a name of the user's has to do with are to do with no other; their
\* archive has its file there, and no download of them has got to making one.
UsersAlone == \A n \in Changing, i \in Contents : Has(n, i) =>
  /\ \A m \in Names : Has(m, i) => m = n
  /\ Exists(i) => record[i].file = n
  /\ \A w \in Workers : Staged(w) /\ task[w].id = i => task[w].step \in Before \union Deciding

-----------------------------------------------------------------------------
(* Files, records and the filemap *)

\* A name is shown when its bytes have an archive, or an archive has its file.
Shown(n) ==
  \/ OnDisk(n) /\ Exists(disk[n])
  \/ \E i \in Contents : Exists(i) /\ record[i].file = n

\* A staged file has a record, which does not name its file yet.
Placing(w) == Staged(w) /\ task[w].step \in {"thumb", "map", "dest", "move", "fix", "fixsave"}

\* Bytes that are still in the filemap under a name that lost them are nowhere
\* else, nor about to be.
OutdatedAlone == \A n \in Names : filemap[n] \notin {Nothing, disk[n]} =>
  /\ \A m \in Names : disk[m] # filemap[n]
  /\ \A w \in Workers : task[w].id = filemap[n] =>
       IF Staged(w) THEN task[w].step \in Before \union Deciding ELSE task[w].path = n

\* So it is with the bytes of an archive whose file has lost them: a download of
\* them finds it, unless it looked before the user's file got it.
Undecided(n) == IF n \in Changing THEN Before \union Deciding ELSE Before
UnreadableAlone == \A i \in Contents : Exists(i) /\ record[i].file # Nothing /\ ~Readable(i) =>
  /\ \A m \in Names : disk[m] # i
  /\ \A w \in Workers : task[w].id = i =>
       IF Staged(w) THEN task[w].step \in Undecided(record[i].file)
       ELSE task[w].path = record[i].file

\* An archive of a name that is not the user's has that name's bytes, unless they
\* are being overwritten, and is the only one.
RecordsAreTrue == \A n \in Names \ Changing :
  /\ \A i \in Contents : Exists(i) /\ record[i].file = n =>
       disk[n] = i \/ (~OnDisk(n) /\ n \in Wanted)
  /\ \A i, j \in Contents : Exists(i) /\ Exists(j) /\ record[i].file = n /\ record[j].file = n => i = j

\* A mapping of bytes that a name has lost, to an archive: its file is that name.
MappingsAreTrue == \A n \in Names : filemap[n] \notin {Nothing, disk[n]} =>
  /\ n \in Changing \union Wanted
  /\ Exists(filemap[n]) => record[filemap[n]].file = n /\ (n \in Changing \/ ~OnDisk(n))

-----------------------------------------------------------------------------
(* What workers have decided *)

\* An archive without a file is in the hands of a download, which relies on it.
UnfiledInHand ==
  /\ watch.mode # "down" =>
       \A i \in Contents : Exists(i) /\ record[i].file = Nothing =>
         \E w \in Workers : Placing(w) /\ task[w].id = i
  /\ \A w \in Workers : Placing(w) => Exists(task[w].id)

\* What is overwritten: bytes and archive of the wanted name.
Overwriting == \A w \in Workers :
  /\ At(w, "unlink") =>
       /\ task[w].other \in Contents \ {task[w].id} /\ Exists(task[w].other)
       /\ \/ disk[task[w].want] = task[w].other
          \/ ~OnDisk(task[w].want) /\ record[task[w].other].file = task[w].want
  /\ At(w, "drop") =>
       /\ task[w].other \in Contents /\ Exists(task[w].other)
       /\ record[task[w].other].file = task[w].want
  /\ task[w].step \in {"drop", "unmap"} => ~OnDisk(task[w].want)

\* After that, no archive of other bytes has the wanted name.
NameIsClear == \A w \in Workers :
  Staged(w) /\ task[w].step \in {"unmap", "catalogue", "thumb", "map", "dest", "move"} =>
    \A i \in Contents : Exists(i) /\ record[i].file = task[w].want => disk[task[w].want] = i

\* Files of that name are, or are about to be, looked up in the filemap.
Looking == {"lock", "hash", "lookup"}
Due(n) ==
  \/ n \in events
  \/ InPlace(Watcher) /\ task[Watcher].path = n /\ task[Watcher].step \in Looking
ScanDue(n) == \E s \in Scans :
  \/ scan[s].phase \in {"prune", "verify", "forget"} /\ n \in scan[s].seen \ scan[s].known
  \/ scan[s].phase = "ingest" /\ n \in scan[s].seen
  \/ InPlace(s) /\ task[s].path = n /\ task[s].step \in Looking

\* Where they will not find bytes the name has lost, unless a download holds it;
\* so that only the user's files are rekeyed.
DueAreMapped == \A n \in Names \ Changing : filemap[n] \notin {Nothing, disk[n]} =>
  /\ Due(n) => \E w \in Workers :
       /\ Staged(w) /\ task[w].want = n
       /\ \/ task[w].step \in {"drop", "unmap"}
          \/ task[w].step \in {"fix", "fixsave", "remap"} /\ task[w].dest = n
  /\ ~ScanDue(n)
UsersAreRekeyed == \A w \in Workers :
  InPlace(w) /\ task[w].step \in {"rekey", "rekeyed"} =>
    task[w].path \in Changing /\ task[w].id # task[w].other

\* What is found in the filemap and left alone, or came too late, is shown.
DueAreShown == \A n \in Names : Due(n) /\ OnDisk(n) => filemap[n] # disk[n] \/ Shown(n)
ScanDueAreShown == \A n \in Names : ScanDue(n) => filemap[n] = Nothing \/ Shown(n)
LateAreShown == \A s \in Scans, n \in Names :
  scan[s].phase \in {"keys", "prune", "verify", "forget"} /\ OnDisk(n) /\ n \notin scan[s].seen =>
    filemap[n] = Nothing \/ Shown(n)
DoneAreShown == \A w \in Workers :
  /\ InPlace(w) /\ task[w].step \in {"restore", "thumb", "map", "rekeyed"} => Shown(task[w].path)
  /\ At(w, "remap") => Shown(task[w].dest)

-----------------------------------------------------------------------------
(* Every file is shown or in somebody's hands *)

\* A worker that will give the file an archive.
Tends(w, n) ==
  /\ InPlace(w) /\ task[w].path = n
  /\ \/ task[w].step \in {"lock", "hash"}
     \/ task[w].id = disk[n] /\ task[w].step \in {"lookup", "rekey", "known", "catalogue"}

\* A scan that will hand it to its task.
Hands(s, n) ==
  \/ scan[s].phase = "walk"
  \/ /\ n \in scan[s].seen
     /\ \/ scan[s].phase \in {"keys", "ingest"}
        \/ scan[s].phase \in {"prune", "verify"} /\ (n \notin scan[s].known \/ filemap[n] # Nothing)
        \/ scan[s].phase = "forget" /\ n \notin scan[s].known \ scan[s].dead

\* The supervisor will start a scan.
Alarmed == watch.mode = "recovering" \/ watch.broken \/ watch.rescan

FilesInHand == watch.mode # "down" =>
  \A n \in Names : OnDisk(n) =>
    \/ Shown(n) \/ Alarmed \/ n \in events
    \/ \E w \in Workers : Tends(w, n)
    \/ \E s \in Scans : Hands(s, n)

CleanInv ==
  /\ ScansSee /\ WatcherSees /\ DownloadsSee
  /\ UsersAlone
  /\ OutdatedAlone /\ UnreadableAlone /\ RecordsAreTrue /\ MappingsAreTrue
  /\ UnfiledInHand /\ Overwriting /\ NameIsClear
  /\ DueAreMapped /\ UsersAreRekeyed
  /\ DueAreShown /\ ScanDueAreShown /\ LateAreShown /\ DoneAreShown
  /\ FilesInHand

RestInv == IndInv /\ ChosenNamesAreFree /\ Orderly /\ TasksBegin /\ (Clean => CleanInv)
=============================================================================

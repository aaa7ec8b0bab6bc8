-------------------------- MODULE RecycleBin_proofs --------------------------
(***************************************************************************)
(* The recycle bin for any requests, archives and names, any number of      *)
(* operations, copies, sweeps, refusals and crashes: the invariant IndInv is *)
(* inductive, and no archive that was not purged is lost but in the ways     *)
(* that `astray' counts.                                                     *)
(***************************************************************************)
EXTENDS RecycleBin, TLAPS

USE NamesAssumption, TriedAssumption

\* Nothing is no record, entry or directory, and no task is without a step.
LEMMA NothingElse ==
  /\ Nothing \notin Names /\ Nothing \notin Archives
  /\ Nothing \notin Records /\ Nothing \notin Entries /\ Nothing \notin Directories
OBVIOUS

\* Records, entries and directories have their types.
LEMMA RecordType ==
  ASSUME NEW n \in Names, NEW m \in Metas
  PROVE  Record(n, m) \in Records /\ Record(n, m).file = n /\ Record(n, m).meta = m
BY DEF Record, Records
LEMMA EntryType ==
  ASSUME NEW n \in Names, NEW m \in Metas, NEW b \in BOOLEAN
  PROVE  [path |-> n, meta |-> m, patch |-> b] \in Entries
BY DEF Entries
LEMMA DirectoryType ==
  /\ NewDirectory \in Directories
  /\ \A n \in Names : NewDirectory.payload[n] = Nothing
  /\ NewDirectory.meta = Nothing
BY DEF NewDirectory, Directories, Bytes
LEMMA StashedDirectory ==
  ASSUME NEW d \in Directories, NEW n \in Names, NEW b \in Bytes
  PROVE  /\ [d EXCEPT !.payload[n] = b] \in Directories
         /\ [d EXCEPT !.payload[n] = b].payload[n] = b
         /\ \A m \in Names \ {n} : [d EXCEPT !.payload[n] = b].payload[m] = d.payload[m]
         /\ [d EXCEPT !.payload[n] = b].meta = d.meta
BY DEF Directories
LEMMA MetaDirectory ==
  ASSUME NEW d \in Directories, NEW e \in Entries
  PROVE  /\ [d EXCEPT !.meta = e] \in Directories
         /\ [d EXCEPT !.meta = e].meta = e
         /\ [d EXCEPT !.meta = e].payload = d.payload
         /\ [d EXCEPT !.meta = e, !.old = FALSE] \in Directories
         /\ [d EXCEPT !.meta = e, !.old = FALSE].meta = e
         /\ [d EXCEPT !.meta = e, !.old = FALSE].payload = d.payload
BY DEF Directories
LEMMA OldDirectory ==
  ASSUME NEW d \in Directories
  PROVE  /\ [d EXCEPT !.old = TRUE] \in Directories
         /\ [d EXCEPT !.old = TRUE].meta = d.meta
         /\ [d EXCEPT !.old = TRUE].payload = d.payload
BY DEF Directories

\* What is read of them has its type.
LEMMA RecordFields ==
  ASSUME NEW r \in Records
  PROVE  r.file \in Names /\ r.meta \in Metas /\ r.name = Nothing
BY DEF Records
LEMMA EntryFields ==
  ASSUME NEW e \in Entries
  PROVE  e.path \in Names /\ e.meta \in Metas /\ e.patch \in BOOLEAN
BY DEF Entries
LEMMA DirectoryFields ==
  ASSUME NEW d \in Directories
  PROVE  /\ d.payload \in [Names -> Bytes] /\ d.meta \in Entries \union {Nothing}
         /\ d.old \in BOOLEAN
BY DEF Directories
LEMMA TaskFields ==
  ASSUME NEW t \in Tasks
  PROVE  /\ t.step \in Steps /\ t.id \in Bytes /\ t.entry \in Entries \union {Nothing}
         /\ t.dest \in Names \union {Nothing}
BY DEF Tasks

\* An idle request has its type.
LEMMA IdleType ==
  /\ Idle \in Tasks
  /\ Idle.step = "idle" /\ Idle.id = Nothing /\ Idle.entry = Nothing /\ Idle.dest = Nothing
BY DEF Idle, Tasks, Steps, Bytes

\* A request that goes on changes its own step and nothing else of the tasks.
LEMMA GotoTask ==
  ASSUME TypeOK, NEW c \in Callers, NEW st \in Steps, Goto(c, st)
  PROVE  /\ task' \in [Callers -> Tasks]
         /\ task'[c].step = st /\ task'[c].id = task[c].id
         /\ task'[c].entry = task[c].entry /\ task'[c].dest = task[c].dest
         /\ \A d \in Callers : d # c => task'[d] = task[d]
BY DEF TypeOK, Tasks, Goto

\* A request that returns is idle and holds nothing, the others go on.
LEMMA LeaveTask ==
  ASSUME TypeOK, NEW c \in Callers, Leave(c)
  PROVE  /\ task' \in [Callers -> Tasks]
         /\ holders' \in [Names \union Archives -> SUBSET Callers]
         /\ task'[c] = Idle
         /\ \A d \in Callers : d # c => task'[d] = task[d]
         /\ \A d \in Callers, k \in Names \union Archives :
              d # c /\ holders[k] = {d} => holders'[k] = {d}
BY IdleType DEF TypeOK, Leave

-----------------------------------------------------------------------------
(* What a step leaves alone *)

\* Record, directory and entry of an archive, and the names its bytes have.
Same(i) ==
  /\ record'[i] = record[i] /\ bin'[i] = bin[i] /\ inventory'[i] = inventory[i]
  /\ \A n \in Names : disk'[n] = i <=> disk[n] = i

\* No name is mapped to it that was not, unless it has a record.
NotMapped(i) == \A n \in Names : filemap'[n] = i => filemap[n] = i \/ Exists(i)

\* The requests that excuse its state are where they were.
StillBusy(i) ==
  \A c \in Callers : Id(c) = i /\ task[c].step \in Stashed \union {"save"} =>
    task'[c].id = i /\ task'[c].step = task[c].step

\* What is not kept is not kept again.
LEMMA KeptShrinks ==
  ASSUME purged \subseteq purged', astray \subseteq astray'
  PROVE  Kept' \subseteq Kept
BY DEF Kept

\* An archive a step leaves alone stays fine.
LEMMA OtherArchive ==
  ASSUME IndInv, NEW i \in Kept, Same(i), NotMapped(i), UNCHANGED boot, loose => loose',
         StillBusy(i) \/ (loose' /\ Up)
  PROVE  ArchiveIsFine(i)'
<1> USE DEF Exists, InLibrary, InTheBin, Same, Kept
<1>1. ArchiveIsFine(i)
  BY DEF IndInv, ArchivesAreFine
<1>2. \A n \in Names : InBin(i, n)' <=> InBin(i, n)
  BY DEF InBin
<1>3. Holds(i)' <=> Holds(i)
  BY <1>2 DEF Holds
<1>4. (Half(i)' <=> Half(i)) /\ (Journalled(i)' <=> Journalled(i)) /\ (Unsettled(i)' <=> Unsettled(i))
  BY DEF Half, Journalled, Unsettled, BootAt
<1>5. (Exists(i)' <=> Exists(i)) /\ (InTheBin(i)' <=> InTheBin(i)) /\ (Up' <=> Up)
  BY DEF Up
<1>6. Exists(i) => (InLibrary(i)' <=> InLibrary(i))
  <2>1. Exists(i) => record[i].file \in Names
    BY RecordFields DEF IndInv, TypeOK
  <2>2. QED
    BY <2>1
<1>7. StillBusy(i) => (Busy(i, Stashed) => Busy(i, Stashed)') /\ (Busy(i, {"save"}) => Busy(i, {"save"})')
  BY DEF StillBusy, Busy, Id
<1>8. RecordIsTrue(i)'
  BY <1>1, <1>4, <1>5, <1>6, <1>7 DEF ArchiveIsFine, RecordIsTrue
<1>9. RestIsFound(i)'
  <2>1. CASE Exists(i)
    BY <2>1, <1>5 DEF RestIsFound
  <2>2. CASE ~Exists(i) /\ InTheBin(i)
    BY <2>2, <1>5 DEF RestIsFound
  <2>3. CASE ~Exists(i) /\ Journalled(i) /\ (loose \/ Unsettled(i))
    BY <2>3, <1>4 DEF RestIsFound
  <2>4. ASSUME ~Exists(i), NEW n \in Names, disk[n] = i,
               filemap[n] # i \/ loose \/ ~Up \/ Busy(i, {"save"})
        PROVE  RestIsFound(i)'
    <3>1. disk'[n] = i
      BY <2>4
    <3>2. filemap'[n] # i \/ loose' \/ ~Up' \/ Busy(i, {"save"})'
      BY <2>4, <1>5, <1>7 DEF NotMapped
    <3>3. QED
      BY <3>1, <3>2 DEF RestIsFound
  <2>5. QED
    BY <2>1, <2>2, <2>3, <2>4, <1>1 DEF ArchiveIsFine, RestIsFound
<1>10. RecoveredIsUnmapped(i)'
  BY <1>1, <1>5 DEF ArchiveIsFine, RecoveredIsUnmapped, NotMapped
<1>11. BinIsTraceable(i)'
  BY <1>1, <1>3, <1>5 DEF ArchiveIsFine, BinIsTraceable
<1>12. SettledIsListed(i)'
  BY <1>1, <1>3, <1>4, <1>5 DEF ArchiveIsFine, SettledIsListed
<1>13. QED
  BY <1>8, <1>9, <1>10, <1>11, <1>12 DEF ArchiveIsFine

\* A request that stands still, whose archive a step leaves alone, knows what it did.
LEMMA OtherRequest ==
  ASSUME IndInv, NEW c \in Callers, task'[c] = task[c], Same(Id(c)), loose => loose',
         purged \subseteq purged', astray \subseteq astray',
         \A k \in Names \union Archives : holders[k] = {c} => holders'[k] = {c}
  PROVE  RequestHas(c)' /\ (Id(c)' \in Kept' => RequestKnows(c)')
<1> USE DEF Same, Id
<1>0. task[c] \in Tasks /\ RequestHas(c)
  BY DEF IndInv, TypeOK, RequestsKnow
<1>1. RequestHas(c)'
  <2>1. task[c].step \in AtName => task[c].dest \in Names
    BY <1>0, TaskFields DEF RequestHas
  <2>2. task[c].step \notin Unreserved => task[c].id \in Archives
    BY <1>0 DEF RequestHas, Unreserved
  <2>3. QED
    BY <1>0, <2>1, <2>2 DEF RequestHas
<1>2. ASSUME Id(c) \in Kept'
      PROVE  RequestKnows(c)'
  <2>1. Id(c) \in Kept /\ RequestKnows(c)
    BY <1>2, KeptShrinks DEF IndInv, RequestsKnow
  <2>2. task[c].step \in Moving \union Stashed \union Restoring => task[c].entry.path \in Names
    BY <1>0, TaskFields, EntryFields DEF RequestHas
  <2>3. task[c].step \in AtName => task[c].dest \in Names
    BY <1>0, TaskFields DEF RequestHas
  <2>4. Exists(Id(c)) => record[Id(c)].file \in Names
    BY <2>1, RecordFields DEF IndInv, TypeOK, Exists, Kept
  <2>5. (Exists(Id(c))' <=> Exists(Id(c))) /\ (Exists(Id(c)) => (InLibrary(Id(c))' <=> InLibrary(Id(c))))
    BY <2>4 DEF Exists, InLibrary
  <2>6. InTheBin(Id(c))' <=> InTheBin(Id(c))
    BY DEF InTheBin
  <2>7. task[c].step \in {"save", "return"} => (disk'[task[c].dest] = Id(c) <=> disk[task[c].dest] = Id(c))
    BY <2>3 DEF AtName
  <2>8. task[c].step \in Moving \union Stashed =>
          (disk'[task[c].entry.path] = Id(c) <=> disk[task[c].entry.path] = Id(c))
    BY <2>2
  <2>9. QED
    BY <2>1, <2>5, <2>6, <2>7, <2>8 DEF RequestKnows, Moving
<1>3. QED
  BY <1>1, <1>2

-----------------------------------------------------------------------------
(* The steps of a request *)

\* What a step of a request must leave as it is.
Alone(c) ==
  /\ Up /\ UNCHANGED <<sweep, boot>> /\ (loose => loose')
  /\ purged \subseteq purged' /\ astray \subseteq astray'
  /\ \A d \in Callers \ {c} : task'[d] = task[d]
  /\ \A d \in Callers \ {c}, k \in Names \union Archives :
       holders[k] = {d} => holders'[k] = {d}
  /\ \A i \in Kept' \ {Id(c)} : Same(i) /\ NotMapped(i)

\* Startup and sweep are not concerned.
LEMMA QuietStartup ==
  ASSUME IndInv, Up, UNCHANGED <<sweep, boot>>, purged \subseteq purged'
  PROVE  StartupKnows' /\ SweepKnows'
BY DEF IndInv, StartupKnows, SweepKnows, Up, BootAt, Finishing

\* A step of a request preserves the invariant if it leaves the other archives
\* and requests alone and does right by its own.
LEMMA Handled ==
  ASSUME IndInv, TypeOK', NEW c \in Callers, task[c].step # "idle", Alone(c),
         NEW k \in Archives, k = Id(c),
         task'[c].id = k \/ task'[c] = Idle,
         task[c].step \notin Unreserved \/ Same(k),
         k \in Kept' => ArchiveIsFine(k)',
         RequestHas(c)',
         k \in Kept' /\ task'[c] # Idle => RequestKnows(c)',
         BinIsPure',
         \A d \in Callers \ {c} : k \in Kept' => DestinationIsTrue(d, k)',
         \A i \in Kept' \ {k} : DestinationIsTrue(c, i)'
  PROVE  IndInv'
<1> USE DEF Alone
<1>1. Kept' \subseteq Kept
  BY KeptShrinks
<1>2. ArchivesAreFine'
  <2>1. ASSUME NEW i \in Kept', i # k
        PROVE  ArchiveIsFine(i)'
    <3>1. StillBusy(i)
      BY <2>1 DEF StillBusy, Id
    <3>2. QED
      BY <1>1, <2>1, <3>1, OtherArchive
  <2>2. QED
    BY <2>1 DEF ArchivesAreFine
<1>3. RequestsKnow'
  <2>1. ASSUME NEW d \in Callers, d # c, Id(d) \notin Kept'
        PROVE  RequestHas(d)'
    <3>1. RequestHas(d) /\ task[d] \in Tasks
      BY DEF IndInv, RequestsKnow, TypeOK
    <3>2. task[d].step \in AtName => task[d].dest \in Names
      BY <3>1, TaskFields DEF RequestHas
    <3>3. task[d].step \notin Unreserved => task[d].id \in Archives
      BY <3>1 DEF RequestHas, Unreserved
    <3>4. QED
      BY <2>1, <3>1, <3>2, <3>3 DEF RequestHas
  <2>2. ASSUME NEW d \in Callers, d # c, Id(d) \in Kept', Same(Id(d))
        PROVE  RequestHas(d)' /\ RequestKnows(d)'
    BY <2>2, OtherRequest DEF Id
  <2>3. ASSUME NEW d \in Callers, d # c, Id(d) = k, task[c].step \notin Unreserved
        PROVE  RequestHas(d)' /\ RequestKnows(d)'
    <3>1. task[d].step \in Unreserved
      <4>1. RequestHas(c) /\ RequestHas(d)
        BY DEF IndInv, RequestsKnow
      <4>2. {c} # {d}
        BY <2>3
      <4>3. QED
        BY <2>3, <4>1, <4>2 DEF RequestHas, Id
    <3>2. RequestHas(d) /\ task'[d] = task[d]
      BY <2>3 DEF IndInv, RequestsKnow
    <3>3. QED
      BY <3>1, <3>2 DEF RequestHas, RequestKnows, Unreserved, Moving, Stashed, Restoring, AtName
  <2>4. ASSUME Id(c)' \in Kept', task'[c] = Idle
        PROVE  FALSE
    BY <2>4, IdleType DEF Id, Kept
  <2>5. ASSUME NEW d \in Callers
        PROVE  RequestHas(d)' /\ (Id(d)' \in Kept' => RequestKnows(d)')
    <3>1. CASE d = c
      BY <3>1, <2>4 DEF Id
    <3>2. CASE d # c /\ Id(d) # k
      BY <3>2, <2>1, <2>2 DEF Id
    <3>3. CASE d # c /\ Id(d) = k
      BY <3>3, <2>1, <2>2, <2>3 DEF Id
    <3>4. QED
      BY <3>1, <3>2, <3>3
  <2>6. QED
    BY <2>5 DEF RequestsKnow
<1>4. DestinationsAreTrue'
  <2>1. ASSUME NEW d \in Callers, d # c, NEW i \in Kept', i # k
        PROVE  DestinationIsTrue(d, i)'
    <3>1. DestinationIsTrue(d, i) /\ Same(i) /\ task'[d] = task[d]
      BY <1>1, <2>1 DEF IndInv, DestinationsAreTrue
    <3>2. task[d].step \in {"save", "map"} => task[d].dest \in Names
      <4>1. RequestHas(d) /\ task[d] \in Tasks
        BY DEF IndInv, RequestsKnow, TypeOK
      <4>2. QED
        BY <4>1, TaskFields DEF RequestHas, AtName
    <3>3. Busy(i, Restoring)' => Busy(i, Restoring)
      BY <2>1, IdleType DEF Busy, Id, Restoring
    <3>4. QED
      BY <3>1, <3>2, <3>3 DEF DestinationIsTrue, Same, Exists, Id
  <2>2. DestinationIsTrue(c, k)'
    BY IdleType DEF DestinationIsTrue, Id
  <2>3. QED
    BY <2>1, <2>2 DEF DestinationsAreTrue
<1>5. StartupKnows' /\ SweepKnows'
  BY QuietStartup
<1>6. QED
  BY <1>2, <1>3, <1>4, <1>5 DEF IndInv

\* A step that changes no store preserves it if the request knows enough at its
\* next step.
LEMMA StoreKept ==
  ASSUME IndInv, TypeOK', NEW c \in Callers, task[c].step # "idle",
         NEW k \in Archives, k = Id(c),
         UNCHANGED <<store, sweep, boot, purged, astray>>, Up, loose => loose',
         task[c].step \notin Stashed \union {"save"} \/ loose' \/ k \notin Kept,
         \A d \in Callers \ {c} : task'[d] = task[d],
         \A d \in Callers \ {c}, x \in Names \union Archives :
           holders[x] = {d} => holders'[x] = {d},
         task'[c].id = k \/ task'[c] = Idle,
         task'[c].step \in Restoring /\ task[c].step \notin Restoring => ~Exists(k),
         task'[c].step \notin {"save", "map"},
         RequestHas(c)',
         k \in Kept /\ task'[c] # Idle => RequestKnows(c)'
  PROVE  IndInv'
<1>1. \A i \in Archives \union {Nothing} : Same(i) /\ NotMapped(i)
  BY DEF store, library, Same, NotMapped
<1>2. Kept' = Kept
  BY DEF Kept
<1>4. Alone(c)
  BY <1>1, <1>2 DEF Alone, Kept
<1>5. ASSUME k \in Kept
      PROVE  ArchiveIsFine(k)'
  <2>1. StillBusy(k) \/ loose'
    BY <1>5 DEF StillBusy, Id
  <2>2. QED
    BY <1>1, <1>5, <2>1, OtherArchive
<1>6. BinIsPure'
  BY DEF IndInv, BinIsPure, InBin, store
<1>7. ASSUME NEW d \in Callers \ {c}, k \in Kept
      PROVE  DestinationIsTrue(d, k)'
  <2>1. DestinationIsTrue(d, k)
    BY <1>7 DEF IndInv, DestinationsAreTrue
  <2>2. Exists(k) /\ Busy(k, Restoring)' => Busy(k, Restoring)
    BY DEF Busy, Id
  <2>3. QED
    BY <2>1, <2>2 DEF DestinationIsTrue, Exists, Id, store, library
<1>8. \A i \in Kept' \ {k} : DestinationIsTrue(c, i)'
  BY DEF DestinationIsTrue
<1>9. QED
  BY <1>1, <1>2, <1>4, <1>5, <1>6, <1>7, <1>8, Handled

\* What a request at work has.
LEMMA AtWork ==
  ASSUME IndInv, NEW c \in Callers, task[c].step # "idle"
  PROVE  /\ task[c] \in Tasks /\ Id(c) \in Archives /\ RequestHas(c)
         /\ Id(c) \in Kept => RequestKnows(c)
         /\ task[c].entry # Nothing =>
              /\ task[c].entry \in Entries /\ Path(c) \in Names
              /\ task[c].entry.meta \in Metas /\ task[c].entry.patch \in BOOLEAN
         /\ task[c].dest # Nothing => task[c].dest \in Names
         /\ task[c] # Idle
<1>1. task[c] \in Tasks /\ RequestHas(c) /\ (Id(c) \in Kept => RequestKnows(c))
  BY DEF IndInv, TypeOK, RequestsKnow
<1>2. QED
  BY <1>1, TaskFields, EntryFields, IdleType DEF RequestHas, Id, Path

\* An idle request needs nothing.
LEMMA IdleHas ==
  ASSUME NEW c \in Callers, task'[c] = Idle
  PROVE  RequestHas(c)'
BY IdleType DEF RequestHas, Moving, Stashed, Restoring, AtName, Unreserved

\* A request may return before it has changed anything, or when refused.
LEMMA StoreLeft ==
  ASSUME IndInv, NEW c \in Callers, task[c].step # "idle", Up, Leave(c),
         UNCHANGED <<store, sweep, boot, purged, astray>>, loose' \in BOOLEAN, loose => loose',
         task[c].step \notin Stashed \union {"save"} \/ loose' \/ Id(c) \notin Kept
  PROVE  IndInv'
<1>1. PICK k \in Archives : k = Id(c)
  BY AtWork
<1>2. task'[c] = Idle /\ (\A d \in Callers \ {c} : task'[d] = task[d])
  BY LeaveTask DEF IndInv
<1>3. \A d \in Callers \ {c}, n \in Names \union Archives : holders[n] = {d} => holders'[n] = {d}
  BY LeaveTask DEF IndInv
<1>4. TypeOK'
  BY LeaveTask DEF IndInv, TypeOK, store, library
<1>5. RequestHas(c)'
  BY <1>2, IdleHas
<1>6. task'[c].step = "idle"
  BY <1>2, IdleType
<1>7. QED
  BY <1>1, <1>2, <1>3, <1>4, <1>5, <1>6, StoreKept DEF Restoring

\* Or go on.
LEMMA StoreGone ==
  ASSUME IndInv, NEW c \in Callers, task[c].step # "idle", Up,
         NEW st \in Steps, Goto(c, st), UNCHANGED holders,
         UNCHANGED <<store, sweep, boot, purged, astray>>, loose' \in BOOLEAN, loose => loose',
         task[c].step \notin Stashed \union {"save"} \/ loose',
         st \in Restoring /\ task[c].step \notin Restoring => ~Exists(Id(c)),
         st \notin {"save", "map"},
         RequestHas(c)', Id(c) \in Kept => RequestKnows(c)'
  PROVE  IndInv'
<1>1. PICK k \in Archives : k = Id(c)
  BY AtWork
<1>2. task'[c].step = st /\ task'[c].id = k /\ \A d \in Callers \ {c} : task'[d] = task[d]
  BY <1>1, GotoTask DEF IndInv, Id
<1>3. TypeOK'
  BY GotoTask DEF IndInv, TypeOK, store, library
<1>4. QED
  BY <1>1, <1>2, <1>3, StoreKept

\* The reservation of an archive's entry.
LEMMA LockEntryKept ==
  ASSUME IndInv, NEW c \in Callers,
         NEW at \in {"d lock", "r lock", "p lock"}, NEW next \in {"look", "entry", "p rmdir"},
         LockEntry(c, at, next)
  PROVE  IndInv'
<1>0. /\ task[c].step = at /\ Up
      /\ UNCHANGED <<store, sweep, boot, loose, purged, astray>>
  BY DEF LockEntry, At, history
<1>1. PICK k \in Archives : k = Id(c)
  BY <1>0, AtWork
<1>2. /\ task'[c].step = next /\ task'[c].id = k /\ task' \in [Callers -> Tasks]
      /\ \A d \in Callers \ {c} : task'[d] = task[d]
  <2>1. next \in Steps
    BY DEF Steps
  <2>2. QED
    BY <1>1, <2>1, GotoTask DEF IndInv, Id, LockEntry
<1>3. /\ holders[k] = {} /\ holders' = [holders EXCEPT ![k] = {c}]
      /\ holders \in [Names \union Archives -> SUBSET Callers]
  BY <1>1 DEF LockEntry, Locks!Take, IndInv, TypeOK
<1>4. \A d \in Callers \ {c}, n \in Names \union Archives : holders[n] = {d} => holders'[n] = {d}
  BY <1>3
<1>5. TypeOK'
  <2>1. holders' \in [Names \union Archives -> SUBSET Callers]
    BY <1>3
  <2>2. QED
    BY <1>0, <1>2, <2>1 DEF IndInv, TypeOK, store, library
<1>6. RequestHas(c)'
  BY <1>2, <1>3 DEF RequestHas, Moving, Stashed, Restoring, AtName
<1>7. RequestKnows(c)'
  BY <1>2 DEF RequestKnows, Moving, Stashed, Restoring
<1>8. QED
  BY <1>0, <1>1, <1>2, <1>4, <1>5, <1>6, <1>7, StoreKept DEF Stashed, Restoring

\* The record of the archive to delete is read.
LEMMA LookKept ==
  ASSUME IndInv, NEW c \in Callers, Look(c)
  PROVE  IndInv'
<1>0. task[c].step = "look" /\ Up /\ UNCHANGED <<store, sweep, boot, history, counters>>
  BY DEF Look, At, Rest
<1>1. PICK k \in Archives : k = Id(c)
  BY <1>0, AtWork
<1>2. loose' = loose /\ loose' \in BOOLEAN /\ UNCHANGED <<purged, astray>>
  BY <1>0 DEF history, IndInv, TypeOK
<1>3. CASE ~Exists(Id(c))
  BY <1>0, <1>2, <1>3, StoreLeft DEF Look, Stashed
<1>4. CASE Exists(Id(c))
  <2> DEFINE e == [path |-> record[k].file, meta |-> record[k].meta, patch |-> FALSE]
             st == IF OnDisk(record[k].file) THEN "mkdir" ELSE "drop gone"
  <2>1. record[k] \in Records /\ e \in Entries /\ task[c] \in Tasks /\ RequestHas(c)
    <3>1. record[k] \in Records
      BY <1>1, <1>4 DEF IndInv, TypeOK, Exists
    <3>2. QED
      BY <1>0, <3>1, RecordFields, EntryType, AtWork
  <2>2a. task' = [task EXCEPT ![c].step = st, ![c].entry = e] /\ holders' = holders
    BY <1>1, <1>4 DEF Look
  <2>2. holders' = holders
    BY <2>2a
  <2>3. /\ task'[c].step = st /\ task'[c].id = k /\ task'[c].entry = e /\ task' \in [Callers -> Tasks]
        /\ \A d \in Callers \ {c} : task'[d] = task[d]
    <3> HIDE DEF e
    <3>1. st \in Steps
      BY DEF Steps
    <3> HIDE DEF st
    <3>2. QED
      BY <1>1, <2>1, <2>2a, <3>1 DEF IndInv, TypeOK, Tasks, Id
  <2>4. TypeOK'
    BY <1>0, <2>2, <2>3 DEF IndInv, TypeOK, store, library, history
  <2>5. e # Nothing /\ e.path = record[k].file /\ ~e.patch /\ st \in {"mkdir", "drop gone"}
    BY <2>1
  <2>6. RequestHas(c)'
    <3> HIDE DEF e, st
    <3>1. QED
      BY <1>0, <1>1, <2>1, <2>2, <2>3, <2>5 DEF RequestHas, Moving, Stashed, Restoring, AtName, Unreserved, Id
  <2>7. RequestKnows(c)'
    BY <1>0, <1>1, <1>4, <2>3, <2>5 DEF RequestKnows, Moving, Stashed, Restoring, Exists, store, library
  <2> HIDE DEF e, st
  <2>8. QED
    BY <1>0, <1>1, <1>2, <2>2, <2>3, <2>4, <2>5, <2>6, <2>7, StoreKept DEF Stashed, Restoring
<1>5. QED
  BY <1>3, <1>4

\* The entry of the archive to restore is read.
LEMMA ReadEntryKept ==
  ASSUME IndInv, NEW c \in Callers, ReadEntry(c)
  PROVE  IndInv'
<1>0. task[c].step = "entry" /\ Up /\ UNCHANGED <<store, sweep, boot, loose, purged, astray>>
  BY DEF ReadEntry, At, Rest, history
<1>1. PICK k \in Archives : k = Id(c)
  BY <1>0, AtWork
<1>2. loose' \in BOOLEAN
  BY <1>0 DEF IndInv, TypeOK
<1>3. CASE Leave(c)
  BY <1>0, <1>2, <1>3, StoreLeft DEF Stashed
<1>4. CASE ~Leave(c)
  <2> DEFINE e == inventory[k]
  <2>1. e \in Entries /\ e # Nothing /\ task[c] \in Tasks /\ RequestHas(c) /\ "dest" \in Steps
    BY <1>0, <1>1, <1>4, AtWork DEF ReadEntry, IndInv, TypeOK, Steps
  <2>2. /\ task' = [task EXCEPT ![c].step = "dest", ![c].entry = e]
        /\ ~Exists(k) /\ bin[k] # Nothing /\ bin[k].payload[e.path] = k
    BY <1>1, <1>4 DEF ReadEntry
  <2>3. holders' = holders
    BY <1>4 DEF ReadEntry
  <2>4. /\ task'[c].step = "dest" /\ task'[c].id = k /\ task'[c].entry = e
        /\ task' \in [Callers -> Tasks] /\ \A d \in Callers \ {c} : task'[d] = task[d]
    <3> HIDE DEF e
    <3>1. QED
      BY <1>1, <2>1, <2>2 DEF IndInv, TypeOK, Tasks, Id
  <2>5. TypeOK'
    BY <1>0, <2>3, <2>4 DEF IndInv, TypeOK, store, library
  <2>6. RequestHas(c)'
    <3> HIDE DEF e
    <3>1. QED
      BY <1>0, <1>1, <2>1, <2>3, <2>4 DEF RequestHas, Moving, Stashed, Restoring, AtName, Unreserved, Id
  <2>7. RequestKnows(c)'
    BY <1>0, <1>1, <2>1, <2>2, <2>4
    DEF RequestKnows, Moving, Stashed, Restoring, Exists, InTheBin, store, library
  <2> HIDE DEF e
  <2>8. QED
    BY <1>0, <1>1, <1>2, <2>2, <2>3, <2>4, <2>5, <2>6, <2>7, StoreKept DEF Stashed
<1>5. QED
  BY <1>3, <1>4

\* A destination is chosen.
LEMMA ChooseDestinationKept ==
  ASSUME IndInv, NEW c \in Callers, ChooseDestination(c)
  PROVE  IndInv'
<1>0. task[c].step = "dest" /\ Up /\ UNCHANGED <<store, sweep, boot, loose, purged, astray, holders>>
  BY DEF ChooseDestination, At, Rest, history
<1>1. PICK k \in Archives : k = Id(c)
  BY <1>0, AtWork
<1>2. loose' \in BOOLEAN
  BY <1>0 DEF IndInv, TypeOK
<1>3. /\ task[c] \in Tasks /\ RequestHas(c) /\ (k \in Kept => RequestKnows(c))
      /\ task[c].entry # Nothing /\ Path(c) \in Names /\ "name" \in Steps
  BY <1>0, <1>1, AtWork DEF RequestHas, Restoring, Steps
<1>4. PICK n \in Names : task' = [task EXCEPT ![c].step = "name", ![c].dest = n]
  BY <1>3 DEF ChooseDestination
<1>5. /\ task'[c].step = "name" /\ task'[c].id = k /\ task'[c].entry = task[c].entry /\ task'[c].dest = n
      /\ task' \in [Callers -> Tasks] /\ \A d \in Callers \ {c} : task'[d] = task[d]
  BY <1>1, <1>3, <1>4 DEF IndInv, TypeOK, Tasks, Id
<1>6. TypeOK'
  BY <1>0, <1>5 DEF IndInv, TypeOK, store, library
<1>7. RequestHas(c)'
  BY <1>0, <1>1, <1>3, <1>5 DEF RequestHas, Moving, Stashed, Restoring, AtName, Unreserved, Id
<1>8. k \in Kept => RequestKnows(c)'
  BY <1>0, <1>1, <1>3, <1>5
  DEF RequestKnows, Moving, Stashed, Restoring, Exists, InTheBin, InLibrary, store, library, Id
<1>9. QED
  BY <1>0, <1>1, <1>2, <1>5, <1>6, <1>7, <1>8, StoreKept DEF Stashed, Restoring

\* And its name reserved, which is no archive's.
LEMMA ReserveNameKept ==
  ASSUME IndInv, NEW c \in Callers, ReserveName(c)
  PROVE  IndInv'
<1>0. task[c].step = "name" /\ Up /\ UNCHANGED <<store, sweep, boot, loose, purged, astray>>
  BY DEF ReserveName, At, Rest, history
<1>1. PICK k \in Archives : k = Id(c)
  BY <1>0, AtWork
<1>2. loose' \in BOOLEAN
  BY <1>0 DEF IndInv, TypeOK
<1>3. PICK n \in Names : n = task[c].dest
  BY <1>0, AtWork DEF RequestHas
<1>4. /\ task[c] \in Tasks /\ RequestHas(c) /\ (k \in Kept => RequestKnows(c))
      /\ "move" \in Steps /\ n # k
  BY <1>0, <1>1, AtWork DEF Steps
<1>5. /\ task'[c].step = "move" /\ task'[c].id = k /\ task'[c].entry = task[c].entry /\ task'[c].dest = n
      /\ task' \in [Callers -> Tasks] /\ \A d \in Callers \ {c} : task'[d] = task[d]
  BY <1>1, <1>3, <1>4, GotoTask DEF IndInv, Id, ReserveName
<1>6. /\ holders[n] = {} /\ holders' = [holders EXCEPT ![n] = {c}]
      /\ holders \in [Names \union Archives -> SUBSET Callers]
  BY <1>3 DEF ReserveName, Locks!Take, IndInv, TypeOK
<1>7. \A d \in Callers \ {c}, m \in Names \union Archives : holders[m] = {d} => holders'[m] = {d}
  BY <1>6
<1>8. TypeOK'
  <2>1. holders' \in [Names \union Archives -> SUBSET Callers]
    BY <1>6
  <2>2. QED
    BY <1>0, <1>5, <2>1 DEF IndInv, TypeOK, store, library
<1>9. RequestHas(c)'
  <2>1. holders'[n] = {c} /\ holders'[k] = {c}
    BY <1>0, <1>1, <1>4, <1>6 DEF RequestHas, Unreserved, Id
  <2>2. QED
    BY <1>0, <1>1, <1>3, <1>4, <1>5, <2>1 DEF RequestHas, Moving, Stashed, Restoring, AtName
<1>10. k \in Kept => RequestKnows(c)'
  BY <1>0, <1>1, <1>4, <1>5
  DEF RequestKnows, Moving, Stashed, Restoring, Exists, InTheBin, InLibrary, store, library, Id
<1>11. QED
  BY <1>0, <1>1, <1>2, <1>5, <1>7, <1>8, <1>9, <1>10, StoreKept DEF Stashed, Restoring

\* The entry to purge is looked up.
LEMMA FindKept ==
  ASSUME IndInv, NEW c \in Callers, Find(c)
  PROVE  IndInv'
<1>0. task[c].step = "find" /\ Up /\ UNCHANGED <<store, sweep, boot, loose, purged, astray>>
  BY DEF Find, At, Rest, history
<1>2. loose' \in BOOLEAN
  BY <1>0 DEF IndInv, TypeOK
<1>3. CASE Leave(c)
  BY <1>0, <1>2, <1>3, StoreLeft DEF Stashed
<1>4. CASE ~Leave(c)
  <2>1. Goto(c, "p lock") /\ UNCHANGED holders /\ "p lock" \in Steps
    BY <1>4 DEF Find, Steps
  <2>2. task'[c].step = "p lock" /\ task'[c].id \in Archives
    BY <1>0, <2>1, AtWork, GotoTask DEF IndInv, Id
  <2>3. RequestHas(c)' /\ RequestKnows(c)'
    BY <2>2 DEF RequestHas, RequestKnows, Moving, Stashed, Restoring, AtName, Unreserved
  <2>4. QED
    BY <1>0, <1>2, <2>1, <2>3, StoreGone DEF Stashed, Restoring
<1>5. QED
  BY <1>3, <1>4

\* A step is refused, or the client goes away.
LEMMA RefusedKept ==
  ASSUME IndInv, NEW c \in Callers, Refused(c)
  PROVE  IndInv'
<1>0. /\ task[c].step # "idle" /\ Up /\ UNCHANGED <<store, sweep, boot, purged, astray>>
      /\ loose' = TRUE
  BY DEF Refused
<1>3. CASE Leave(c)
  BY <1>0, <1>3, StoreLeft DEF Stashed
<1>4. CASE ~Leave(c)
  <2> DEFINE st == Otherwise(task[c].step)
  <2>1. Goto(c, st) /\ UNCHANGED holders /\ st # "idle"
    BY <1>4 DEF Refused
  <2>2. \/ task[c].step \in {"meta", "put"} /\ st = "back"
        \/ task[c].step = "unmap" /\ st = "drop"
        \/ task[c].step = "unput" /\ st = "d rmdir"
        \/ task[c].step = "save" /\ st = "return"
        \/ task[c].step = "map" /\ st = "remove"
        \/ task[c].step = "remove" /\ st = "r rmdir"
    BY <2>1 DEF Otherwise
  <2> HIDE DEF st
  <2>3. st \in Steps /\ st \notin {"save", "map"} /\ (st \in Restoring => task[c].step \in Restoring)
    BY <2>2 DEF Steps, Restoring
  <2>4. /\ task'[c].step = st /\ task'[c].id = task[c].id /\ task'[c].entry = task[c].entry
        /\ task'[c].dest = task[c].dest
    BY <2>1, <2>3, GotoTask DEF IndInv
  <2>5. RequestHas(c) /\ (Id(c) \in Kept => RequestKnows(c))
    BY <1>0, AtWork
  <2>6. RequestHas(c)'
    BY <1>0, <2>1, <2>2, <2>4, <2>5 DEF RequestHas, Moving, Stashed, Restoring, AtName, Unreserved
  <2>7. Id(c) \in Kept => RequestKnows(c)'
    BY <1>0, <2>2, <2>4, <2>5
    DEF RequestKnows, Moving, Stashed, Restoring, Exists, InTheBin, InLibrary, store, library, Id
  <2>8. QED
    BY <1>0, <2>1, <2>3, <2>6, <2>7, StoreGone
<1>5. QED
  BY <1>3, <1>4

\* A request starts.
LEMMA StartKept ==
  ASSUME IndInv, NEW c \in Callers, NEW i \in Archives, NEW step \in {"d lock", "r lock", "find"},
         Start(c, i, step)
  PROVE  IndInv'
<1>0. /\ task[c].step = "idle" /\ Up
      /\ UNCHANGED <<store, sweep, boot, loose, purged, astray, holders>>
      /\ task' = [task EXCEPT ![c] = [Idle EXCEPT !.step = step, !.id = i]]
  BY DEF Start, At, history
<1>1. /\ task'[c].step = step /\ task'[c].id = i /\ task' \in [Callers -> Tasks]
      /\ \A d \in Callers \ {c} : task'[d] = task[d]
  <2>1. [Idle EXCEPT !.step = step, !.id = i] \in Tasks
    BY IdleType DEF Tasks, Steps, Bytes
  <2>2. [Idle EXCEPT !.step = step, !.id = i].step = step /\ [Idle EXCEPT !.step = step, !.id = i].id = i
    BY DEF Idle
  <2>3. task \in [Callers -> Tasks]
    BY DEF IndInv, TypeOK
  <2>4. QED
    BY <1>0, <2>1, <2>2, <2>3
<1>2. TypeOK'
  BY <1>0, <1>1 DEF IndInv, TypeOK, store, library
<1>3. \A k \in Archives \union {Nothing} : Same(k) /\ NotMapped(k)
  BY <1>0 DEF store, library, Same, NotMapped
<1>4. Kept' = Kept
  BY <1>0 DEF Kept
<1>5. ArchivesAreFine'
  <2>1. ASSUME NEW k \in Kept
        PROVE  ArchiveIsFine(k)'
    <3>1. StillBusy(k)
      <4>1. \A d \in Callers : task[d].step \in Stashed \union {"save"} => d # c
        BY <1>0 DEF Stashed
      <4>2. QED
        BY <1>1, <4>1 DEF StillBusy, Id
    <3>2. QED
      BY <1>0, <1>3, <2>1, <3>1, OtherArchive DEF Kept
  <2>2. QED
    BY <1>4, <2>1 DEF ArchivesAreFine
<1>6. RequestsKnow'
  <2>1. RequestHas(c)' /\ RequestKnows(c)'
    BY <1>1 DEF RequestHas, RequestKnows, Moving, Stashed, Restoring, AtName, Unreserved
  <2>2. ASSUME NEW d \in Callers, d # c
        PROVE  RequestHas(d)' /\ (Id(d)' \in Kept' => RequestKnows(d)')
    <3>1. Id(d) \in Archives \union {Nothing}
      BY TaskFields DEF IndInv, TypeOK, Id, Bytes
    <3>2. Same(Id(d)) /\ task'[d] = task[d]
      BY <1>1, <1>3, <2>2, <3>1
    <3>3. QED
      BY <1>0, <2>2, <3>2, OtherRequest
  <2>3. QED
    BY <2>1, <2>2 DEF RequestsKnow
<1>7. DestinationsAreTrue'
  <2>1. ASSUME NEW d \in Callers, NEW k \in Kept
        PROVE  DestinationIsTrue(d, k)'
    <3>1. DestinationIsTrue(d, k)
      BY <2>1 DEF IndInv, DestinationsAreTrue
    <3>2. Busy(k, Restoring)' => Busy(k, Restoring)
      BY <1>1 DEF Busy, Id, Restoring
    <3>3. CASE d = c
      BY <1>1, <3>3 DEF DestinationIsTrue
    <3>4. CASE d # c
      BY <1>0, <1>1, <3>1, <3>2, <3>4 DEF DestinationIsTrue, Exists, Id, store, library
    <3>5. QED
      BY <3>3, <3>4
  <2>2. QED
    BY <1>4, <2>1 DEF DestinationsAreTrue
<1>8. BinIsPure'
  BY <1>0 DEF IndInv, BinIsPure, InBin, store
<1>9. StartupKnows' /\ SweepKnows'
  BY <1>0, QuietStartup
<1>10. QED
  BY <1>2, <1>5, <1>6, <1>7, <1>8, <1>9 DEF IndInv

\* The archive of a request that is at work, by whether it has a record.
LEMMA FineWithRecord ==
  ASSUME Up', NEW i, Exists(i)', InLibrary(i)' \/ (Half(i)' /\ (Busy(i, Stashed)' \/ loose'))
  PROVE  ArchiveIsFine(i)'
BY DEF ArchiveIsFine, RecordIsTrue, RestIsFound, RecoveredIsUnmapped, BinIsTraceable,
       SettledIsListed, Up, Finishing
LEMMA FineWithout ==
  ASSUME Up', NEW i, ~Exists(i)', RecoveredIsUnmapped(i)', inventory'[i] # Nothing,
         \/ InTheBin(i)'
         \/ \E n \in Names : disk'[n] = i /\ (filemap'[n] # i \/ Busy(i, {"save"})')
  PROVE  ArchiveIsFine(i)'
BY DEF ArchiveIsFine, RecordIsTrue, RestIsFound, BinIsTraceable, SettledIsListed, Up, Finishing

\* No other request is at work on the archive that one has reserved.
LEMMA Exclusive ==
  ASSUME IndInv, NEW c \in Callers, NEW d \in Callers \ {c}, Id(d) = Id(c),
         task[c].step \notin Unreserved
  PROVE  task[d].step \in Unreserved
<1>1. RequestHas(c) /\ RequestHas(d)
  BY DEF IndInv, RequestsKnow
<1>2. {c} # {d}
  OBVIOUS
<1>3. QED
  BY <1>1, <1>2 DEF RequestHas, Id

\* A step that changes neither files nor records leaves destinations as they were.
LEMMA DestinationStays ==
  ASSUME IndInv, NEW c \in Callers, NEW k \in Kept, k = Id(c), UNCHANGED <<disk, record>>,
         \A d \in Callers \ {c} : task'[d] = task[d],
         task'[c].step \in Restoring => task[c].step \in Restoring,
         NEW d \in Callers \ {c}
  PROVE  DestinationIsTrue(d, k)'
<1>1. DestinationIsTrue(d, k)
  BY DEF IndInv, DestinationsAreTrue
<1>2. Busy(k, Restoring)' => Busy(k, Restoring)
  BY DEF Busy, Id
<1>3. QED
  BY <1>1, <1>2 DEF DestinationIsTrue, Exists, Id

\* A step of a request within the directory and the entry of its archive.
LEMMA BinHandled ==
  ASSUME IndInv, TypeOK', NEW c \in Callers, task[c].step \notin Unreserved, Up,
         NEW k \in Archives, k = Id(c),
         UNCHANGED <<library, sweep, boot, loose, astray>>, purged \subseteq purged',
         \A i \in Archives \ {k} : bin'[i] = bin[i] /\ inventory'[i] = inventory[i],
         \A n \in Names : InBin(k, n)' => InBin(k, n) /\ bin'[k].payload[n] = bin[k].payload[n],
         \A d \in Callers \ {c} : task'[d] = task[d],
         \A d \in Callers \ {c}, n \in Names \union Archives :
           holders[n] = {d} => holders'[n] = {d},
         task'[c].id = k \/ task'[c] = Idle,
         task'[c].step \notin Restoring \union {"map"},
         k \in Kept' => ArchiveIsFine(k)',
         RequestHas(c)',
         k \in Kept' /\ task'[c] # Idle => RequestKnows(c)'
  PROVE  IndInv'
<1>1. Kept' \subseteq Kept /\ Kept' \subseteq Archives
  BY DEF Kept
<1>2. \A i \in Kept' \ {k} : Same(i) /\ NotMapped(i)
  BY <1>1 DEF Same, NotMapped, library
<1>3. Alone(c)
  BY <1>2 DEF Alone
<1>4. BinIsPure'
  <2>1. ASSUME NEW i \in Archives, NEW n \in Names, InBin(i, n)'
        PROVE  (bin'[i].payload[n]) \in {i} \union astray
    BY <2>1 DEF IndInv, BinIsPure, InBin
  <2>2. QED
    BY <2>1 DEF BinIsPure
<1>5. \A d \in Callers \ {c} : k \in Kept' => DestinationIsTrue(d, k)'
  BY <1>1, DestinationStays DEF library
<1>6. \A i \in Kept' \ {k} : DestinationIsTrue(c, i)'
  BY DEF DestinationIsTrue, Restoring
<1>7. task[c].step # "idle"
  BY DEF Unreserved
<1>8. QED
  BY <1>3, <1>4, <1>5, <1>6, <1>7, Handled

\* The directory of the archive to delete is made.
LEMMA MakeDirectoryKept ==
  ASSUME IndInv, NEW c \in Callers, MakeDirectory(c)
  PROVE  IndInv'
<1>0. /\ task[c].step = "mkdir" /\ Up /\ Goto(c, "stash")
      /\ UNCHANGED <<library, inventory, holders, sweep, boot, loose, purged, astray>>
      /\ bin' = [bin EXCEPT ![Id(c)] = IF @ = Nothing THEN NewDirectory ELSE @]
  BY DEF MakeDirectory, At, Rest, history
<1>1. PICK k \in Archives : k = Id(c)
  BY <1>0, AtWork
<1>2. RequestHas(c) /\ (k \in Kept => RequestKnows(c)) /\ "stash" \in Steps
  BY <1>0, <1>1, AtWork DEF Steps
<1>3. /\ task'[c].step = "stash" /\ task'[c].id = k /\ task'[c].entry = task[c].entry
      /\ task' \in [Callers -> Tasks] /\ \A d \in Callers \ {c} : task'[d] = task[d]
  BY <1>0, <1>1, <1>2, GotoTask DEF IndInv, Id
<1>4. bin \in [Archives -> Directories \union {Nothing}]
  BY DEF IndInv, TypeOK
<1>5. /\ bin' \in [Archives -> Directories \union {Nothing}]
      /\ \A i \in Archives \ {k} : bin'[i] = bin[i]
      /\ bin'[k] = IF bin[k] = Nothing THEN NewDirectory ELSE bin[k]
  BY <1>0, <1>1, <1>4, DirectoryType
<1>6. TypeOK'
  BY <1>0, <1>3, <1>5 DEF IndInv, TypeOK, library
<1>7. \A n \in Names : InBin(k, n)' => InBin(k, n) /\ bin'[k].payload[n] = bin[k].payload[n]
  BY <1>5, DirectoryType DEF InBin
<1>8. RequestHas(c)'
  BY <1>0, <1>1, <1>2, <1>3 DEF RequestHas, Moving, Stashed, Restoring, AtName, Unreserved, Id
<1>9. ASSUME k \in Kept
      PROVE  ArchiveIsFine(k)' /\ RequestKnows(c)'
  <2>1. Exists(k) /\ record[k].file = task[c].entry.path /\ ~task[c].entry.patch
    BY <1>0, <1>1, <1>2, <1>9 DEF RequestKnows, Moving, Id
  <2>2. RequestKnows(c)'
    BY <1>0, <1>1, <1>3, <2>1 DEF RequestKnows, Moving, Stashed, Restoring, Exists, library
  <2>3. CASE bin[k] = Nothing
    <3>1. InLibrary(k)
      BY <1>9, <2>1, <2>3 DEF IndInv, ArchivesAreFine, ArchiveIsFine, RecordIsTrue, Half
    <3>2. Exists(k)' /\ InLibrary(k)' /\ Up'
      BY <1>0, <2>1, <3>1 DEF Exists, InLibrary, library, Up
    <3>3. QED
      BY <2>2, <3>2, FineWithRecord
  <2>4. CASE bin[k] # Nothing
    <3>1. Same(k) /\ NotMapped(k)
      BY <1>0, <1>5, <2>4 DEF Same, NotMapped, library
    <3>2. StillBusy(k)
      <4>1. \A d \in Callers : task[d].step \in Stashed \union {"save"} => d # c
        BY <1>0 DEF Stashed
      <4>2. QED
        BY <1>3, <4>1 DEF StillBusy, Id
    <3>3. QED
      BY <1>0, <1>9, <2>2, <3>1, <3>2, OtherArchive
  <2>5. QED
    BY <2>3, <2>4
<1>10. task[c].step \notin Unreserved /\ task'[c].step \notin Restoring \union {"map"}
  BY <1>0, <1>3 DEF Unreserved, Restoring
<1>11. Kept' = Kept
  BY <1>0 DEF Kept
<1>12. QED
  BY <1>0, <1>1, <1>3, <1>5, <1>6, <1>7, <1>8, <1>9, <1>10, <1>11, BinHandled

\* meta.json is written, if the directory is there.
LEMMA WriteMetaKept ==
  ASSUME IndInv, NEW c \in Callers, WriteMeta(c)
  PROVE  IndInv'
<1>0. /\ task[c].step = "meta" /\ Up
      /\ UNCHANGED <<library, inventory, holders, sweep, boot, loose, purged, astray>>
  BY DEF WriteMeta, At, Rest, history
<1>1. PICK k \in Archives : k = Id(c)
  BY <1>0, AtWork
<1>2. /\ RequestHas(c) /\ (k \in Kept => RequestKnows(c)) /\ "put" \in Steps /\ "back" \in Steps
      /\ task[c].entry \in Entries
  BY <1>0, <1>1, AtWork DEF Steps, RequestHas, Stashed
<1>3. PICK st \in {"put", "back"} : Goto(c, st) /\ (bin[k] # Nothing => st = "put")
  BY <1>1 DEF WriteMeta
<1>4. /\ task'[c].step = st /\ task'[c].id = k /\ task'[c].entry = task[c].entry
      /\ task' \in [Callers -> Tasks] /\ \A d \in Callers \ {c} : task'[d] = task[d]
  BY <1>0, <1>1, <1>2, <1>3, GotoTask DEF IndInv, Id
<1>5. /\ bin' \in [Archives -> Directories \union {Nothing}]
      /\ \A i \in Archives \ {k} : bin'[i] = bin[i]
      /\ bin[k] # Nothing => bin'[k] # Nothing /\ bin'[k].payload = bin[k].payload
      /\ bin[k] = Nothing => bin'[k] = Nothing
  <2>1. bin \in [Archives -> Directories \union {Nothing}]
    BY DEF IndInv, TypeOK
  <2>2. CASE bin[k] = Nothing
    BY <1>1, <2>1, <2>2 DEF WriteMeta
  <2>3. CASE bin[k] # Nothing
    <3> DEFINE d == [bin[k] EXCEPT !.meta = task[c].entry, !.old = FALSE]
    <3>1. d \in Directories /\ d.payload = bin[k].payload
      BY ZenonT(60), <1>2, <2>1, <2>3, MetaDirectory
    <3>2. bin' = [bin EXCEPT ![k] = d]
      BY <1>1, <2>3, <2>1 DEF WriteMeta
    <3> HIDE DEF d
    <3>3. d # Nothing
      BY <3>1
    <3>4. QED
      BY <2>1, <2>3, <3>1, <3>2, <3>3
  <2>4. QED
    BY <2>2, <2>3
<1>6. TypeOK'
  BY <1>0, <1>4, <1>5 DEF IndInv, TypeOK, library
<1>7. \A n \in Names : InBin(k, n)' => InBin(k, n) /\ bin'[k].payload[n] = bin[k].payload[n]
  BY <1>5 DEF InBin
<1>8. RequestHas(c)'
  BY <1>0, <1>1, <1>2, <1>4 DEF RequestHas, Moving, Stashed, Restoring, AtName, Unreserved, Id
<1>9. ASSUME k \in Kept
      PROVE  ArchiveIsFine(k)' /\ RequestKnows(c)'
  <2>1. /\ Exists(k) /\ record[k].file = task[c].entry.path /\ ~task[c].entry.patch
        /\ bin[k] # Nothing /\ bin[k].payload[task[c].entry.path] = k /\ disk[task[c].entry.path] # k
    BY <1>0, <1>1, <1>2, <1>9 DEF RequestKnows, Stashed, Id
  <2>2. st = "put" /\ bin'[k] # Nothing /\ bin'[k].payload = bin[k].payload
    BY <1>3, <1>5, <2>1
  <2>3. RequestKnows(c)'
    BY <1>0, <1>1, <1>4, <2>1, <2>2 DEF RequestKnows, Moving, Stashed, Restoring, Exists, library
  <2>4. Exists(k)' /\ Half(k)' /\ Up'
    BY <1>0, <2>1, <2>2 DEF Exists, Half, library, Up
  <2>5. Busy(k, Stashed)'
    BY <1>4, <2>2 DEF Busy, Stashed, Id
  <2>6. QED
    BY <2>3, <2>4, <2>5, FineWithRecord
<1>10. task[c].step \notin Unreserved /\ task'[c].step \notin Restoring \union {"map"}
  BY <1>0, <1>4 DEF Unreserved, Restoring
<1>11. Kept' = Kept
  BY <1>0 DEF Kept
<1>12. QED
  BY <1>0, <1>1, <1>4, <1>5, <1>6, <1>7, <1>8, <1>9, <1>10, <1>11, BinHandled

\* The entry of the archive to delete.
LEMMA PutKept ==
  ASSUME IndInv, NEW c \in Callers, Put(c)
  PROVE  IndInv'
<1>0. /\ task[c].step = "put" /\ Up /\ Goto(c, "unmap")
      /\ UNCHANGED <<library, bin, holders, sweep, boot, loose, purged, astray>>
      /\ inventory' = [inventory EXCEPT ![Id(c)] = task[c].entry]
  BY DEF Put, At, Rest, history
<1>1. PICK k \in Archives : k = Id(c)
  BY <1>0, AtWork
<1>2. /\ RequestHas(c) /\ (k \in Kept => RequestKnows(c)) /\ "unmap" \in Steps
      /\ task[c].entry \in Entries
  BY <1>0, <1>1, AtWork DEF Steps, RequestHas, Stashed
<1>3. /\ task'[c].step = "unmap" /\ task'[c].id = k /\ task'[c].entry = task[c].entry
      /\ task' \in [Callers -> Tasks] /\ \A d \in Callers \ {c} : task'[d] = task[d]
  BY <1>0, <1>1, <1>2, GotoTask DEF IndInv, Id
<1>4. /\ inventory' \in [Archives -> Entries \union {Nothing}] /\ inventory'[k] = task[c].entry
      /\ \A i \in Archives \ {k} : inventory'[i] = inventory[i]
  BY <1>0, <1>1, <1>2 DEF IndInv, TypeOK
<1>5. TypeOK'
  BY <1>0, <1>3, <1>4 DEF IndInv, TypeOK, library
<1>6. RequestHas(c)'
  BY <1>0, <1>1, <1>2, <1>3 DEF RequestHas, Moving, Stashed, Restoring, AtName, Unreserved, Id
<1>7. ASSUME k \in Kept
      PROVE  ArchiveIsFine(k)' /\ RequestKnows(c)'
  <2>1. /\ Exists(k) /\ record[k].file = task[c].entry.path /\ ~task[c].entry.patch
        /\ bin[k] # Nothing /\ bin[k].payload[task[c].entry.path] = k /\ disk[task[c].entry.path] # k
    BY <1>0, <1>1, <1>2, <1>7 DEF RequestKnows, Stashed, Id
  <2>2. RequestKnows(c)'
    BY <1>0, <1>1, <1>3, <1>4, <2>1 DEF RequestKnows, Moving, Stashed, Restoring, Exists, library
  <2>3. Exists(k)' /\ Half(k)' /\ Up'
    BY <1>0, <2>1 DEF Exists, Half, library, Up
  <2>4. Busy(k, Stashed)'
    BY <1>3 DEF Busy, Stashed, Id
  <2>5. QED
    BY <2>2, <2>3, <2>4, FineWithRecord
<1>8. task[c].step \notin Unreserved /\ task'[c].step \notin Restoring \union {"map"}
  BY <1>0, <1>3 DEF Unreserved, Restoring
<1>9. Kept' = Kept
  BY <1>0 DEF Kept
<1>10. \A n \in Names : InBin(k, n)' => InBin(k, n) /\ bin'[k].payload[n] = bin[k].payload[n]
  BY <1>0 DEF InBin
<1>11. QED
  BY <1>0, <1>1, <1>3, <1>4, <1>5, <1>6, <1>7, <1>8, <1>9, <1>10, BinHandled

\* An entry is removed when the file is back in the library, or purged.
LEMMA RemoveEntryKept ==
  ASSUME IndInv, NEW c \in Callers, NEW at, NEW next,
         \/ at = "unput" /\ next = "d rmdir"
         \/ at = "remove" /\ next = "r rmdir"
         \/ at = "p remove" /\ next = "idle",
         RemoveEntry(c, at, next)
  PROVE  IndInv'
<1>0. /\ task[c].step = at /\ Up
      /\ UNCHANGED <<library, bin, sweep, boot, loose, purged, astray>>
      /\ inventory' = [inventory EXCEPT ![Id(c)] = Nothing]
  BY DEF RemoveEntry, At, Rest, history
<1>a. \/ at = "unput" /\ next = "d rmdir"
      \/ at = "remove" /\ next = "r rmdir"
      \/ at = "p remove" /\ next = "idle"
  OBVIOUS
<1>1. PICK k \in Archives : k = Id(c)
  BY <1>0, <1>a, AtWork
<1>2. /\ RequestHas(c) /\ (k \in Kept => RequestKnows(c)) /\ "d rmdir" \in Steps /\ "r rmdir" \in Steps
  BY <1>0, <1>1, <1>a, AtWork DEF Steps
<1>3. /\ task' \in [Callers -> Tasks] /\ holders' \in [Names \union Archives -> SUBSET Callers]
      /\ \A d \in Callers \ {c} : task'[d] = task[d]
      /\ \A d \in Callers \ {c}, n \in Names \union Archives :
           holders[n] = {d} => holders'[n] = {d}
      /\ \/ next = "idle" /\ task'[c] = Idle
         \/ /\ next # "idle" /\ task'[c].step = next /\ task'[c].id = k /\ holders' = holders
            /\ task'[c].entry = task[c].entry /\ task'[c].dest = task[c].dest
  <2>1. CASE next = "idle"
    <3>1. Leave(c)
      BY <2>1 DEF RemoveEntry
    <3>2. QED
      BY <2>1, <3>1, LeaveTask DEF IndInv
  <2>2. CASE next # "idle"
    <3>1. Goto(c, next) /\ UNCHANGED holders /\ next \in Steps
      BY <1>a, <1>2, <2>2 DEF RemoveEntry
    <3>2. holders \in [Names \union Archives -> SUBSET Callers]
      BY DEF IndInv, TypeOK
    <3>3. QED
      BY <1>1, <2>2, <3>1, <3>2, GotoTask DEF IndInv, Id
  <2>3. QED
    BY <2>1, <2>2
<1>4. /\ inventory' \in [Archives -> Entries \union {Nothing}]
      /\ \A i \in Archives \ {k} : inventory'[i] = inventory[i]
  BY <1>0, <1>1 DEF IndInv, TypeOK
<1>5. TypeOK'
  BY <1>0, <1>3, <1>4 DEF IndInv, TypeOK, library
<1>6. RequestHas(c)'
  <2>1. CASE task'[c] = Idle
    BY <2>1, IdleHas
  <2>2. CASE next # "idle"
    BY <1>0, <1>1, <1>2, <1>a, <1>3, <2>2
    DEF RequestHas, Moving, Stashed, Restoring, AtName, Unreserved, Id
  <2>3. QED
    BY <1>3, <2>1, <2>2
<1>7. ASSUME k \in Kept
      PROVE  ArchiveIsFine(k)' /\ (task'[c] # Idle => RequestKnows(c)')
  <2>1. at # "p remove"
    BY <1>0, <1>1, <1>2, <1>7 DEF RequestHas, Kept, Id
  <2>2. Exists(k) /\ InLibrary(k)
    BY <1>0, <1>1, <1>2, <1>a, <1>7, <2>1 DEF RequestKnows, Id, Moving, InLibrary
  <2>3. task'[c] # Idle => RequestKnows(c)'
    BY <1>0, <1>1, <1>2, <1>3, <1>a, <1>7, <2>1
    DEF RequestKnows, Moving, Stashed, Restoring, Exists, InLibrary, library, Id
  <2>4. Exists(k)' /\ InLibrary(k)' /\ Up'
    BY <1>0, <2>2 DEF Exists, InLibrary, library, Up
  <2>5. QED
    BY <2>3, <2>4, FineWithRecord
<1>8. task[c].step \notin Unreserved /\ task'[c].step \notin Restoring \union {"map"}
  BY <1>0, <1>3, <1>a, IdleType DEF Unreserved, Restoring
<1>9. Kept' = Kept
  BY <1>0 DEF Kept
<1>10. \A n \in Names : InBin(k, n)' => InBin(k, n) /\ bin'[k].payload[n] = bin[k].payload[n]
  BY <1>0 DEF InBin
<1>11. QED
  BY <1>0, <1>1, <1>3, <1>4, <1>5, <1>6, <1>7, <1>8, <1>9, <1>10, BinHandled

\* And the directory.
LEMMA RemoveDirectoryKept ==
  ASSUME IndInv, NEW c \in Callers, NEW at \in {"d rmdir", "r rmdir"}, RemoveDirectory(c, at)
  PROVE  IndInv'
<1>0. /\ task[c].step = at /\ Up /\ Leave(c)
      /\ UNCHANGED <<library, inventory, sweep, boot, loose, purged, astray>>
      /\ bin' = [bin EXCEPT ![Id(c)] = Nothing]
  BY DEF RemoveDirectory, At, Rest, history
<1>1. PICK k \in Archives : k = Id(c)
  BY <1>0, AtWork
<1>2. RequestHas(c) /\ (k \in Kept => RequestKnows(c))
  BY <1>0, <1>1, AtWork
<1>3. /\ task' \in [Callers -> Tasks] /\ holders' \in [Names \union Archives -> SUBSET Callers]
      /\ \A d \in Callers \ {c} : task'[d] = task[d]
      /\ \A d \in Callers \ {c}, n \in Names \union Archives :
           holders[n] = {d} => holders'[n] = {d}
      /\ task'[c] = Idle
  BY ZenonT(60), <1>0, LeaveTask DEF IndInv
<1>4. /\ bin' \in [Archives -> Directories \union {Nothing}] /\ bin'[k] = Nothing
      /\ \A i \in Archives \ {k} : bin'[i] = bin[i]
  BY <1>0, <1>1 DEF IndInv, TypeOK
<1>5. TypeOK'
  BY <1>0, <1>3, <1>4 DEF IndInv, TypeOK, library
<1>6. RequestHas(c)'
  BY <1>3, IdleHas
<1>7. ASSUME k \in Kept
      PROVE  ArchiveIsFine(k)'
  <2>1. Exists(k) /\ InLibrary(k)
    BY <1>0, <1>1, <1>2, <1>7 DEF RequestKnows, Id, Moving, InLibrary
  <2>2. Exists(k)' /\ InLibrary(k)' /\ Up'
    BY <1>0, <2>1 DEF Exists, InLibrary, library, Up
  <2>3. QED
    BY <2>2, FineWithRecord
<1>8. task[c].step \notin Unreserved /\ task'[c].step \notin Restoring \union {"map"}
  BY <1>0, <1>3, IdleType DEF Unreserved, Restoring
<1>9. Kept' = Kept
  BY <1>0 DEF Kept
<1>10. \A n \in Names : InBin(k, n)' => InBin(k, n) /\ bin'[k].payload[n] = bin[k].payload[n]
  BY <1>4 DEF InBin
<1>11. QED
  BY <1>0, <1>1, <1>3, <1>4, <1>5, <1>6, <1>7, <1>8, <1>9, <1>10, BinHandled

\* The directory of an archive that is purged.
LEMMA PurgeDirectoryKept ==
  ASSUME IndInv, NEW c \in Callers, PurgeDirectory(c)
  PROVE  IndInv'
<1>0. /\ task[c].step = "p rmdir" /\ Up /\ Goto(c, "p remove")
      /\ UNCHANGED <<library, inventory, holders, sweep, boot, loose, astray>>
      /\ bin' = [bin EXCEPT ![Id(c)] = Nothing] /\ purged' = purged \union {Id(c)}
  BY DEF PurgeDirectory, At
<1>1. PICK k \in Archives : k = Id(c)
  BY <1>0, AtWork
<1>2. RequestHas(c) /\ "p remove" \in Steps
  BY <1>0, AtWork DEF Steps
<1>3. /\ task'[c].step = "p remove" /\ task'[c].id = k /\ task' \in [Callers -> Tasks]
      /\ \A d \in Callers \ {c} : task'[d] = task[d]
  BY <1>0, <1>1, <1>2, GotoTask DEF IndInv, Id
<1>4. /\ bin' \in [Archives -> Directories \union {Nothing}] /\ bin'[k] = Nothing
      /\ \A i \in Archives \ {k} : bin'[i] = bin[i]
  BY <1>0, <1>1 DEF IndInv, TypeOK
<1>5. TypeOK'
  <2>1. purged' \subseteq Archives
    BY <1>0, <1>1 DEF IndInv, TypeOK
  <2>2. QED
    BY <1>0, <1>3, <1>4, <2>1 DEF IndInv, TypeOK, library
<1>6. RequestHas(c)'
  BY <1>0, <1>1, <1>2, <1>3 DEF RequestHas, Moving, Stashed, Restoring, AtName, Unreserved, Id
<1>7. k \notin Kept'
  BY <1>0, <1>1 DEF Kept
<1>8. task[c].step \notin Unreserved /\ task'[c].step \notin Restoring \union {"map"}
  BY <1>0, <1>3 DEF Unreserved, Restoring
<1>9. \A n \in Names : InBin(k, n)' => InBin(k, n) /\ bin'[k].payload[n] = bin[k].payload[n]
  BY <1>4 DEF InBin
<1>10. QED
  BY <1>0, <1>1, <1>3, <1>4, <1>5, <1>6, <1>7, <1>8, <1>9, BinHandled

\* The record of an archive without a file is dropped.
LEMMA DropGoneKept ==
  ASSUME IndInv, NEW c \in Callers, DropGone(c)
  PROVE  IndInv'
<1>0. /\ task[c].step = "drop gone" /\ Up /\ Goto(c, "unlink")
      /\ UNCHANGED <<disk, filemap, bin, inventory, holders, sweep, boot, loose, purged>>
      /\ record' = [record EXCEPT ![Id(c)] = Nothing] /\ astray' = astray \union {Id(c)}
  BY DEF DropGone, At
<1>1. PICK k \in Archives : k = Id(c)
  BY <1>0, AtWork
<1>2. RequestHas(c) /\ "unlink" \in Steps
  BY <1>0, AtWork DEF Steps
<1>3. /\ task'[c].step = "unlink" /\ task'[c].id = k /\ task'[c].entry = task[c].entry
      /\ task' \in [Callers -> Tasks] /\ \A d \in Callers \ {c} : task'[d] = task[d]
  BY <1>0, <1>1, <1>2, GotoTask DEF IndInv, Id
<1>4. /\ record' \in [Archives -> Records \union {Nothing}]
      /\ \A i \in Archives \ {k} : record'[i] = record[i]
  BY <1>0, <1>1 DEF IndInv, TypeOK
<1>5. TypeOK'
  <2>1. astray' \subseteq Archives
    BY <1>0, <1>1 DEF IndInv, TypeOK
  <2>2. QED
    BY <1>0, <1>3, <1>4, <2>1 DEF IndInv, TypeOK
<1>6. RequestHas(c)'
  BY <1>0, <1>1, <1>2, <1>3 DEF RequestHas, Moving, Stashed, Restoring, AtName, Unreserved, Id
<1>7. k \notin Kept' /\ Kept' \subseteq Archives
  BY <1>0, <1>1 DEF Kept
<1>8. Alone(c)
  BY <1>0, <1>1, <1>3, <1>4, <1>7 DEF Alone, Same, NotMapped
<1>9. BinIsPure'
  BY <1>0 DEF IndInv, BinIsPure, InBin
<1>10. \A i \in Kept' \ {k} : DestinationIsTrue(c, i)'
  BY <1>3 DEF DestinationIsTrue
<1>11. QED
  BY <1>0, <1>1, <1>3, <1>5, <1>6, <1>7, <1>8, <1>9, <1>10, Handled DEF Unreserved

\* The mapping of the archive to delete.
LEMMA UnmapKept ==
  ASSUME IndInv, NEW c \in Callers, Unmap(c)
  PROVE  IndInv'
<1>0. /\ task[c].step = "unmap" /\ Up /\ Goto(c, "drop")
      /\ UNCHANGED <<disk, record, bin, inventory, holders, sweep, boot, loose, purged, astray>>
      /\ filemap' = [filemap EXCEPT ![Path(c)] = Nothing]
  BY DEF Unmap, At, Rest, history
<1>1. PICK k \in Archives : k = Id(c)
  BY <1>0, AtWork
<1>2. RequestHas(c) /\ (k \in Kept => RequestKnows(c)) /\ "drop" \in Steps
  BY <1>0, <1>1, AtWork DEF Steps
<1>3. /\ task'[c].step = "drop" /\ task'[c].id = k /\ task'[c].entry = task[c].entry
      /\ task' \in [Callers -> Tasks] /\ \A d \in Callers \ {c} : task'[d] = task[d]
  BY <1>0, <1>1, <1>2, GotoTask DEF IndInv, Id
<1>4. /\ filemap' \in [Names -> Bytes]
      /\ \A n \in Names : filemap'[n] \in {filemap[n], Nothing}
  BY <1>0 DEF IndInv, TypeOK, Bytes
<1>5. TypeOK'
  BY <1>0, <1>3, <1>4 DEF IndInv, TypeOK
<1>6. RequestHas(c)'
  BY <1>0, <1>1, <1>2, <1>3 DEF RequestHas, Moving, Stashed, Restoring, AtName, Unreserved, Id
<1>7. Kept' = Kept /\ Kept \subseteq Archives /\ Nothing \notin Archives
  BY <1>0 DEF Kept
<1>8. Alone(c)
  BY <1>0, <1>1, <1>3, <1>4, <1>7 DEF Alone, Same, NotMapped
<1>9. BinIsPure'
  BY <1>0 DEF IndInv, BinIsPure, InBin
<1>10. ASSUME k \in Kept
       PROVE  ArchiveIsFine(k)' /\ RequestKnows(c)'
  <2>1. /\ Exists(k) /\ record[k].file = task[c].entry.path /\ ~task[c].entry.patch
        /\ bin[k] # Nothing /\ bin[k].payload[task[c].entry.path] = k /\ disk[task[c].entry.path] # k
        /\ inventory[k] = task[c].entry
    BY <1>0, <1>1, <1>2, <1>10 DEF RequestKnows, Stashed, Id
  <2>2. RequestKnows(c)'
    BY <1>0, <1>1, <1>3, <2>1 DEF RequestKnows, Moving, Stashed, Restoring, Exists
  <2>3. Exists(k)' /\ Half(k)' /\ Up'
    BY <1>0, <2>1 DEF Exists, Half, Up
  <2>4. Busy(k, Stashed)'
    BY <1>3 DEF Busy, Stashed, Id
  <2>5. QED
    BY <2>2, <2>3, <2>4, FineWithRecord
<1>11. \A d \in Callers \ {c} : k \in Kept' => DestinationIsTrue(d, k)'
  BY <1>0, <1>1, <1>3, <1>7, DestinationStays DEF Restoring
<1>12. \A i \in Kept' \ {k} : DestinationIsTrue(c, i)'
  BY <1>3 DEF DestinationIsTrue
<1>13. QED
  BY <1>0, <1>1, <1>3, <1>5, <1>6, <1>7, <1>8, <1>9, <1>10, <1>11, <1>12, Handled DEF Unreserved

\* The record of the archive deleted: it is in the bin by now.
LEMMA DropKept ==
  ASSUME IndInv, NEW c \in Callers, Drop(c)
  PROVE  IndInv'
<1>0. /\ task[c].step = "drop" /\ Up /\ Leave(c)
      /\ UNCHANGED <<disk, filemap, bin, inventory, sweep, boot, loose, purged, astray>>
      /\ record' = [record EXCEPT ![Id(c)] = Nothing]
  BY DEF Drop, At, Rest, history
<1>1. PICK k \in Archives : k = Id(c)
  BY <1>0, AtWork
<1>2. /\ RequestHas(c) /\ (k \in Kept => RequestKnows(c))
      /\ task[c].entry \in Entries /\ task[c].entry.path \in Names
  BY <1>0, <1>1, AtWork DEF RequestHas, Stashed, Path
<1>3. /\ task' \in [Callers -> Tasks] /\ holders' \in [Names \union Archives -> SUBSET Callers]
      /\ \A d \in Callers \ {c} : task'[d] = task[d]
      /\ \A d \in Callers \ {c}, n \in Names \union Archives :
           holders[n] = {d} => holders'[n] = {d}
      /\ task'[c] = Idle
  BY <1>0, LeaveTask DEF IndInv
<1>4. /\ record' \in [Archives -> Records \union {Nothing}] /\ record'[k] = Nothing
      /\ \A i \in Archives \ {k} : record'[i] = record[i]
  BY <1>0, <1>1 DEF IndInv, TypeOK
<1>5. TypeOK'
  BY <1>0, <1>3, <1>4 DEF IndInv, TypeOK
<1>6. RequestHas(c)'
  BY <1>3, IdleHas
<1>7. Kept' = Kept /\ Kept \subseteq Archives
  BY <1>0 DEF Kept
<1>8. Alone(c)
  BY <1>0, <1>1, <1>3, <1>4, <1>7 DEF Alone, Same, NotMapped
<1>9. BinIsPure'
  BY <1>0 DEF IndInv, BinIsPure, InBin
<1>10. k \in Kept =>
         /\ record[k].file = task[c].entry.path /\ ~task[c].entry.patch
         /\ bin[k] # Nothing /\ bin[k].payload[task[c].entry.path] = k /\ disk[task[c].entry.path] # k
         /\ inventory[k] = task[c].entry
  BY <1>0, <1>1, <1>2 DEF RequestKnows, Stashed, Id
<1>11. ASSUME k \in Kept
       PROVE  ArchiveIsFine(k)'
  <2>1. ~Exists(k)' /\ InTheBin(k)' /\ Up' /\ inventory'[k] # Nothing
    BY <1>0, <1>2, <1>4, <1>10, <1>11 DEF Exists, InTheBin, Up
  <2>2. RecoveredIsUnmapped(k)'
    BY <1>0, <1>10, <1>11 DEF RecoveredIsUnmapped
  <2>3. QED
    BY <2>1, <2>2, FineWithout
<1>12. ASSUME NEW d \in Callers \ {c}, k \in Kept
       PROVE  DestinationIsTrue(d, k)'
  <2>1. DestinationIsTrue(d, k)
    BY <1>12 DEF IndInv, DestinationsAreTrue
  <2>2. QED
    BY <1>0, <1>3, <1>10, <1>12, <2>1 DEF DestinationIsTrue, Id
<1>13. \A i \in Kept' \ {k} : DestinationIsTrue(c, i)'
  BY <1>3, IdleType DEF DestinationIsTrue
<1>14. QED
  BY <1>0, <1>1, <1>3, <1>5, <1>6, <1>7, <1>8, <1>9, <1>11, <1>12, <1>13, Handled DEF Unreserved

\* The record of the archive restored.
LEMMA SaveKept ==
  ASSUME IndInv, NEW c \in Callers, Save(c)
  PROVE  IndInv'
<1>0. /\ task[c].step = "save" /\ Up /\ Goto(c, "map")
      /\ UNCHANGED <<disk, filemap, bin, inventory, holders, sweep, boot, loose, purged, astray>>
      /\ record' = [record EXCEPT ![Id(c)] = Record(task[c].dest, task[c].entry.meta)]
  BY DEF Save, At, Rest, history
<1>1. PICK k \in Archives : k = Id(c)
  BY <1>0, AtWork
<1>2. /\ RequestHas(c) /\ (k \in Kept => RequestKnows(c)) /\ "map" \in Steps
      /\ task[c].dest \in Names /\ task[c].entry.meta \in Metas
  BY <1>0, <1>1, AtWork DEF RequestHas, Restoring, AtName, Steps
<1>3. /\ task'[c].step = "map" /\ task'[c].id = k /\ task'[c].entry = task[c].entry
      /\ task'[c].dest = task[c].dest
      /\ task' \in [Callers -> Tasks] /\ \A d \in Callers \ {c} : task'[d] = task[d]
  BY <1>0, <1>1, <1>2, GotoTask DEF IndInv, Id
<1>4. /\ record' \in [Archives -> Records \union {Nothing}]
      /\ record'[k] # Nothing /\ record'[k].file = task[c].dest
      /\ \A i \in Archives \ {k} : record'[i] = record[i]
  <2> DEFINE r == Record(task[c].dest, task[c].entry.meta)
  <2>1. r \in Records /\ r.file = task[c].dest
    BY <1>2, RecordType
  <2>2. record' = [record EXCEPT ![k] = r] /\ record \in [Archives -> Records \union {Nothing}]
    BY <1>0, <1>1 DEF IndInv, TypeOK
  <2> HIDE DEF r
  <2>3. r # Nothing
    BY <2>1
  <2>4. QED
    BY <2>1, <2>2, <2>3
<1>5. TypeOK'
  BY <1>0, <1>3, <1>4 DEF IndInv, TypeOK
<1>6. RequestHas(c)'
  BY <1>0, <1>1, <1>2, <1>3 DEF RequestHas, Moving, Stashed, Restoring, AtName, Unreserved, Id
<1>7. Kept' = Kept /\ Kept \subseteq Archives
  BY <1>0 DEF Kept
<1>8. Alone(c)
  BY <1>0, <1>1, <1>3, <1>4, <1>7 DEF Alone, Same, NotMapped
<1>9. BinIsPure'
  BY <1>0 DEF IndInv, BinIsPure, InBin
<1>10. ASSUME k \in Kept
       PROVE  ArchiveIsFine(k)' /\ RequestKnows(c)'
  <2>1. disk[task[c].dest] = k
    BY <1>0, <1>1, <1>2, <1>10 DEF RequestKnows, Id
  <2>2. Exists(k)' /\ InLibrary(k)' /\ Up'
    BY <1>0, <1>4, <2>1 DEF Exists, InLibrary, Up
  <2>3. RequestKnows(c)'
    BY <1>3, <1>4, <2>2 DEF RequestKnows, Moving, Stashed, Restoring, Id
  <2>4. QED
    BY <2>2, <2>3, FineWithRecord
<1>11. ASSUME NEW d \in Callers \ {c}, k \in Kept
       PROVE  DestinationIsTrue(d, k)'
  <2>1. DestinationIsTrue(d, k) /\ Busy(k, Restoring)
    BY <1>0, <1>1, <1>11 DEF IndInv, DestinationsAreTrue, Busy, Restoring
  <2>2. QED
    BY <1>0, <1>3, <2>1 DEF DestinationIsTrue, Id
<1>12. ASSUME NEW i \in Kept' \ {k}
       PROVE  DestinationIsTrue(c, i)'
  <2>1. DestinationIsTrue(c, i) /\ record'[i] = record[i]
    BY <1>4, <1>7, <1>12 DEF IndInv, DestinationsAreTrue
  <2>2. Busy(i, Restoring)' => Busy(i, Restoring)
    BY <1>3, <1>12 DEF Busy, Id
  <2>3. QED
    BY <1>0, <1>1, <1>3, <1>12, <2>1, <2>2 DEF DestinationIsTrue, Id, Exists
<1>13. QED
  BY <1>0, <1>1, <1>3, <1>5, <1>6, <1>7, <1>8, <1>9, <1>10, <1>11, <1>12, Handled DEF Unreserved

\* Its mapping: what has the name is the archive's file, or of one with a record.
LEMMA MapKept ==
  ASSUME IndInv, NEW c \in Callers, Map(c)
  PROVE  IndInv'
<1> DEFINE st == IF OnDisk(task[c].dest) THEN "remove" ELSE "return"
<1>0. /\ task[c].step = "map" /\ Up /\ Goto(c, st)
      /\ UNCHANGED <<disk, record, bin, inventory, holders, sweep, boot, loose, purged, astray>>
      /\ filemap' = [filemap EXCEPT ![task[c].dest] =
                       IF OnDisk(task[c].dest) THEN disk[task[c].dest] ELSE @]
  BY DEF Map, At, Rest, history
<1>1. PICK k \in Archives : k = Id(c)
  BY <1>0, AtWork
<1>2. /\ RequestHas(c) /\ (k \in Kept => RequestKnows(c)) /\ st \in Steps /\ st \in {"remove", "return"}
      /\ task[c].dest \in Names
  BY <1>0, <1>1, AtWork DEF RequestHas, AtName, Steps
<1>a. st = "return" => disk[task[c].dest] = Nothing
  BY DEF OnDisk
<1> HIDE DEF st
<1>3. /\ task'[c].step = st /\ task'[c].id = k /\ task'[c].entry = task[c].entry
      /\ task'[c].dest = task[c].dest
      /\ task' \in [Callers -> Tasks] /\ \A d \in Callers \ {c} : task'[d] = task[d]
  BY <1>0, <1>1, <1>2, GotoTask DEF IndInv, Id
<1>4. /\ filemap' \in [Names -> Bytes]
      /\ \A n \in Names : filemap'[n] = filemap[n] \/ (n = task[c].dest /\ filemap'[n] = disk[n])
  BY <1>0, <1>2 DEF IndInv, TypeOK
<1>5. TypeOK'
  BY <1>0, <1>3, <1>4 DEF IndInv, TypeOK
<1>6. RequestHas(c)'
  BY <1>0, <1>1, <1>2, <1>3 DEF RequestHas, Moving, Stashed, Restoring, AtName, Unreserved, Id
<1>7. Kept' = Kept /\ Kept \subseteq Archives
  BY <1>0 DEF Kept
<1>8. Alone(c)
  <2>1. ASSUME NEW i \in Kept \ {k}
        PROVE  Same(i) /\ NotMapped(i)
    <3>1. disk[task[c].dest] = i => Exists(i)
      BY <1>0, <1>1, <2>1 DEF IndInv, DestinationsAreTrue, DestinationIsTrue
    <3>2. QED
      BY <1>0, <1>4, <3>1 DEF Same, NotMapped
  <2>2. QED
    BY <1>0, <1>1, <1>3, <1>7, <2>1 DEF Alone
<1>9. BinIsPure'
  BY <1>0 DEF IndInv, BinIsPure, InBin
<1>10. ASSUME k \in Kept
       PROVE  ArchiveIsFine(k)' /\ RequestKnows(c)' /\ st = "remove"
  <2>1. Exists(k) /\ InLibrary(k) /\ record[k].file = task[c].dest
    BY <1>0, <1>1, <1>2, <1>10 DEF RequestKnows, Id
  <2>2. Exists(k)' /\ InLibrary(k)' /\ Up'
    BY <1>0, <2>1 DEF Exists, InLibrary, Up
  <2>3. st = "remove"
    BY <1>2, <1>a, <2>1 DEF InLibrary
  <2>4. RequestKnows(c)'
    BY <1>3, <2>2, <2>3 DEF RequestKnows, Moving, Stashed, Restoring, Id
  <2>5. QED
    BY <2>2, <2>3, <2>4, FineWithRecord
<1>11. \A d \in Callers \ {c} : k \in Kept' => DestinationIsTrue(d, k)'
  BY <1>0, <1>1, <1>3, <1>7, <1>10, DestinationStays DEF Restoring
<1>12. \A i \in Kept' \ {k} : DestinationIsTrue(c, i)'
  BY <1>2, <1>3 DEF DestinationIsTrue
<1>13. QED
  BY <1>0, <1>1, <1>3, <1>5, <1>6, <1>7, <1>8, <1>9, <1>10, <1>11, <1>12, Handled DEF Unreserved

\* A move of the archive's own file, or of one that goes astray, or has, is
\* nothing to the other archives.
LEMMA MoveIsOwn ==
  ASSUME NEW k \in Archives, NEW n \in Names, UNCHANGED <<record, filemap, inventory>>,
         astray \subseteq astray', purged \subseteq purged',
         \A m \in Names \ {n} : disk'[m] = disk[m],
         disk[n] \in {k, Nothing} \union astray', disk'[n] \in {k, Nothing} \union astray',
         \A i \in Archives \ {k} : bin'[i] = bin[i],
         NEW i \in Kept' \ {k}
  PROVE  Same(i) /\ NotMapped(i)
BY DEF Kept, Same, NotMapped

\* The file of a dropped record is removed, whosever it is by now.
LEMMA UnlinkKept ==
  ASSUME IndInv, NEW c \in Callers, Unlink(c)
  PROVE  IndInv'
<1>0. /\ task[c].step = "unlink" /\ Up /\ Leave(c)
      /\ UNCHANGED <<record, filemap, bin, inventory, sweep, boot, loose, purged>>
      /\ disk' = [disk EXCEPT ![Path(c)] = Nothing]
      /\ astray' = astray \union ({disk[Path(c)]} \ {Nothing})
  BY DEF Unlink, At
<1>1. PICK k \in Archives : k = Id(c)
  BY <1>0, AtWork
<1>2. PICK n \in Names : n = Path(c)
  BY <1>0, AtWork DEF RequestHas
<1>3. /\ task' \in [Callers -> Tasks] /\ holders' \in [Names \union Archives -> SUBSET Callers]
      /\ \A d \in Callers \ {c} : task'[d] = task[d]
      /\ \A d \in Callers \ {c}, m \in Names \union Archives :
           holders[m] = {d} => holders'[m] = {d}
      /\ task'[c] = Idle
  BY <1>0, LeaveTask DEF IndInv
<1>4. /\ disk \in [Names -> Bytes] /\ disk' \in [Names -> Bytes] /\ disk'[n] = Nothing
      /\ \A m \in Names \ {n} : disk'[m] = disk[m]
      /\ astray' = astray \union ({disk[n]} \ {Nothing}) /\ astray' \subseteq Archives
  BY <1>0, <1>2 DEF IndInv, TypeOK, Bytes
<1>5. TypeOK'
  BY <1>0, <1>3, <1>4 DEF IndInv, TypeOK
<1>6. k \in astray
  BY <1>0, <1>1, AtWork DEF RequestHas, Id
<1>7. k \notin Kept'
  BY <1>4, <1>6 DEF Kept
<1>8. \A i \in Kept' \ {k} : Same(i) /\ NotMapped(i)
  BY <1>0, <1>4, MoveIsOwn
<1>9. Alone(c)
  BY <1>0, <1>1, <1>3, <1>4, <1>8 DEF Alone
<1>10. BinIsPure'
  BY <1>0, <1>4 DEF IndInv, BinIsPure, InBin
<1>11. RequestHas(c)' /\ \A i \in Kept' \ {k} : DestinationIsTrue(c, i)'
  BY <1>3, IdleHas, IdleType DEF DestinationIsTrue
<1>12. QED
  BY <1>0, <1>1, <1>3, <1>5, <1>7, <1>9, <1>10, <1>11, Handled DEF Unreserved

\* The file is moved into the bin.
LEMMA StashKept ==
  ASSUME IndInv, NEW c \in Callers, Stash(c)
  PROVE  IndInv'
<1>0. /\ task[c].step = "stash" /\ Up
      /\ UNCHANGED <<record, filemap, inventory, sweep, boot, loose, purged>>
  BY DEF Stash, At
<1>1. PICK k \in Archives : k = Id(c)
  BY <1>0, AtWork
<1>2. PICK n \in Names : n = Path(c)
  BY <1>0, AtWork DEF RequestHas, Moving
<1>3. RequestHas(c) /\ (k \in Kept => RequestKnows(c)) /\ "meta" \in Steps
  BY <1>0, <1>1, AtWork DEF Steps
<1>4. CASE ~(OnDisk(n) /\ bin[k] # Nothing)
  <2>1. Leave(c) /\ UNCHANGED <<store, astray>>
    BY <1>0, <1>1, <1>2, <1>4 DEF Stash, store, library
  <2>2. QED
    BY <1>0, <2>1, StoreLeft DEF Stashed, IndInv, TypeOK
<1>5. CASE OnDisk(n) /\ bin[k] # Nothing
  <2>1. /\ disk' = [disk EXCEPT ![n] = Nothing]
        /\ bin' = [bin EXCEPT ![k].payload[n] = disk[n]]
        /\ astray' = IF disk[n] = k THEN astray ELSE astray \union {k, disk[n]}
        /\ Goto(c, "meta") /\ UNCHANGED holders
    BY <1>1, <1>2, <1>5 DEF Stash
  <2>2. /\ task'[c].step = "meta" /\ task'[c].id = k /\ task'[c].entry = task[c].entry
        /\ task' \in [Callers -> Tasks] /\ \A d \in Callers \ {c} : task'[d] = task[d]
    BY <1>1, <1>3, <2>1, GotoTask DEF IndInv, Id
  <2>3. /\ disk \in [Names -> Bytes] /\ disk' \in [Names -> Bytes] /\ disk'[n] = Nothing
        /\ \A m \in Names \ {n} : disk'[m] = disk[m]
        /\ disk[n] \in Archives
    BY <1>5, <2>1 DEF IndInv, TypeOK, Bytes, OnDisk
  <2>4. astray \subseteq astray' /\ astray' \subseteq Archives /\ disk[n] \in {k} \union astray'
    BY <2>1, <2>3 DEF IndInv, TypeOK
  <2>5. /\ bin' \in [Archives -> Directories \union {Nothing}] /\ bin'[k] # Nothing
        /\ bin'[k].payload[n] = disk[n]
        /\ \A m \in Names \ {n} : bin'[k].payload[m] = bin[k].payload[m]
        /\ \A i \in Archives \ {k} : bin'[i] = bin[i]
    <3> DEFINE d == [bin[k] EXCEPT !.payload[n] = disk[n]]
    <3>1. bin \in [Archives -> Directories \union {Nothing}]
      BY DEF IndInv, TypeOK
    <3>2. d \in Directories /\ d.payload[n] = disk[n] /\ \A m \in Names \ {n} : d.payload[m] = bin[k].payload[m]
      BY <1>5, <2>3, <3>1, StashedDirectory
    <3>3. bin' = [bin EXCEPT ![k] = d]
      BY <2>1, <3>1
    <3> HIDE DEF d
    <3>4. d # Nothing
      BY <3>2
    <3>5. QED
      BY <3>1, <3>2, <3>3, <3>4
  <2>6. TypeOK'
    BY <1>0, <2>1, <2>2, <2>3, <2>4, <2>5 DEF IndInv, TypeOK
  <2>7. RequestHas(c)'
    BY <1>0, <1>1, <1>3, <2>1, <2>2 DEF RequestHas, Moving, Stashed, Restoring, AtName, Unreserved, Id
  <2>8. \A i \in Kept' \ {k} : Same(i) /\ NotMapped(i)
    BY <1>0, <2>3, <2>4, <2>5, MoveIsOwn
  <2>9. Alone(c)
    BY <1>0, <1>1, <2>1, <2>2, <2>4, <2>8 DEF Alone
  <2>10. BinIsPure'
    <3>1. ASSUME NEW i \in Archives, NEW m \in Names, InBin(i, m)'
          PROVE  (bin'[i].payload[m]) \in {i} \union astray'
      BY <2>4, <2>5, <3>1, <1>5 DEF IndInv, BinIsPure, InBin
    <3>2. QED
      BY <3>1 DEF BinIsPure
  <2>11. k \in Kept' =>
           /\ k \in Kept /\ disk[n] = k
           /\ Exists(k) /\ record[k].file = n /\ ~task[c].entry.patch /\ n = task[c].entry.path
    BY <1>0, <1>1, <1>2, <1>3, <2>1 DEF RequestKnows, Moving, Kept, Id, Path
  <2>12. ASSUME k \in Kept'
         PROVE  ArchiveIsFine(k)' /\ RequestKnows(c)'
    <3>1. Exists(k)' /\ Half(k)' /\ Up' /\ disk'[n] # k
      BY <1>0, <2>3, <2>5, <2>11, <2>12 DEF Exists, Half, Up
    <3>2. Busy(k, Stashed)'
      BY <2>2 DEF Busy, Stashed, Id
    <3>3. RequestKnows(c)'
      BY <1>0, <2>2, <2>5, <2>11, <2>12, <3>1 DEF RequestKnows, Moving, Stashed, Restoring, Half
    <3>4. QED
      BY <3>1, <3>2, <3>3, FineWithRecord
  <2>13. ASSUME NEW d \in Callers \ {c}, k \in Kept'
         PROVE  DestinationIsTrue(d, k)'
    <3>1. DestinationIsTrue(d, k)
      BY <2>11, <2>13 DEF IndInv, DestinationsAreTrue
    <3>2. task[d].step \in {"save", "map"} => task[d].dest \in Names
      BY AtWork DEF RequestHas, AtName
    <3>3. QED
      BY <2>2, <2>3, <2>11, <2>13, <3>1, <3>2 DEF DestinationIsTrue, Id
  <2>14. \A i \in Kept' \ {k} : DestinationIsTrue(c, i)'
    BY <2>2 DEF DestinationIsTrue
  <2>15. QED
    BY <1>0, <1>1, <2>2, <2>6, <2>7, <2>9, <2>10, <2>12, <2>13, <2>14, Handled DEF Unreserved
<1>6. QED
  BY <1>4, <1>5

\* The file is moved back when the delete failed.
LEMMA MoveBackKept ==
  ASSUME IndInv, NEW c \in Callers, MoveBack(c)
  PROVE  IndInv'
<1>0. /\ task[c].step = "back" /\ Up
      /\ UNCHANGED <<record, filemap, inventory, sweep, boot, loose, purged>>
  BY DEF MoveBack, At
<1>1. PICK k \in Archives : k = Id(c)
  BY <1>0, AtWork
<1>2. PICK n \in Names : n = Path(c)
  BY <1>0, AtWork DEF RequestHas, Stashed
<1>3. RequestHas(c) /\ (k \in Kept => RequestKnows(c)) /\ "unput" \in Steps
  BY <1>0, <1>1, AtWork DEF Steps
<1>a. k \in Kept =>
        /\ Exists(k) /\ record[k].file = n /\ ~task[c].entry.patch /\ n = task[c].entry.path
        /\ bin[k] # Nothing /\ bin[k].payload[n] = k
  BY <1>0, <1>1, <1>2, <1>3 DEF RequestKnows, Stashed, Id, Path
<1>4. CASE ~InBin(k, n)
  <2>1. Leave(c) /\ UNCHANGED <<store, astray>>
    BY <1>0, <1>1, <1>2, <1>4 DEF MoveBack, store, library
  <2>2. k \notin Kept
    BY <1>4, <1>a DEF InBin
  <2>3. QED
    BY <1>0, <1>1, <2>1, <2>2, StoreLeft DEF IndInv, TypeOK
<1>5. CASE InBin(k, n)
  <2> DEFINE b == bin[k].payload[n]
  <2>1. /\ disk' = [disk EXCEPT ![n] = b]
        /\ bin' = [bin EXCEPT ![k].payload[n] = Nothing]
        /\ astray' = astray \union ({disk[n]} \ {k, Nothing})
        /\ Goto(c, "unput") /\ UNCHANGED holders
    BY <1>1, <1>2, <1>5 DEF MoveBack
  <2>2. /\ task'[c].step = "unput" /\ task'[c].id = k /\ task'[c].entry = task[c].entry
        /\ task' \in [Callers -> Tasks] /\ \A d \in Callers \ {c} : task'[d] = task[d]
    BY <1>1, <1>3, <2>1, GotoTask DEF IndInv, Id
  <2>3. /\ bin \in [Archives -> Directories \union {Nothing}] /\ bin[k] \in Directories
        /\ b \in Bytes /\ b \in {k} \union astray
    BY <1>5, DirectoryFields DEF IndInv, TypeOK, InBin, BinIsPure
  <2>4. /\ disk \in [Names -> Bytes] /\ disk' \in [Names -> Bytes] /\ disk'[n] = b
        /\ \A m \in Names \ {n} : disk'[m] = disk[m]
    <3> HIDE DEF b
    <3>1. QED
      BY <2>1, <2>3 DEF IndInv, TypeOK
  <2>5. astray \subseteq astray' /\ astray' \subseteq Archives /\ disk[n] \in {k, Nothing} \union astray'
    BY <2>1, <2>4 DEF IndInv, TypeOK, Bytes
  <2>6. /\ bin' \in [Archives -> Directories \union {Nothing}]
        /\ bin'[k].payload[n] = Nothing
        /\ \A m \in Names \ {n} : bin'[k].payload[m] = bin[k].payload[m]
        /\ \A i \in Archives \ {k} : bin'[i] = bin[i]
    <3> DEFINE d == [bin[k] EXCEPT !.payload[n] = Nothing]
    <3>1. d \in Directories /\ d.payload[n] = Nothing /\ \A m \in Names \ {n} : d.payload[m] = bin[k].payload[m]
      BY <2>3, StashedDirectory DEF Bytes
    <3>2. bin' = [bin EXCEPT ![k] = d]
      BY <2>1, <2>3
    <3> HIDE DEF d
    <3>3. QED
      BY <2>3, <3>1, <3>2
  <2>7. TypeOK'
    BY <1>0, <2>1, <2>2, <2>4, <2>5, <2>6 DEF IndInv, TypeOK
  <2>8. RequestHas(c)'
    BY <1>0, <1>1, <1>3, <2>1, <2>2 DEF RequestHas, Moving, Stashed, Restoring, AtName, Unreserved, Id
  <2> HIDE DEF b
  <2>9. \A i \in Kept' \ {k} : Same(i) /\ NotMapped(i)
    <3>1. disk'[n] \in {k, Nothing} \union astray'
      BY <2>3, <2>4, <2>5
    <3>2. QED
      BY <1>0, <2>4, <2>5, <2>6, <3>1, MoveIsOwn
  <2>10. Alone(c)
    BY <1>0, <1>1, <2>1, <2>2, <2>5, <2>9 DEF Alone
  <2>11. BinIsPure'
    <3>1. ASSUME NEW i \in Archives, NEW m \in Names, InBin(i, m)'
          PROVE  (bin'[i].payload[m]) \in {i} \union astray'
      BY <2>5, <2>6, <3>1, <1>5 DEF IndInv, BinIsPure, InBin
    <3>2. QED
      BY <3>1 DEF BinIsPure
  <2>12. k \in Kept' => k \in Kept /\ disk'[n] = k
    BY <1>0, <1>a, <2>4, <2>5 DEF Kept, b
  <2>13. ASSUME k \in Kept'
         PROVE  ArchiveIsFine(k)' /\ RequestKnows(c)'
    <3>1. Exists(k)' /\ InLibrary(k)' /\ Up'
      BY <1>0, <1>a, <2>12, <2>13 DEF Exists, InLibrary, Up
    <3>2. RequestKnows(c)'
      BY <1>0, <1>a, <2>2, <2>12, <2>13, <3>1 DEF RequestKnows, Moving, Stashed, Restoring
    <3>3. QED
      BY <3>1, <3>2, FineWithRecord
  <2>14. ASSUME NEW d \in Callers \ {c}, k \in Kept'
         PROVE  DestinationIsTrue(d, k)'
    <3>1. DestinationIsTrue(d, k)
      BY <2>12, <2>14 DEF IndInv, DestinationsAreTrue
    <3>2. task[d].step \in {"save", "map"} => task[d].dest \in Names
      BY AtWork DEF RequestHas, AtName
    <3>3. ~Busy(k, Restoring)'
      <4>1. ASSUME NEW e \in Callers, task'[e].step \in Restoring, task'[e].id = k
            PROVE  FALSE
        <5>1. e # c
          BY <2>2, <4>1 DEF Restoring
        <5>2. task[e].step \in Unreserved
          BY <1>0, <1>1, <2>2, <4>1, <5>1, Exclusive DEF Id, Unreserved
        <5>3. QED
          BY <2>2, <4>1, <5>1, <5>2 DEF Unreserved, Restoring
      <4>2. QED
        BY <4>1 DEF Busy, Id
    <3>4. QED
      BY <1>0, <1>a, <2>2, <2>4, <2>12, <2>14, <3>1, <3>2, <3>3 DEF DestinationIsTrue, Id, Exists
  <2>15. \A i \in Kept' \ {k} : DestinationIsTrue(c, i)'
    BY <2>2 DEF DestinationIsTrue
  <2>16. QED
    BY <1>0, <1>1, <2>2, <2>7, <2>8, <2>10, <2>11, <2>13, <2>14, <2>15, Handled DEF Unreserved
<1>6. QED
  BY <1>4, <1>5

\* The file is moved out of the bin, to a name that is reserved.
LEMMA MoveOutKept ==
  ASSUME IndInv, NEW c \in Callers, MoveOut(c)
  PROVE  IndInv'
<1>0. /\ task[c].step = "move" /\ Up
      /\ UNCHANGED <<record, filemap, inventory, sweep, boot, loose, purged>>
  BY DEF MoveOut, At
<1>1. PICK k \in Archives : k = Id(c)
  BY <1>0, AtWork
<1>2. PICK n \in Names : n = Path(c)
  BY <1>0, AtWork DEF RequestHas, Restoring
<1>3. PICK to \in Names : to = task[c].dest
  BY <1>0, AtWork DEF RequestHas, AtName
<1>4. /\ RequestHas(c) /\ (k \in Kept => RequestKnows(c)) /\ "save" \in Steps
      /\ task[c].entry \in Entries /\ task[c].entry # Nothing
  BY <1>0, <1>1, AtWork DEF Steps, RequestHas, Restoring
<1>a. k \in Kept =>
        /\ inventory[k] = task[c].entry /\ n = task[c].entry.path
        /\ bin[k] # Nothing /\ bin[k].payload[n] = k
        /\ Exists(k) => InLibrary(k)
  BY <1>0, <1>1, <1>2, <1>4 DEF RequestKnows, Restoring, Id, Path, InTheBin
<1>5. CASE ~InBin(k, n)
  <2>1. Leave(c) /\ UNCHANGED <<store, astray>>
    BY <1>0, <1>1, <1>2, <1>5 DEF MoveOut, store, library
  <2>2. QED
    BY <1>0, <2>1, StoreLeft DEF IndInv, TypeOK, Stashed
<1>6. CASE InBin(k, n)
  <2> DEFINE b == bin[k].payload[n]
  <2>1. /\ disk' = [disk EXCEPT ![to] = b]
        /\ bin' = [bin EXCEPT ![k].payload[n] = Nothing]
        /\ astray' = astray \union ({disk[to]} \ {k, Nothing})
        /\ IF ~task[c].entry.patch THEN Goto(c, "save") /\ UNCHANGED holders ELSE Leave(c)
    BY <1>1, <1>2, <1>3, <1>6 DEF MoveOut
  <2>2. /\ task' \in [Callers -> Tasks] /\ holders' \in [Names \union Archives -> SUBSET Callers]
        /\ \A d \in Callers \ {c} : task'[d] = task[d]
        /\ \A d \in Callers \ {c}, m \in Names \union Archives :
             holders[m] = {d} => holders'[m] = {d}
        /\ \/ task[c].entry.patch /\ task'[c] = Idle
           \/ /\ ~task[c].entry.patch /\ task'[c].step = "save" /\ task'[c].id = k
              /\ task'[c].entry = task[c].entry /\ task'[c].dest = to /\ holders' = holders
    <3>1. CASE task[c].entry.patch
      BY <2>1, <3>1, LeaveTask DEF IndInv
    <3>2. CASE ~task[c].entry.patch
      <4>1. holders \in [Names \union Archives -> SUBSET Callers]
        BY DEF IndInv, TypeOK
      <4>2. QED
        BY <1>1, <1>3, <1>4, <2>1, <3>2, <4>1, GotoTask DEF IndInv, Id
    <3>3. QED
      BY <3>1, <3>2
  <2>3. /\ bin \in [Archives -> Directories \union {Nothing}] /\ bin[k] \in Directories
        /\ b \in Bytes /\ b \in {k} \union astray
    BY <1>6, DirectoryFields DEF IndInv, TypeOK, InBin, BinIsPure
  <2>4. /\ disk \in [Names -> Bytes] /\ disk' \in [Names -> Bytes] /\ disk'[to] = b
        /\ \A m \in Names \ {to} : disk'[m] = disk[m]
    <3> HIDE DEF b
    <3>1. QED
      BY <2>1, <2>3 DEF IndInv, TypeOK
  <2>5. astray \subseteq astray' /\ astray' \subseteq Archives /\ disk[to] \in {k, Nothing} \union astray'
    BY <2>1, <2>4 DEF IndInv, TypeOK, Bytes
  <2>6. /\ bin' \in [Archives -> Directories \union {Nothing}]
        /\ bin'[k].payload[n] = Nothing
        /\ \A m \in Names \ {n} : bin'[k].payload[m] = bin[k].payload[m]
        /\ \A i \in Archives \ {k} : bin'[i] = bin[i]
    <3> DEFINE d == [bin[k] EXCEPT !.payload[n] = Nothing]
    <3>1. d \in Directories /\ d.payload[n] = Nothing /\ \A m \in Names \ {n} : d.payload[m] = bin[k].payload[m]
      BY <2>3, StashedDirectory DEF Bytes
    <3>2. bin' = [bin EXCEPT ![k] = d]
      BY <2>1, <2>3
    <3> HIDE DEF d
    <3>3. QED
      BY <2>3, <3>1, <3>2
  <2>7. TypeOK'
    BY <1>0, <2>2, <2>4, <2>5, <2>6 DEF IndInv, TypeOK
  <2>8. RequestHas(c)'
    <3>1. CASE task'[c] = Idle
      BY <3>1, IdleHas
    <3>2. CASE task'[c].step = "save"
      BY <1>0, <1>1, <1>3, <1>4, <2>2, <3>2, IdleType
      DEF RequestHas, Moving, Stashed, Restoring, AtName, Unreserved, Id
    <3>3. QED
      BY <2>2, <3>1, <3>2
  <2> HIDE DEF b
  <2>9. \A i \in Kept' \ {k} : Same(i) /\ NotMapped(i)
    <3>1. disk'[to] \in {k, Nothing} \union astray'
      BY <2>3, <2>4, <2>5
    <3>2. QED
      BY <1>0, <2>4, <2>5, <2>6, <3>1, MoveIsOwn
  <2>10. Alone(c)
    BY <1>0, <1>1, <2>2, <2>5, <2>9 DEF Alone
  <2>11. BinIsPure'
    <3>1. ASSUME NEW i \in Archives, NEW m \in Names, InBin(i, m)'
          PROVE  (bin'[i].payload[m]) \in {i} \union astray'
      BY <2>5, <2>6, <3>1, <1>6 DEF IndInv, BinIsPure, InBin
    <3>2. QED
      BY <3>1 DEF BinIsPure
  <2>12. k \in Kept' => k \in Kept /\ disk'[to] = k
    BY <1>0, <1>a, <2>4, <2>5 DEF Kept, b
  <2>13. ASSUME k \in Kept'
         PROVE  ArchiveIsFine(k)' /\ (task'[c] # Idle => RequestKnows(c)')
    <3>1. Up' /\ (Exists(k)' <=> Exists(k)) /\ (Exists(k) => InLibrary(k)')
      <4>1. Exists(k) => record[k].file \in Names /\ disk[record[k].file] = k
        BY <1>a, <2>12, <2>13, RecordFields DEF IndInv, TypeOK, Exists, InLibrary
      <4>2. Exists(k) => disk'[record[k].file] = k
        BY <2>4, <2>12, <2>13, <4>1
      <4>3. QED
        BY <1>0, <4>2 DEF Up, Exists, InLibrary
    <3>2. task'[c] # Idle => RequestKnows(c)'
      BY <1>0, <1>a, <2>2, <2>12, <2>13, <3>1 DEF RequestKnows, Moving, Stashed, Restoring
    <3>3. CASE Exists(k)
      BY <3>1, <3>2, <3>3, FineWithRecord
    <3>4. CASE ~Exists(k)
      <4>1. RecoveredIsUnmapped(k) /\ inventory[k] # Nothing /\ inventory'[k] # Nothing
        BY <1>0, <1>4, <1>a, <2>12, <2>13 DEF IndInv, ArchivesAreFine, ArchiveIsFine
      <4>2. RecoveredIsUnmapped(k)'
        BY <1>0, <3>1, <4>1 DEF RecoveredIsUnmapped
      <4>3. filemap'[to] # k \/ Busy(k, {"save"})'
        <5>1. CASE task[c].entry.patch
          BY <1>0, <1>a, <2>12, <2>13, <3>4, <4>1, <5>1 DEF RecoveredIsUnmapped
        <5>2. CASE ~task[c].entry.patch
          BY <2>2, <5>2 DEF Busy, Id
        <5>3. QED
          BY <5>1, <5>2
      <4>4. QED
        BY <2>12, <2>13, <3>1, <3>2, <3>4, <4>1, <4>2, <4>3, FineWithout
    <3>5. QED
      BY <3>3, <3>4
  <2>14. ASSUME NEW d \in Callers \ {c}, k \in Kept'
         PROVE  DestinationIsTrue(d, k)'
    <3>1. DestinationIsTrue(d, k) /\ Busy(k, Restoring)
      BY <1>0, <1>1, <2>12, <2>14 DEF IndInv, DestinationsAreTrue, Busy, Restoring
    <3>2. task[d].step \in {"save", "map"} => task[d].dest \in Names /\ task[d].dest # to
      <4>1. task[d].step \in {"save", "map"} => RequestHas(d) /\ RequestHas(c) /\ task[d].dest \in Names
        BY <1>4, AtWork DEF RequestHas, AtName
      <4>2. {c} # {d}
        OBVIOUS
      <4>3. QED
        BY <1>0, <1>3, <4>1, <4>2 DEF RequestHas, AtName
    <3>3. QED
      BY <2>2, <2>4, <3>1, <3>2 DEF DestinationIsTrue, Id
  <2>15. ASSUME NEW i \in Kept' \ {k}
         PROVE  DestinationIsTrue(c, i)'
    <3>1. disk'[to] # i
      BY <2>3, <2>4, <2>5, <2>15 DEF Kept
    <3>2. QED
      BY <2>2, <3>1, IdleType DEF DestinationIsTrue
  <2>16. QED
    BY <1>0, <1>1, <2>2, <2>7, <2>8, <2>10, <2>11, <2>13, <2>14, <2>15, Handled DEF Unreserved
<1>7. QED
  BY <1>5, <1>6

\* A restore that failed moves it back, where its entry does not find it if the
\* name is another.
LEMMA ReturnKept ==
  ASSUME IndInv, NEW c \in Callers, Return(c)
  PROVE  IndInv'
<1>0. /\ task[c].step = "return" /\ Up /\ Leave(c)
      /\ UNCHANGED <<record, filemap, inventory, sweep, boot, loose, purged>>
  BY DEF Return, At
<1>1. PICK k \in Archives : k = Id(c)
  BY <1>0, AtWork
<1>2. PICK n \in Names : n = task[c].dest
  BY <1>0, AtWork DEF RequestHas, AtName
<1>3. RequestHas(c) /\ (k \in Kept => RequestKnows(c)) /\ task[c].entry # Nothing
  BY <1>0, <1>1, AtWork DEF RequestHas, Restoring
<1> DEFINE b == IF bin[k] = Nothing THEN NewDirectory ELSE bin[k]
           d == [b EXCEPT !.payload[n] = IF OnDisk(n) THEN disk[n] ELSE @]
<1>4. /\ disk' = [disk EXCEPT ![n] = Nothing] /\ bin' = [bin EXCEPT ![k] = d]
      /\ astray' = astray \union ({disk[n]} \ {k, Nothing}) \union (IF n = Path(c) THEN {} ELSE {k})
  BY <1>1, <1>2 DEF Return
<1>5. /\ task' \in [Callers -> Tasks] /\ holders' \in [Names \union Archives -> SUBSET Callers]
      /\ \A e \in Callers \ {c} : task'[e] = task[e]
      /\ \A e \in Callers \ {c}, m \in Names \union Archives :
           holders[m] = {e} => holders'[m] = {e}
      /\ task'[c] = Idle
  BY <1>0, LeaveTask DEF IndInv
<1>6. /\ disk \in [Names -> Bytes] /\ disk' \in [Names -> Bytes] /\ disk'[n] = Nothing
      /\ \A m \in Names \ {n} : disk'[m] = disk[m]
      /\ disk[n] \in Archives \union {Nothing}
  BY <1>4 DEF IndInv, TypeOK, Bytes
<1>7. /\ astray \subseteq astray' /\ astray' \subseteq Archives
      /\ disk[n] \in {k, Nothing} \union astray' /\ (k \in Kept' => k \in Kept /\ n = Path(c))
  BY <1>0, <1>4, <1>6 DEF IndInv, TypeOK, Kept
<1>8. bin \in [Archives -> Directories \union {Nothing}] /\ b \in Directories
  BY DirectoryType DEF IndInv, TypeOK
<1>9. /\ \A m \in Names : b.payload[m] # Nothing => InBin(k, m) /\ b.payload[m] = bin[k].payload[m]
  BY DirectoryType DEF InBin
<1> HIDE DEF b
<1>10. /\ d \in Directories /\ d.payload[n] = IF OnDisk(n) THEN disk[n] ELSE b.payload[n]
       /\ \A m \in Names \ {n} : d.payload[m] = b.payload[m]
  <2> DEFINE x == IF OnDisk(n) THEN disk[n] ELSE b.payload[n]
  <2>1. x \in Bytes
    BY <1>6, <1>8, DirectoryFields DEF Bytes
  <2>2. d = [b EXCEPT !.payload[n] = x]
    BY <1>8 DEF Directories
  <2> HIDE DEF x, d
  <2>3. d \in Directories /\ d.payload[n] = x /\ \A m \in Names \ {n} : d.payload[m] = b.payload[m]
    BY <1>8, <2>1, <2>2, StashedDirectory
  <2>4. QED
    BY <2>3 DEF x
<1> HIDE DEF d
<1>11. /\ bin' \in [Archives -> Directories \union {Nothing}] /\ bin'[k] = d /\ d # Nothing
       /\ \A i \in Archives \ {k} : bin'[i] = bin[i]
  BY <1>4, <1>8, <1>10
<1>12. TypeOK'
  BY <1>0, <1>5, <1>6, <1>7, <1>11 DEF IndInv, TypeOK
<1>13. \A i \in Kept' \ {k} : Same(i) /\ NotMapped(i)
  BY <1>0, <1>6, <1>7, <1>11, MoveIsOwn
<1>14. Alone(c)
  BY <1>0, <1>1, <1>5, <1>7, <1>13 DEF Alone
<1>15. BinIsPure'
  <2>1. ASSUME NEW i \in Archives \ {k}, NEW m \in Names, InBin(i, m)'
        PROVE  (bin'[i].payload[m]) \in {i} \union astray'
    BY <1>7, <1>11, <2>1 DEF IndInv, BinIsPure, InBin
  <2>2. ASSUME NEW m \in Names, InBin(k, m)'
        PROVE  (bin'[k].payload[m]) \in {k} \union astray'
    <3>1. d.payload[m] # Nothing
      BY <1>11, <2>2 DEF InBin
    <3>2. CASE m = n /\ OnDisk(n)
      BY <1>7, <1>10, <1>11, <3>2 DEF OnDisk
    <3>3. CASE ~(m = n /\ OnDisk(n))
      BY <1>7, <1>9, <1>10, <1>11, <3>1, <3>3 DEF IndInv, BinIsPure
    <3>4. QED
      BY <3>2, <3>3
  <2>3. QED
    BY <2>1, <2>2 DEF BinIsPure
<1>16. ASSUME k \in Kept'
       PROVE  ArchiveIsFine(k)'
  <2>1. /\ disk[n] = k /\ inventory[k] = task[c].entry /\ n = task[c].entry.path /\ loose
        /\ Exists(k) => InLibrary(k)
    BY <1>0, <1>1, <1>2, <1>3, <1>7, <1>16 DEF RequestKnows, Restoring, Id, Path
  <2>2. bin'[k] # Nothing /\ bin'[k].payload[n] = k
    BY <1>10, <1>11, <2>1 DEF OnDisk
  <2>3. CASE Exists(k)
    <3>1. record[k].file \in Names
      BY <2>3, RecordFields DEF IndInv, TypeOK, Exists
    <3>2. InLibrary(k)' \/ Half(k)'
      BY <1>0, <1>6, <2>1, <2>2, <2>3, <3>1 DEF InLibrary, Half, Exists
    <3>3. QED
      BY <1>0, <2>1, <2>3, <3>2, FineWithRecord DEF Up, Exists
  <2>4. CASE ~Exists(k)
    <3>1. InTheBin(k)' /\ inventory'[k] # Nothing /\ ~Exists(k)' /\ Up'
      BY <1>0, <1>3, <2>1, <2>2, <2>4 DEF InTheBin, Exists, Up
    <3>2. RecoveredIsUnmapped(k)
      BY <1>7, <1>16 DEF IndInv, ArchivesAreFine, ArchiveIsFine
    <3>3. RecoveredIsUnmapped(k)'
      BY <1>0, <2>4, <3>2 DEF RecoveredIsUnmapped
    <3>4. QED
      BY <3>1, <3>3, FineWithout
  <2>5. QED
    BY <2>3, <2>4
<1>17. ASSUME NEW e \in Callers \ {c}, k \in Kept'
       PROVE  DestinationIsTrue(e, k)'
  <2>1. DestinationIsTrue(e, k) /\ Busy(k, Restoring)
    BY <1>0, <1>1, <1>7, <1>17 DEF IndInv, DestinationsAreTrue, Busy, Restoring
  <2>2. task[e].step \in {"save", "map"} => task[e].dest \in Names
    BY AtWork DEF RequestHas, AtName
  <2>3. QED
    BY <1>5, <1>6, <2>1, <2>2 DEF DestinationIsTrue, Id
<1>18. RequestHas(c)' /\ \A i \in Kept' \ {k} : DestinationIsTrue(c, i)'
  BY <1>5, IdleHas, IdleType DEF DestinationIsTrue
<1>19. QED
  BY <1>0, <1>1, <1>5, <1>12, <1>14, <1>15, <1>16, <1>17, <1>18, Handled DEF Unreserved

\* Whatever a request does preserves the invariant.
LEMMA HandleKept ==
  ASSUME IndInv, NEW c \in Callers, Handle(c)
  PROVE  IndInv'
<1>1. ASSUME LockEntry(c, "d lock", "look") \/ LockEntry(c, "r lock", "entry")
               \/ LockEntry(c, "p lock", "p rmdir")
      PROVE  IndInv'
  BY <1>1, LockEntryKept
<1>2. ASSUME RemoveEntry(c, "unput", "d rmdir") \/ RemoveEntry(c, "remove", "r rmdir")
               \/ RemoveEntry(c, "p remove", "idle")
      PROVE  IndInv'
  <2>1. CASE RemoveEntry(c, "unput", "d rmdir")
    BY <2>1, RemoveEntryKept
  <2>2. CASE RemoveEntry(c, "remove", "r rmdir")
    BY <2>2, RemoveEntryKept
  <2>3. CASE RemoveEntry(c, "p remove", "idle")
    BY <2>3, RemoveEntryKept
  <2>4. QED
    BY <1>2, <2>1, <2>2, <2>3
<1>3. ASSUME RemoveDirectory(c, "d rmdir") \/ RemoveDirectory(c, "r rmdir")
      PROVE  IndInv'
  BY <1>3, RemoveDirectoryKept
<1>4. ASSUME Look(c) \/ DropGone(c) \/ Unlink(c) \/ MakeDirectory(c) \/ Stash(c) \/ WriteMeta(c)
               \/ Put(c) \/ Unmap(c) \/ Drop(c) \/ MoveBack(c)
      PROVE  IndInv'
  BY <1>4, LookKept, DropGoneKept, UnlinkKept, MakeDirectoryKept, StashKept, WriteMetaKept, PutKept,
     UnmapKept, DropKept, MoveBackKept
<1>5. ASSUME ReadEntry(c) \/ ChooseDestination(c) \/ ReserveName(c) \/ MoveOut(c) \/ Save(c)
               \/ Map(c) \/ Return(c)
      PROVE  IndInv'
  BY <1>5, ReadEntryKept, ChooseDestinationKept, ReserveNameKept, MoveOutKept, SaveKept, MapKept,
     ReturnKept
<1>6. ASSUME Find(c) \/ PurgeDirectory(c)
      PROVE  IndInv'
  BY <1>6, FindKept, PurgeDirectoryKept
<1>7. QED
  BY <1>1, <1>2, <1>3, <1>4, <1>5, <1>6 DEF Handle, Delete, Restore, Purge

-----------------------------------------------------------------------------
(* The sweep *)

\* A request that stands still has what it had.
LEMMA HasStill ==
  ASSUME IndInv, NEW c \in Callers, task'[c] = task[c],
         \A k \in Names \union Archives : holders[k] = {c} => holders'[k] = {c},
         purged \subseteq purged', astray \subseteq astray'
  PROVE  RequestHas(c)'
<1>1. RequestHas(c) /\ task[c] \in Tasks
  BY DEF IndInv, RequestsKnow, TypeOK
<1>2. task[c].step \in AtName => task[c].dest \in Names
  BY <1>1, TaskFields DEF RequestHas
<1>3. task[c].step \notin Unreserved => task[c].id \in Archives
  BY <1>1 DEF RequestHas, Unreserved
<1>4. QED
  BY <1>1, <1>2, <1>3 DEF RequestHas

\* What the bin holds of an archive is what it held, the age of the directory aside.
HeldSame(i) ==
  /\ \A n \in Names : InBin(i, n)' <=> InBin(i, n)
  /\ \A n \in Names : InBin(i, n) => bin'[i].payload[n] = bin[i].payload[n]
  /\ Holds(i) => bin'[i].meta = bin[i].meta

\* Then it is in the bin, half deleted or journalled as before.
LEMMA HeldKnown ==
  ASSUME IndInv, TypeOK', NEW i \in Archives, HeldSame(i),
         record'[i] = record[i], inventory'[i] = inventory[i]
  PROVE  /\ Holds(i)' <=> Holds(i)
         /\ InTheBin(i)' <=> InTheBin(i)
         /\ Half(i)' <=> Half(i)
         /\ Journalled(i)' <=> Journalled(i)
<1>1. Holds(i)' <=> Holds(i)
  BY DEF HeldSame, Holds
<1>2. ASSUME NEW n \in Names
      PROVE  /\ bin[i] # Nothing /\ bin[i].payload[n] = i => Holds(i)
             /\ bin'[i] # Nothing /\ bin'[i].payload[n] = i <=> bin[i] # Nothing /\ bin[i].payload[n] = i
  BY <1>2 DEF HeldSame, InBin, Holds
<1>3. InTheBin(i)' <=> InTheBin(i)
  <2>1. inventory[i] # Nothing => inventory[i].path \in Names
    BY EntryFields DEF IndInv, TypeOK
  <2>2. QED
    BY <1>2, <2>1 DEF InTheBin
<1>4. Half(i)' <=> Half(i)
  <2>1. Exists(i) => record[i].file \in Names
    BY RecordFields DEF IndInv, TypeOK, Exists
  <2>2. QED
    BY <1>2, <2>1 DEF Half, Exists
<1>5. Journalled(i)' <=> Journalled(i)
  <2>1. ASSUME Journalled(i)
        PROVE  Journalled(i)'
    <3>1. bin[i].meta \in Entries /\ bin[i].meta.path \in Names
      BY <2>1, DirectoryFields, EntryFields DEF IndInv, TypeOK, Journalled
    <3>2. QED
      BY <2>1, <3>1, <1>2 DEF Journalled, HeldSame
  <2>2. ASSUME Journalled(i)'
        PROVE  Journalled(i)
    <3>1. bin'[i] # Nothing /\ inventory'[i] = Nothing
          /\ bin'[i].meta # Nothing /\ bin'[i].payload[bin'[i].meta.path] = i
      BY <2>2 DEF Journalled
    <3>2. bin'[i].meta \in Entries /\ bin'[i].meta.path \in Names
      <4>1. bin'[i] \in Directories
        BY <3>1 DEF TypeOK
      <4>2. QED
        BY <3>1, <4>1, DirectoryFields, EntryFields
    <3>3. bin[i] # Nothing /\ bin[i].payload[bin'[i].meta.path] = i /\ Holds(i)
      BY <1>2, <3>1, <3>2
    <3>4. QED
      BY <3>1, <3>3 DEF Journalled, HeldSame
  <2>3. QED
    BY <2>1, <2>2
<1>6. QED
  BY <1>1, <1>3, <1>4, <1>5

\* A step of the sweep preserves the invariant if it leaves what the bin holds of
\* the archives that are kept.
LEMMA Swept ==
  ASSUME IndInv, TypeOK', UNCHANGED <<library, task, holders, loose>>,
         purged \subseteq purged', astray \subseteq astray',
         \A i \in Kept' : HeldSame(i) /\ inventory'[i] = inventory[i],
         \A i \in Archives, n \in Names :
           InBin(i, n)' => InBin(i, n) /\ bin'[i].payload[n] = bin[i].payload[n],
         boot' = boot \/ (boot.step = "sweep" /\ boot'.step = "repair"),
         StartupKnows', SweepKnows'
  PROVE  IndInv'
<1>1. Kept' \subseteq Kept /\ Kept' \subseteq Archives
  BY KeptShrinks DEF Kept
<1>2. ASSUME NEW i \in Kept'
      PROVE  /\ Exists(i)' <=> Exists(i)
             /\ InLibrary(i)' <=> InLibrary(i)
             /\ Holds(i)' <=> Holds(i)
             /\ InTheBin(i)' <=> InTheBin(i)
             /\ Half(i)' <=> Half(i)
             /\ Journalled(i)' <=> Journalled(i)
             /\ record'[i] = record[i]
  BY <1>1, <1>2, HeldKnown DEF library, Exists, InLibrary
<1>3. ArchivesAreFine'
  <2>1. ASSUME NEW i \in Kept'
        PROVE  ArchiveIsFine(i)'
    <3>1. ArchiveIsFine(i)
      BY <1>1, <2>1 DEF IndInv, ArchivesAreFine
    <3>2. (Up' <=> Up) /\ (Unsettled(i)' <=> Unsettled(i))
      BY DEF Up, Unsettled, BootAt, Finishing
    <3>3. \A steps : Busy(i, steps)' <=> Busy(i, steps)
      BY DEF Busy, Id
    <3>4. RecordIsTrue(i)'
      BY <1>2, <2>1, <3>1, <3>2, <3>3 DEF ArchiveIsFine, RecordIsTrue
    <3>5. RestIsFound(i)'
      BY <1>2, <2>1, <3>1, <3>2, <3>3 DEF ArchiveIsFine, RestIsFound, library
    <3>6. RecoveredIsUnmapped(i)'
      BY <1>2, <2>1, <3>1, <3>2 DEF ArchiveIsFine, RecoveredIsUnmapped, library
    <3>7. BinIsTraceable(i)'
      BY <1>2, <2>1, <3>1 DEF ArchiveIsFine, BinIsTraceable, HeldSame
    <3>8. SettledIsListed(i)'
      BY <1>2, <2>1, <3>1, <3>2 DEF ArchiveIsFine, SettledIsListed
    <3>9. QED
      BY <3>4, <3>5, <3>6, <3>7, <3>8 DEF ArchiveIsFine
  <2>2. QED
    BY <2>1 DEF ArchivesAreFine
<1>4. RequestsKnow'
  <2>1. ASSUME NEW c \in Callers
        PROVE  RequestHas(c)'
    BY <2>1, HasStill
  <2>2. ASSUME NEW c \in Callers, Id(c) \in Kept'
        PROVE  RequestKnows(c)'
    <3>1. RequestHas(c) /\ RequestKnows(c) /\ task[c] \in Tasks
      BY <1>1, <2>2 DEF IndInv, RequestsKnow, TypeOK
    <3>2. PICK i \in Kept' : i = Id(c)
      BY <2>2
    <3>3. task[c].step \in Stashed => task[c].entry.path \in Names
      BY <3>1, TaskFields, EntryFields DEF RequestHas
    <3>4. task[c].step \in Stashed => bin'[i] # Nothing /\ bin'[i].payload[task[c].entry.path] = i
      <4>1. ASSUME task[c].step \in Stashed
            PROVE  InBin(i, task[c].entry.path) /\ bin[i].payload[task[c].entry.path] = i
        BY <1>1, <3>1, <3>2, <4>1 DEF RequestKnows, InBin, Id
      <4>2. QED
        BY <3>2, <3>3, <4>1 DEF HeldSame, InBin
    <3>5. QED
      BY <1>2, <3>1, <3>2, <3>4 DEF RequestKnows, library, Id
  <2>3. QED
    BY <2>1, <2>2 DEF RequestsKnow, Id
<1>5. DestinationsAreTrue'
  <2>1. ASSUME NEW c \in Callers, NEW i \in Kept'
        PROVE  DestinationIsTrue(c, i)'
    BY <1>1, <2>1 DEF IndInv, DestinationsAreTrue, DestinationIsTrue, Exists, Busy, Id, library
  <2>2. QED
    BY <2>1 DEF DestinationsAreTrue
<1>6. BinIsPure'
  <2>1. ASSUME NEW i \in Archives, NEW n \in Names, InBin(i, n)'
        PROVE  (bin'[i].payload[n]) \in {i} \union astray'
    BY <2>1 DEF IndInv, BinIsPure
  <2>2. QED
    BY <2>1 DEF BinIsPure
<1>7. QED
  BY <1>3, <1>4, <1>5, <1>6 DEF IndInv

\* The steps that change nothing but the sweep's own list.
LEMMA SweptAside ==
  ASSUME IndInv, UNCHANGED <<store, holders, task, history>>, sweep' \in Sweeps, boot' \in Boots,
         boot' = boot \/ (boot.step = "sweep" /\ boot'.step = "repair"),
         sweep'.step # "remove", StartupKnows'
  PROVE  IndInv'
<1>1. TypeOK'
  BY DEF IndInv, TypeOK, store, library, history
<1>2. Kept' = Kept /\ Kept \subseteq Archives
  BY DEF Kept, history
<1>3. \A i \in Kept' : HeldSame(i) /\ inventory'[i] = inventory[i]
  BY <1>2 DEF HeldSame, InBin, store
<1>4. \A i \in Archives, n \in Names :
        InBin(i, n)' => InBin(i, n) /\ bin'[i].payload[n] = bin[i].payload[n]
  BY DEF InBin, store
<1>5. UNCHANGED <<library, task, holders, loose, purged, astray>> /\ SweepKnows'
  BY DEF store, history, SweepKnows
<1>6. QED
  BY <1>1, <1>3, <1>4, <1>5, Swept

\* What startup knows if it goes on as it is.
LEMMA StartupKnowsStill ==
  ASSUME IndInv, UNCHANGED <<task, boot>>, boot.step \in {"up", "sweep"}
  PROVE  StartupKnows'
BY DEF IndInv, StartupKnows, Up, BootAt, Finishing

\* While the sweep works the program is up, or at its startup sweep.
LEMMA SweepRuns ==
  ASSUME IndInv, sweep.step # "idle"
  PROVE  boot.step \in {"up", "sweep"}
BY DEF IndInv, StartupKnows, NoSweep

\* The sweep starts.
LEMMA StartSweepKept ==
  ASSUME IndInv, StartSweep
  PROVE  IndInv'
<1>1. sweep' \in Sweeps /\ sweep'.step = "list"
  BY DEF StartSweep, NoSweep, Sweeps, Bytes
<1>2. StartupKnows' /\ boot' \in Boots
  BY StartupKnowsStill DEF StartSweep, Up, IndInv, TypeOK
<1>3. QED
  BY <1>1, <1>2, SweptAside DEF StartSweep

\* It lists what is due.
LEMMA ListKept ==
  ASSUME IndInv, List
  PROVE  IndInv'
<1>1. sweep' \in Sweeps /\ sweep'.step = "purge"
  BY DEF List, Sweeps, IndInv, TypeOK
<1>2. StartupKnows' /\ boot' \in Boots
  BY SweepRuns, StartupKnowsStill DEF List, IndInv, TypeOK
<1>3. QED
  BY <1>1, <1>2, SweptAside DEF List

\* Then the leftovers.
LEMMA ListAgainKept ==
  ASSUME IndInv, ListAgain
  PROVE  IndInv'
<1>1. sweep' \in Sweeps /\ sweep'.step = "leftovers"
  BY DEF ListAgain, Sweeps, IndInv, TypeOK
<1>2. StartupKnows' /\ boot' \in Boots
  BY SweepRuns, StartupKnowsStill DEF ListAgain, IndInv, TypeOK
<1>3. QED
  BY <1>1, <1>2, SweptAside DEF ListAgain

\* And ends, which at startup lets the repair begin.
LEMMA EndSweepKept ==
  ASSUME IndInv, EndSweep
  PROVE  IndInv'
<1>1. sweep' \in Sweeps /\ sweep'.step = "idle" /\ sweep' = NoSweep
  BY DEF EndSweep, NoSweep, Sweeps, Bytes
<1>2. boot.step \in {"up", "sweep"}
  BY SweepRuns DEF EndSweep
<1>3. boot' \in Boots /\ (boot' = boot \/ (boot.step = "sweep" /\ boot'.step = "repair"))
  BY DEF EndSweep, Running, Boots, Bytes, IndInv, TypeOK
<1>4. StartupKnows'
  BY <1>1, <1>2, <1>3 DEF EndSweep, IndInv, StartupKnows, Up, BootAt, Finishing
<1>5. QED
  BY <1>1, <1>3, <1>4, SweptAside DEF EndSweep

\* An archive that expired is purged, not lost.
LEMMA ExpireKept ==
  ASSUME IndInv, NEW i \in Archives, Expire(i)
  PROVE  IndInv'
<1>1. /\ bin' \in [Archives -> Directories \union {Nothing}] /\ bin'[i] = Nothing
      /\ \A k \in Archives \ {i} : bin'[k] = bin[k]
      /\ sweep' \in Sweeps /\ sweep'.id = i /\ purged' = purged \union {i} /\ purged' \subseteq Archives
  BY DEF Expire, IndInv, TypeOK, Sweeps, Bytes
<1>2. TypeOK'
  BY <1>1 DEF IndInv, TypeOK, Expire, library
<1>3. Kept' \subseteq Archives \ {i}
  BY <1>1 DEF Kept
<1>4. \A k \in Kept' : HeldSame(k) /\ inventory'[k] = inventory[k]
  BY <1>1, <1>3 DEF HeldSame, InBin, Expire
<1>5. \A k \in Archives, n \in Names :
        InBin(k, n)' => InBin(k, n) /\ bin'[k].payload[n] = bin[k].payload[n]
  BY <1>1 DEF InBin
<1>6. SweepKnows'
  BY <1>1 DEF SweepKnows
<1>7. StartupKnows'
  BY SweepRuns, StartupKnowsStill DEF Expire
<1>8. QED
  BY <1>1, <1>2, <1>4, <1>5, <1>6, <1>7, Swept DEF Expire

\* Its entry goes after its directory.
LEMMA ExpireEntryKept ==
  ASSUME IndInv, ExpireEntry
  PROVE  IndInv'
<1>1. sweep.id \in purged /\ purged \subseteq Archives
  BY DEF ExpireEntry, IndInv, SweepKnows, TypeOK
<1>2. /\ inventory' \in [Archives -> Entries \union {Nothing}]
      /\ \A k \in Archives \ {sweep.id} : inventory'[k] = inventory[k]
      /\ sweep' \in Sweeps /\ sweep'.step = "purge"
  BY DEF ExpireEntry, IndInv, TypeOK, Sweeps, Bytes
<1>3. TypeOK'
  BY <1>2 DEF IndInv, TypeOK, ExpireEntry, library, history
<1>4. Kept' = Kept /\ Kept \subseteq Archives \ {sweep.id}
  BY <1>1 DEF Kept, ExpireEntry, history
<1>5. \A k \in Kept' : HeldSame(k) /\ inventory'[k] = inventory[k]
  BY <1>2, <1>4 DEF HeldSame, InBin, ExpireEntry
<1>6. \A k \in Archives, n \in Names :
        InBin(k, n)' => InBin(k, n) /\ bin'[k].payload[n] = bin[k].payload[n]
  BY DEF InBin, ExpireEntry
<1>7. SweepKnows'
  BY <1>2 DEF SweepKnows
<1>8. StartupKnows'
  BY SweepRuns, StartupKnowsStill DEF ExpireEntry
<1>9. UNCHANGED <<library, task, holders, loose, purged, astray, boot>>
  BY DEF ExpireEntry, history
<1>10. QED
  BY <1>3, <1>5, <1>6, <1>7, <1>8, <1>9, Swept

\* An old directory without an entry that held an archive has lost it.
LEMMA ReclaimKept ==
  ASSUME IndInv, NEW i \in Archives, Reclaim(i)
  PROVE  IndInv'
<1> DEFINE reclaimed == bin[i] # Nothing /\ bin[i].old
<1>1. /\ bin' = [bin EXCEPT ![i] = IF reclaimed THEN Nothing ELSE @]
      /\ astray' = IF reclaimed /\ Holds(i) THEN astray \union {i} ELSE astray
      /\ sweep' = [sweep EXCEPT !.left = @ \ {i}] /\ sweep.step = "leftovers"
      /\ UNCHANGED <<library, inventory, holders, task, boot, loose, purged>>
  BY DEF Reclaim, Holds
<1> HIDE DEF reclaimed
<1>2. /\ bin' \in [Archives -> Directories \union {Nothing}]
      /\ (bin'[i] = Nothing /\ reclaimed) \/ (bin'[i] = bin[i] /\ ~reclaimed)
      /\ \A k \in Archives \ {i} : bin'[k] = bin[k]
      /\ sweep' \in Sweeps /\ sweep'.step = "leftovers"
  <2>1. bin \in [Archives -> Directories \union {Nothing}] /\ sweep \in Sweeps
    BY DEF IndInv, TypeOK
  <2>2. sweep' \in Sweeps /\ sweep'.step = "leftovers"
    BY <1>1, <2>1 DEF Sweeps
  <2>3. QED
    BY <1>1, <2>1, <2>2
<1>3. TypeOK'
  <2>1. astray' \subseteq Archives
    BY <1>1 DEF IndInv, TypeOK
  <2>2. QED
    BY <1>1, <1>2, <2>1 DEF IndInv, TypeOK, library
<1>4. Kept' \subseteq Archives /\ (i \in Kept' => ~reclaimed \/ ~Holds(i))
  BY <1>1 DEF Kept
<1>5. \A k \in Kept' : HeldSame(k) /\ inventory'[k] = inventory[k]
  BY <1>1, <1>2, <1>4 DEF HeldSame, InBin, Holds
<1>6. \A k \in Archives, n \in Names :
        InBin(k, n)' => InBin(k, n) /\ bin'[k].payload[n] = bin[k].payload[n]
  BY <1>2 DEF InBin
<1>7. SweepKnows'
  BY <1>2 DEF SweepKnows
<1>8. StartupKnows'
  BY <1>1, SweepRuns, StartupKnowsStill
<1>9. purged \subseteq purged' /\ astray \subseteq astray'
  BY <1>1
<1>10. QED
  BY <1>1, <1>3, <1>5, <1>6, <1>7, <1>8, <1>9, Swept

\* Directories grow old.
LEMMA DayPassesKept ==
  ASSUME IndInv, DayPasses
  PROVE  IndInv'
<1>1. ASSUME NEW i \in Archives
      PROVE  /\ bin'[i] \in Directories \union {Nothing} /\ (bin'[i] = Nothing <=> bin[i] = Nothing)
             /\ bin[i] # Nothing => bin'[i].payload = bin[i].payload /\ bin'[i].meta = bin[i].meta
  <2>1. bin[i] \in Directories \union {Nothing}
    BY DEF IndInv, TypeOK
  <2>2. bin'[i] = IF bin[i] = Nothing THEN Nothing ELSE [bin[i] EXCEPT !.old = TRUE]
    BY DEF DayPasses
  <2>3. CASE bin[i] = Nothing
    BY <2>2, <2>3
  <2>4. CASE bin[i] # Nothing
    <3> DEFINE d == [bin[i] EXCEPT !.old = TRUE]
    <3>1. d \in Directories /\ d.payload = bin[i].payload /\ d.meta = bin[i].meta
      BY <2>1, <2>4, OldDirectory
    <3>2. bin'[i] = d
      BY <2>2, <2>4
    <3> HIDE DEF d
    <3>3. QED
      BY <2>4, <3>1, <3>2
  <2>5. QED
    BY <2>3, <2>4
<1>2. bin' \in [Archives -> Directories \union {Nothing}]
  <2>1. DOMAIN bin' = Archives /\ bin' = [i \in Archives |-> bin'[i]]
    BY DEF DayPasses
  <2>2. QED
    BY <1>1, <2>1
<1>3. TypeOK'
  BY <1>2 DEF IndInv, TypeOK, DayPasses, library, history
<1>4. Kept' = Kept /\ Kept \subseteq Archives
  BY DEF Kept, DayPasses, history
<1>5. \A i \in Kept' : HeldSame(i) /\ inventory'[i] = inventory[i]
  BY <1>1, <1>4 DEF HeldSame, InBin, Holds, DayPasses
<1>6. \A k \in Archives, n \in Names :
        InBin(k, n)' => InBin(k, n) /\ bin'[k].payload[n] = bin[k].payload[n]
  BY <1>1 DEF InBin
<1>7. SweepKnows'
  BY DEF SweepKnows, IndInv, DayPasses, history
<1>8. StartupKnows'
  BY StartupKnowsStill DEF DayPasses, Up
<1>9. UNCHANGED <<library, task, holders, loose, purged, astray, boot>>
  BY DEF DayPasses, history
<1>10. QED
  BY <1>3, <1>5, <1>6, <1>7, <1>8, <1>9, Swept

\* Whatever the sweep does preserves the invariant.
LEMMA SweepKept ==
  ASSUME IndInv, Sweep
  PROVE  IndInv'
BY ListKept, ExpireEntryKept, ListAgainKept, EndSweepKept, ExpireKept, ReclaimKept DEF Sweep

-----------------------------------------------------------------------------
(* Users and the watcher *)

\* A copy has a name that nothing speaks of.
LEMMA CopyKept ==
  ASSUME IndInv, NEW i \in Archives, NEW n \in Names, Copy(i, n)
  PROVE  IndInv'
<1>0. /\ disk[n] = Nothing /\ disk' = [disk EXCEPT ![n] = i]
      /\ \A k \in Archives : Exists(k) => record[k].file # n
      /\ \A c \in Callers : task[c].dest # n /\ (task[c].entry # Nothing => task[c].entry.path # n)
      /\ UNCHANGED <<record, filemap, bin, inventory, holders, task, sweep, boot, loose, purged, astray>>
  BY DEF Copy, OnDisk, Path, history
<1>1. /\ disk' \in [Names -> Bytes] /\ disk'[n] = i
      /\ \A m \in Names \ {n} : disk'[m] = disk[m]
      /\ \A k \in Archives, m \in Names : disk[m] = k => disk'[m] = k
  BY <1>0 DEF IndInv, TypeOK, Bytes
<1>2. TypeOK'
  BY <1>0, <1>1 DEF IndInv, TypeOK
<1>3. Kept' = Kept /\ Kept \subseteq Archives
  BY <1>0 DEF Kept
<1>4. ASSUME NEW k \in Archives
      PROVE  /\ Exists(k)' <=> Exists(k)
             /\ InLibrary(k)' <=> InLibrary(k)
             /\ InTheBin(k)' <=> InTheBin(k)
  <2>1. Exists(k) => record[k].file \in Names \ {n}
    BY <1>0, RecordFields DEF IndInv, TypeOK, Exists
  <2>2. QED
    BY <1>0, <1>1, <2>1 DEF Exists, InLibrary, InTheBin
<1>5. ArchivesAreFine'
  <2>1. ASSUME NEW k \in Kept
        PROVE  ArchiveIsFine(k)'
    <3>1. ArchiveIsFine(k) /\ k \in Archives
      BY <1>3, <2>1 DEF IndInv, ArchivesAreFine
    <3>2. /\ Up' <=> Up
          /\ Unsettled(k)' <=> Unsettled(k)
          /\ Half(k)' <=> Half(k)
          /\ Journalled(k)' <=> Journalled(k)
          /\ Holds(k)' <=> Holds(k)
      BY <1>0 DEF Up, Unsettled, BootAt, Half, Exists, Journalled, Holds, InBin
    <3>3. \A steps : Busy(k, steps)' <=> Busy(k, steps)
      BY <1>0 DEF Busy, Id
    <3>4. RecordIsTrue(k)'
      BY <1>0, <1>4, <3>1, <3>2, <3>3 DEF ArchiveIsFine, RecordIsTrue
    <3>5. RestIsFound(k)'
      BY <1>0, <1>1, <1>4, <3>1, <3>2, <3>3 DEF ArchiveIsFine, RestIsFound
    <3>6. RecoveredIsUnmapped(k)' /\ BinIsTraceable(k)' /\ SettledIsListed(k)'
      BY <1>0, <1>4, <3>1, <3>2 DEF ArchiveIsFine, RecoveredIsUnmapped, BinIsTraceable, SettledIsListed
    <3>7. QED
      BY <3>4, <3>5, <3>6 DEF ArchiveIsFine
  <2>2. QED
    BY <1>3, <2>1 DEF ArchivesAreFine
<1>6. ASSUME NEW c \in Callers
      PROVE  /\ task[c].step \in Moving \union Stashed => task[c].entry.path \in Names \ {n}
             /\ task[c].step \in AtName => task[c].dest \in Names \ {n}
  <2>1. RequestHas(c) /\ task[c] \in Tasks
    BY DEF IndInv, RequestsKnow, TypeOK
  <2>2. QED
    BY <1>0, <2>1, TaskFields, EntryFields DEF RequestHas
<1>7. RequestsKnow'
  <2>1. ASSUME NEW c \in Callers
        PROVE  RequestHas(c)'
    BY <1>0, <2>1, HasStill
  <2>2. ASSUME NEW c \in Callers, Id(c) \in Kept
        PROVE  RequestKnows(c)'
    <3>1. RequestKnows(c) /\ task'[c] = task[c]
      BY <1>0, <2>2 DEF IndInv, RequestsKnow
    <3>2. PICK k \in Archives : k = Id(c)
      BY <1>3, <2>2
    <3>3. task[c].step \in Moving \union Stashed =>
            (disk'[task[c].entry.path] = k <=> disk[task[c].entry.path] = k)
      BY <1>1, <1>6
    <3>4. task[c].step \in {"save", "return"} => disk'[task[c].dest] = disk[task[c].dest]
      BY <1>1, <1>6 DEF AtName
    <3>5. QED
      BY <1>0, <1>4, <3>1, <3>2, <3>3, <3>4 DEF RequestKnows, Id, Moving
  <2>3. QED
    BY <1>0, <1>3, <2>1, <2>2 DEF RequestsKnow, Id
<1>8. DestinationsAreTrue'
  <2>1. ASSUME NEW c \in Callers, NEW k \in Kept
        PROVE  DestinationIsTrue(c, k)'
    <3>1. DestinationIsTrue(c, k)
      BY <2>1 DEF IndInv, DestinationsAreTrue
    <3>2. Busy(k, Restoring)' <=> Busy(k, Restoring)
      BY <1>0 DEF Busy, Id
    <3>3. task[c].step \in {"save", "map"} => disk'[task[c].dest] = disk[task[c].dest]
      BY <1>1, <1>6 DEF AtName
    <3>4. QED
      BY <1>0, <3>1, <3>2, <3>3 DEF DestinationIsTrue, Exists, Id
  <2>2. QED
    BY <1>3, <2>1 DEF DestinationsAreTrue
<1>9. BinIsPure'
  BY <1>0 DEF IndInv, BinIsPure, InBin
<1>10. StartupKnows' /\ SweepKnows'
  BY <1>0 DEF IndInv, StartupKnows, SweepKnows, Up, BootAt, Exists
<1>11. QED
  BY <1>2, <1>5, <1>7, <1>8, <1>9, <1>10 DEF IndInv

\* What the watcher ingests gets a record that is true, or takes one over.
LEMMA NoticeKept ==
  ASSUME IndInv, NEW n \in Names, Notice(n)
  PROVE  IndInv'
<1>0. /\ Up /\ filemap' = [filemap EXCEPT ![n] = disk[n]]
      /\ UNCHANGED <<disk, bin, inventory, holders, task, sweep, boot, loose, purged>>
  BY DEF Notice
<1>1. PICK i \in Archives : i = disk[n]
  BY DEF Notice, OnDisk, IndInv, TypeOK, Bytes
<1> DEFINE was == filemap[n]
           rekeyed == was # Nothing /\ Exists(was)
<1>2. /\ record' = IF rekeyed THEN [record EXCEPT ![i] = record[was], ![was] = Nothing]
                   ELSE IF Exists(i) THEN record ELSE [record EXCEPT ![i] = Record(n, "new")]
      /\ astray' = IF rekeyed THEN astray \union {was, i} ELSE astray
  BY <1>1 DEF Notice
<1>3. was \in Archives \union {Nothing} /\ record \in [Archives -> Records \union {Nothing}]
  BY DEF IndInv, TypeOK, Bytes
<1>4. Record(n, "new") \in Records /\ Record(n, "new").file = n /\ Record(n, "new") # Nothing
  BY RecordType DEF Metas
<1> HIDE DEF was
<1>5. /\ record' \in [Archives -> Records \union {Nothing}]
      /\ astray' \subseteq Archives /\ astray \subseteq astray'
      /\ \A k \in Archives : k \in astray' \/ record'[k] = record[k]
                              \/ (k = i /\ ~Exists(k) /\ record'[k] = Record(n, "new"))
  <2>1. astray \subseteq Archives
    BY DEF IndInv, TypeOK
  <2>2. CASE rekeyed
    BY <1>2, <1>3, <2>1, <2>2
  <2>3. CASE ~rekeyed /\ Exists(i)
    BY <1>2, <1>3, <2>1, <2>3
  <2>4. CASE ~rekeyed /\ ~Exists(i)
    <3>1. record' = [record EXCEPT ![i] = Record(n, "new")] /\ astray' = astray
      BY <1>2, <2>4
    <3>2. QED
      BY <1>3, <1>4, <2>1, <2>4, <3>1
  <2>5. QED
    BY <2>2, <2>3, <2>4
<1>6. TypeOK'
  <2>1. filemap' \in [Names -> Bytes]
    BY <1>0 DEF IndInv, TypeOK
  <2>2. QED
    BY <1>0, <1>5, <2>1 DEF IndInv, TypeOK
<1>7. Kept' \subseteq Kept /\ Kept' \subseteq Archives /\ (\A k \in Kept' : k \notin astray')
  BY <1>0, <1>5 DEF Kept
<1>8. \A k \in Archives : k # i \/ Exists(k) => NotMapped(k)
  BY <1>0, <1>1 DEF NotMapped, IndInv, TypeOK
<1>9. \A k \in Archives : record'[k] = record[k] => Same(k)
  BY <1>0 DEF Same
<1>10. \A k \in Kept' : record'[k] # record[k] =>
          k = i /\ ~Exists(k) /\ record'[k] = Record(n, "new") /\ Exists(k)' /\ InLibrary(k)'
  BY <1>0, <1>1, <1>4, <1>5, <1>7 DEF Exists, InLibrary
<1>11. ArchivesAreFine'
  <2>1. ASSUME NEW k \in Kept', record'[k] = record[k], k # i \/ Exists(k)
        PROVE  ArchiveIsFine(k)'
    <3>1. Same(k) /\ NotMapped(k) /\ StillBusy(k)
      BY <1>0, <1>7, <1>8, <1>9, <2>1 DEF StillBusy, Id
    <3>2. QED
      BY <1>0, <1>7, <2>1, <3>1, OtherArchive
  <2>2. ASSUME NEW k \in Kept', record'[k] # record[k]
        PROVE  ArchiveIsFine(k)'
    BY <1>0, <1>10, <2>2, FineWithRecord DEF Up
  <2>3. ASSUME i \in Kept', ~Exists(i)
        PROVE  record'[i] # record[i]
    BY <1>2, <1>3, <1>4, <1>7, <2>3 DEF Exists
  <2>4. QED
    BY <2>1, <2>2, <2>3 DEF ArchivesAreFine
<1>12. RequestsKnow'
  <2>1. ASSUME NEW c \in Callers
        PROVE  RequestHas(c)'
    BY <1>0, <1>5, <2>1, HasStill
  <2>2. ASSUME NEW c \in Callers, Id(c) \in Kept', record'[Id(c)] = record[Id(c)]
        PROVE  RequestKnows(c)'
    <3>1. Same(Id(c)) /\ Id(c)' = Id(c)
      BY <1>0, <1>7, <1>9, <2>2 DEF Id
    <3>2. QED
      BY <1>0, <1>5, <2>2, <3>1, OtherRequest
  <2>3. ASSUME NEW c \in Callers, Id(c) \in Kept', record'[Id(c)] # record[Id(c)]
        PROVE  RequestKnows(c)'
    <3>1. RequestKnows(c) /\ task'[c] = task[c]
      BY <1>0, <1>7, <2>3 DEF IndInv, RequestsKnow
    <3>2. PICK k \in Kept' : k = Id(c)
      BY <2>3
    <3>3. ~Exists(k) /\ InLibrary(k)'
      BY <1>10, <2>3, <3>2
    <3>4. QED
      BY <1>0, <3>1, <3>2, <3>3 DEF RequestKnows, Id, InTheBin, Moving, Restoring
  <2>4. QED
    BY <1>0, <2>1, <2>2, <2>3 DEF RequestsKnow, Id
<1>13. DestinationsAreTrue'
  <2>1. ASSUME NEW c \in Callers, NEW k \in Kept'
        PROVE  DestinationIsTrue(c, k)'
    <3>1. DestinationIsTrue(c, k)
      BY <1>7, <2>1 DEF IndInv, DestinationsAreTrue
    <3>2. Busy(k, Restoring)' <=> Busy(k, Restoring)
      BY <1>0 DEF Busy, Id
    <3>3. Exists(k) => record'[k] = record[k]
      BY <1>10, <2>1
    <3>4. QED
      BY <1>0, <3>1, <3>2, <3>3 DEF DestinationIsTrue, Exists, Id
  <2>2. QED
    BY <2>1 DEF DestinationsAreTrue
<1>14. BinIsPure'
  BY <1>0, <1>5 DEF IndInv, BinIsPure, InBin
<1>15. StartupKnows' /\ SweepKnows'
  BY <1>0, QuietStartup
<1>16. QED
  BY <1>6, <1>11, <1>12, <1>13, <1>14, <1>15 DEF IndInv

-----------------------------------------------------------------------------
(* Crash and startup *)

\* After a crash no request is at work, and startup will see to every directory.
LEMMA CrashKept ==
  ASSUME IndInv, Crash
  PROVE  IndInv'
<1>0. /\ boot' = [Running EXCEPT !.step = "down"] /\ task' = [c \in Callers |-> Idle]
      /\ holders' = [k \in Names \union Archives |-> {}] /\ sweep' = NoSweep /\ loose' = FALSE
      /\ UNCHANGED <<disk, record, filemap, bin, inventory, purged, astray>>
  BY DEF Crash, store, library
<1>1. boot'.step = "down" /\ boot' \in Boots /\ sweep' \in Sweeps
  BY <1>0 DEF Running, Boots, Bytes, NoSweep, Sweeps
<1>2. TypeOK'
  BY <1>0, <1>1, IdleType DEF IndInv, TypeOK
<1>3. ArchivesAreFine'
  <2>1. ASSUME NEW i \in Kept
        PROVE  ArchiveIsFine(i)'
    <3>1. ArchiveIsFine(i)
      BY <2>1 DEF IndInv, ArchivesAreFine
    <3>2. Unsettled(i)' /\ ~Up' /\ boot'.step = "down"
      BY <1>1 DEF Unsettled, BootAt, Up
    <3>3. RecordIsTrue(i)' /\ RestIsFound(i)'
      BY <1>0, <3>1, <3>2
      DEF ArchiveIsFine, RecordIsTrue, RestIsFound, Exists, InLibrary, InTheBin, Half, Journalled
    <3>4. BinIsTraceable(i)'
      BY <1>0, <3>1 DEF ArchiveIsFine, BinIsTraceable, Holds, InBin, Exists
    <3>5. QED
      BY <3>2, <3>3, <3>4 DEF ArchiveIsFine, RecoveredIsUnmapped, SettledIsListed, Finishing
  <2>2. QED
    BY <1>0, <2>1 DEF ArchivesAreFine, Kept
<1>4. BinIsPure'
  BY <1>0 DEF IndInv, BinIsPure, InBin
<1>5. StartupKnows' /\ SweepKnows'
  BY <1>0, <1>1 DEF StartupKnows, SweepKnows, BootAt, Finishing, NoSweep
<1>6. \A c \in Callers : task'[c] = Idle
  BY <1>0
<1>7. RequestsKnow' /\ DestinationsAreTrue'
  <2>1. ASSUME NEW c \in Callers
        PROVE  RequestHas(c)' /\ Id(c)' \notin Kept' /\ \A i : DestinationIsTrue(c, i)'
    BY <1>6, IdleHas, IdleType DEF Id, Kept, DestinationIsTrue
  <2>2. QED
    BY <2>1 DEF RequestsKnow, DestinationsAreTrue
<1>8. QED
  BY <1>2, <1>3, <1>4, <1>5, <1>7 DEF IndInv

\* A step of startup preserves the invariant if it does right by the archives.
LEMMA Booted ==
  ASSUME IndInv, TypeOK', ~Up, UNCHANGED <<task, holders>>,
         ArchivesAreFine', BinIsPure', StartupKnows', SweepKnows'
  PROVE  IndInv'
<1>1. \A c \in Callers : task'[c] = Idle
  BY DEF IndInv, StartupKnows
<1>2. RequestsKnow' /\ DestinationsAreTrue'
  <2>1. ASSUME NEW c \in Callers
        PROVE  RequestHas(c)' /\ Id(c)' \notin Kept' /\ \A i : DestinationIsTrue(c, i)'
    BY <1>1, IdleHas, IdleType DEF Id, Kept, DestinationIsTrue
  <2>2. QED
    BY <2>1 DEF RequestsKnow, DestinationsAreTrue
<1>3. QED
  BY <1>2 DEF IndInv

\* An archive, while the program is not up.
LEMMA FineAtStartup ==
  ASSUME IndInv, ~Up, NEW i \in Kept
  PROVE  /\ Exists(i) /\ ~InLibrary(i) =>
              Half(i) /\ (Unsettled(i) \/ (loose /\ (InTheBin(i) \/ Journalled(i))))
         /\ ~Exists(i) =>
              InTheBin(i) \/ (\E n \in Names : disk[n] = i) \/ (Journalled(i) /\ (loose \/ Unsettled(i)))
         /\ Holds(i) => inventory[i] # Nothing \/ bin[i].meta # Nothing \/ Exists(i)
         /\ SettledIsListed(i)
<1>1. ArchiveIsFine(i)
  BY DEF IndInv, ArchivesAreFine
<1>2. ~Busy(i, Stashed)
  BY IdleType DEF IndInv, StartupKnows, Busy, Stashed
<1>3. QED
  BY <1>1, <1>2 DEF ArchiveIsFine, RecordIsTrue, RestIsFound, BinIsTraceable

\* The same after a step, to be shown.
LEMMA StaysFineAtStartup ==
  ASSUME ~Up', NEW i,
         Exists(i)' /\ ~InLibrary(i)' =>
           Half(i)' /\ (Unsettled(i)' \/ (loose' /\ (InTheBin(i)' \/ Journalled(i)'))),
         ~Exists(i)' =>
           InTheBin(i)' \/ (\E n \in Names : disk'[n] = i) \/ (Journalled(i)' /\ (loose' \/ Unsettled(i)')),
         Holds(i)' => inventory'[i] # Nothing \/ bin'[i].meta # Nothing \/ Exists(i)',
         SettledIsListed(i)'
  PROVE  ArchiveIsFine(i)'
BY DEF ArchiveIsFine, RecordIsTrue, RestIsFound, RecoveredIsUnmapped, BinIsTraceable

\* Startup lists the directories.
LEMMA BeginKept ==
  ASSUME IndInv, Begin
  PROVE  IndInv'
<1>0. /\ boot' = [step |-> "reconcile", id |-> Nothing, left |-> {i \in Archives : bin[i] # Nothing}]
      /\ boot.step = "down"
      /\ UNCHANGED <<disk, record, filemap, bin, inventory, holders, task, sweep, loose, purged, astray>>
  BY DEF Begin, BootAt, store, library, history
<1>1. /\ boot'.step = "reconcile" /\ boot'.left = {i \in Archives : bin[i] # Nothing} /\ boot' \in Boots
      /\ ~Up /\ ~Up'
  BY <1>0 DEF Boots, Bytes, Up
<1>2. TypeOK'
  BY <1>0, <1>1 DEF IndInv, TypeOK
<1>3. ArchivesAreFine'
  <2>1. ASSUME NEW i \in Kept
        PROVE  ArchiveIsFine(i)'
    <3>1. /\ Exists(i)' <=> Exists(i)
          /\ InLibrary(i)' <=> InLibrary(i)
          /\ Half(i)' <=> Half(i)
          /\ InTheBin(i)' <=> InTheBin(i)
          /\ Journalled(i)' <=> Journalled(i)
          /\ Holds(i)' <=> Holds(i)
      BY <1>0 DEF Exists, InLibrary, Half, InTheBin, Journalled, Holds, InBin
    <3>2. bin[i] # Nothing => Unsettled(i)'
      BY <1>1, <2>1 DEF Unsettled, BootAt, Kept
    <3>3. (Half(i) \/ Journalled(i) \/ Holds(i)) => bin[i] # Nothing
      BY DEF Half, Journalled, Holds, InBin
    <3>4. SettledIsListed(i)'
      BY <3>1, <3>2, <3>3 DEF SettledIsListed
    <3>5. QED
      BY <1>0, <1>1, <2>1, <3>1, <3>2, <3>3, <3>4, FineAtStartup, StaysFineAtStartup
  <2>2. QED
    BY <1>0, <2>1 DEF ArchivesAreFine, Kept
<1>4. BinIsPure'
  BY <1>0 DEF IndInv, BinIsPure, InBin
<1>5. StartupKnows' /\ SweepKnows'
  BY <1>0, <1>1 DEF IndInv, StartupKnows, SweepKnows, BootAt, Finishing, Up
<1>6. QED
  BY <1>0, <1>1, <1>2, <1>3, <1>4, <1>5, Booted

\* And takes them one by one.
LEMMA ReconcileKept ==
  ASSUME IndInv, NEW i \in Archives, Reconcile(i)
  PROVE  IndInv'
<1> DEFINE st == IF inventory[i] # Nothing
                 THEN IF Exists(i) THEN "drop" ELSE "reconcile"
                 ELSE IF bin[i].meta # Nothing THEN "put"
                 ELSE IF Exists(i) THEN "meta" ELSE "reconcile"
<1>0. /\ boot' = [step |-> st, id |-> i, left |-> boot.left \ {i}]
      /\ boot.step = "reconcile" /\ i \in boot.left /\ boot \in Boots
      /\ UNCHANGED <<disk, record, filemap, bin, inventory, holders, task, sweep, loose, purged, astray>>
  BY DEF Reconcile, BootAt, store, library, history, IndInv, TypeOK
<1>a. st \in {"reconcile", "drop", "put", "meta"}
  OBVIOUS
<1>b. /\ st = "drop" => inventory[i] # Nothing /\ Exists(i)
      /\ st = "put" => inventory[i] = Nothing /\ bin[i].meta # Nothing
      /\ st = "meta" => inventory[i] = Nothing /\ bin[i].meta = Nothing /\ Exists(i)
      /\ st = "reconcile" => ~Exists(i) /\ (inventory[i] # Nothing \/ bin[i].meta = Nothing)
  OBVIOUS
<1> HIDE DEF st
<1>1. /\ boot'.step = st /\ boot'.id = i /\ boot'.left = boot.left \ {i} /\ boot' \in Boots
      /\ ~Up /\ ~Up'
  BY <1>0, <1>a DEF Boots, Bytes, Up
<1>2. TypeOK'
  BY <1>0, <1>1 DEF IndInv, TypeOK
<1>3. ArchivesAreFine'
  <2>1. ASSUME NEW k \in Kept
        PROVE  ArchiveIsFine(k)'
    <3>1. /\ Exists(k)' <=> Exists(k)
          /\ InLibrary(k)' <=> InLibrary(k)
          /\ Half(k)' <=> Half(k)
          /\ InTheBin(k)' <=> InTheBin(k)
          /\ Journalled(k)' <=> Journalled(k)
          /\ Holds(k)' <=> Holds(k)
      BY <1>0 DEF Exists, InLibrary, Half, InTheBin, Journalled, Holds, InBin
    <3>2. k # i \/ st # "reconcile" => (Unsettled(k) => Unsettled(k)')
      BY <1>0, <1>1, <1>a DEF Unsettled, BootAt, Finishing
    <3>3. SettledIsListed(k)'
      <4>1. CASE k # i \/ st # "reconcile"
        BY <1>0, <1>1, <2>1, <3>1, <3>2, <4>1, FineAtStartup DEF SettledIsListed
      <4>2. CASE k = i /\ st = "reconcile"
        BY <1>0, <1>1, <1>b, <2>1, <3>1, <4>2, FineAtStartup DEF SettledIsListed
      <4>3. QED
        BY <4>1, <4>2
    <3>4. k = i /\ st = "reconcile" => ~Exists(k) /\ ~Journalled(k)
      BY <1>b DEF Journalled
    <3>5. QED
      BY <1>0, <1>1, <2>1, <3>1, <3>2, <3>3, <3>4, FineAtStartup, StaysFineAtStartup
  <2>2. QED
    BY <1>0, <2>1 DEF ArchivesAreFine, Kept
<1>4. BinIsPure'
  BY <1>0 DEF IndInv, BinIsPure, InBin
<1>5. StartupKnows' /\ SweepKnows'
  <2>1. SweepKnows'
    BY <1>0 DEF IndInv, SweepKnows
  <2>2. StartupKnows /\ bin[i] # Nothing
    BY <1>0 DEF IndInv, StartupKnows, BootAt
  <2>3. QED
    BY <1>0, <1>1, <1>a, <1>b, <2>1, <2>2 DEF StartupKnows, BootAt, Finishing, Up, Exists
<1>6. QED
  BY <1>0, <1>1, <1>2, <1>3, <1>4, <1>5, Booted

\* While startup is at one archive's directory, the others stay fine.
LEMMA OtherAtStartup ==
  ASSUME IndInv, boot.step \in Finishing, boot'.step \in Finishing \union {"reconcile"},
         boot'.left = boot.left, boot'.id = boot.id, loose => loose',
         NEW k \in Kept, k # boot.id, Same(k)
  PROVE  ArchiveIsFine(k)'
<1>1. ~Up /\ ~Up'
  BY DEF Up, Finishing
<1>2. Exists(k) => record[k].file \in Names
  BY RecordFields DEF IndInv, TypeOK, Exists, Kept
<1>3. /\ Exists(k)' <=> Exists(k)
      /\ Exists(k) => (InLibrary(k)' <=> InLibrary(k))
      /\ Half(k)' <=> Half(k)
      /\ InTheBin(k)' <=> InTheBin(k)
      /\ Journalled(k)' <=> Journalled(k)
      /\ Holds(k)' <=> Holds(k)
  BY <1>2 DEF Same, Exists, InLibrary, Half, InTheBin, Journalled, Holds, InBin
<1>4. Unsettled(k)' <=> Unsettled(k)
  BY DEF Unsettled, BootAt, Finishing
<1>5. SettledIsListed(k)'
  BY <1>1, <1>3, <1>4, FineAtStartup DEF SettledIsListed, Same
<1>6. QED
  BY <1>1, <1>3, <1>4, <1>5, FineAtStartup, StaysFineAtStartup DEF Same

\* A meta.json is made from the record.
LEMMA RecoverMetaKept ==
  ASSUME IndInv, RecoverMeta
  PROVE  IndInv'
<1>0. /\ boot.step = "meta" /\ boot' = [boot EXCEPT !.step = "put"] /\ boot \in Boots
      /\ UNCHANGED <<disk, record, filemap, inventory, holders, task, sweep, loose, purged, astray>>
  BY DEF RecoverMeta, BootAt, BootGoto, library, history, IndInv, TypeOK
<1>1. /\ boot'.step = "put" /\ boot'.id = boot.id /\ boot'.left = boot.left /\ boot' \in Boots
      /\ ~Up /\ ~Up'
  BY <1>0 DEF Boots, Up
<1>2. PICK i \in Archives : /\ i = boot.id /\ Exists(i) /\ bin[i] # Nothing /\ inventory[i] = Nothing
                            /\ i \notin boot.left
  BY <1>0 DEF IndInv, StartupKnows, BootAt, Finishing
<1> DEFINE e == [path |-> record[i].file, meta |-> record[i].meta, patch |-> TRUE]
<1>3. /\ bin' \in [Archives -> Directories \union {Nothing}] /\ bin'[i] # Nothing /\ bin'[i].meta # Nothing
      /\ bin'[i].payload = bin[i].payload
      /\ \A k \in Archives \ {i} : bin'[k] = bin[k]
  <2> DEFINE d == [bin[i] EXCEPT !.meta = e]
  <2>1. e \in Entries
    <3>1. record[i] \in Records
      BY <1>2 DEF IndInv, TypeOK, Exists
    <3>2. record[i].file \in Names /\ record[i].meta \in Metas
      BY <3>1, RecordFields
    <3>3. QED
      BY <3>2 DEF Entries
  <2> HIDE DEF e
  <2>2. bin \in [Archives -> Directories \union {Nothing}] /\ bin[i] \in Directories
    BY <1>2 DEF IndInv, TypeOK
  <2>3. d \in Directories /\ d.meta = e /\ d.payload = bin[i].payload
    BY <2>1, <2>2, MetaDirectory
  <2>4. bin' = [bin EXCEPT ![i] = d]
    BY <1>2, <2>2 DEF RecoverMeta, e
  <2> HIDE DEF d
  <2>5. d # Nothing /\ e # Nothing
    BY <2>1, <2>3
  <2>6. QED
    BY <2>2, <2>3, <2>4, <2>5
<1>4. TypeOK'
  BY <1>0, <1>1, <1>3 DEF IndInv, TypeOK
<1>5. Kept' = Kept /\ Kept \subseteq Archives
  BY <1>0 DEF Kept
<1>6. ArchivesAreFine'
  <2>1. ASSUME NEW k \in Kept, k # i
        PROVE  ArchiveIsFine(k)'
    <3>1. Same(k)
      BY <1>0, <1>3, <1>5, <2>1 DEF Same
    <3>2. QED
      BY <1>0, <1>1, <1>2, <2>1, <3>1, OtherAtStartup DEF Finishing
  <2>2. ASSUME i \in Kept
        PROVE  ArchiveIsFine(i)'
    <3>1. /\ Exists(i)'
          /\ InLibrary(i)' <=> InLibrary(i)
          /\ Half(i) => Half(i)'
      BY <1>0, <1>2, <1>3 DEF Exists, InLibrary, Half
    <3>2. Unsettled(i)'
      BY <1>1, <1>2 DEF Unsettled, Finishing
    <3>3. QED
      BY <1>1, <1>2, <2>2, <3>1, <3>2, FineAtStartup, StaysFineAtStartup DEF SettledIsListed
  <2>3. QED
    BY <1>5, <2>1, <2>2 DEF ArchivesAreFine
<1>7. BinIsPure'
  <2>1. ASSUME NEW k \in Archives, NEW n \in Names, InBin(k, n)'
        PROVE  (bin'[k].payload[n]) \in {k} \union astray'
    BY <1>0, <1>2, <1>3, <2>1 DEF IndInv, BinIsPure, InBin
  <2>2. QED
    BY <2>1 DEF BinIsPure
<1>8. StartupKnows' /\ SweepKnows'
  <2>1. SweepKnows'
    BY <1>0 DEF IndInv, SweepKnows
  <2>2. StartupKnows
    BY DEF IndInv
  <2>3. boot'.left \subseteq Archives
    BY <1>0, <1>1 DEF Boots
  <2>4. \A k \in boot'.left : bin'[k] # Nothing
    BY <1>0, <1>1, <1>3, <2>2, <2>3 DEF StartupKnows, BootAt, Finishing
  <2>5. QED
    BY <1>0, <1>1, <1>2, <1>3, <2>1, <2>2, <2>4 DEF StartupKnows, BootAt, Finishing, Up
<1>9. QED
  BY <1>0, <1>1, <1>4, <1>6, <1>7, <1>8, Booted

\* An entry is made from the meta.json.
LEMMA RecoverEntryKept ==
  ASSUME IndInv, RecoverEntry
  PROVE  IndInv'
<1> DEFINE st == IF Exists(boot.id) THEN "drop" ELSE "reconcile"
<1>0. /\ boot.step = "put" /\ boot' = [boot EXCEPT !.step = st] /\ boot \in Boots
      /\ inventory' = [inventory EXCEPT ![boot.id] = bin[boot.id].meta]
      /\ UNCHANGED <<disk, record, filemap, bin, holders, task, sweep, loose, purged, astray>>
  BY DEF RecoverEntry, BootAt, BootGoto, library, history, IndInv, TypeOK
<1>a. st \in {"drop", "reconcile"} /\ (st = "drop" <=> Exists(boot.id))
  OBVIOUS
<1> HIDE DEF st
<1>1. /\ boot'.step = st /\ boot'.id = boot.id /\ boot'.left = boot.left /\ boot' \in Boots
      /\ ~Up /\ ~Up'
  BY <1>0, <1>a DEF Boots, Up
<1>2. PICK i \in Archives : /\ i = boot.id /\ bin[i] # Nothing /\ inventory[i] = Nothing
                            /\ bin[i].meta # Nothing /\ i \notin boot.left
  BY <1>0 DEF IndInv, StartupKnows, BootAt, Finishing
<1>3. /\ inventory' \in [Archives -> Entries \union {Nothing}]
      /\ inventory'[i] = bin[i].meta
      /\ \A k \in Archives \ {i} : inventory'[k] = inventory[k]
  <2>1. bin[i].meta \in Entries
    BY <1>2, DirectoryFields DEF IndInv, TypeOK
  <2>2. inventory' = [inventory EXCEPT ![i] = bin[i].meta] /\ inventory \in [Archives -> Entries \union {Nothing}]
    BY <1>0, <1>2 DEF IndInv, TypeOK
  <2>3. QED
    BY <2>1, <2>2
<1>4. TypeOK'
  BY <1>0, <1>1, <1>3 DEF IndInv, TypeOK
<1>5. Kept' = Kept /\ Kept \subseteq Archives
  BY <1>0 DEF Kept
<1>6. ArchivesAreFine'
  <2>1. ASSUME NEW k \in Kept, k # i
        PROVE  ArchiveIsFine(k)'
    <3>1. Same(k)
      BY <1>0, <1>3, <1>5, <2>1 DEF Same
    <3>2. QED
      BY <1>0, <1>a, <1>1, <1>2, <2>1, <3>1, OtherAtStartup DEF Finishing
  <2>2. ASSUME i \in Kept
        PROVE  ArchiveIsFine(i)'
    <3>1. /\ Exists(i)' <=> Exists(i)
          /\ InLibrary(i)' <=> InLibrary(i)
          /\ Half(i) => Half(i)'
          /\ Journalled(i) => InTheBin(i)'
          /\ ~InTheBin(i) /\ inventory'[i] # Nothing
      BY <1>0, <1>2, <1>3 DEF Exists, InLibrary, Half, Journalled, InTheBin
    <3>2. Exists(i) => Unsettled(i)'
      BY <1>a, <1>1, <1>2 DEF Unsettled, Finishing
    <3>3. SettledIsListed(i)'
      BY <3>1, <3>2 DEF SettledIsListed
    <3>4. QED
      BY <1>0, <1>1, <1>2, <2>2, <3>1, <3>2, <3>3, FineAtStartup, StaysFineAtStartup
  <2>3. QED
    BY <1>5, <2>1, <2>2 DEF ArchivesAreFine
<1>7. BinIsPure'
  BY <1>0 DEF IndInv, BinIsPure, InBin
<1>8. StartupKnows' /\ SweepKnows'
  <2>1. SweepKnows'
    BY <1>0 DEF IndInv, SweepKnows
  <2>2. StartupKnows
    BY DEF IndInv
  <2>3. QED
    BY <1>0, <1>a, <1>1, <1>2, <1>3, <2>1, <2>2 DEF StartupKnows, BootAt, Finishing, Up, Exists
<1>9. QED
  BY <1>0, <1>1, <1>4, <1>6, <1>7, <1>8, Booted

\* A file that is in the bin and not mislaid is where the entry says.
LEMMA NotMislaid ==
  ASSUME NEW i, NEW entry, ~Mislaid(i, entry), Holds(i)
  PROVE  entry # Nothing /\ bin[i] # Nothing /\ bin[i].payload[entry.path] = i
BY DEF Mislaid, Holds, InBin

\* What is half deleted is in the bin.
LEMMA HalfHolds ==
  ASSUME IndInv, NEW i \in Archives, Half(i)
  PROVE  Holds(i)
<1>1. record[i].file \in Names
  BY RecordFields DEF IndInv, TypeOK, Half, Exists
<1>2. QED
  BY <1>1 DEF Half, Holds, InBin

\* The record that an interrupted delete left is dropped.
LEMMA FinishDropKept ==
  ASSUME IndInv, FinishDrop
  PROVE  IndInv'
<1>0. /\ boot.step = "drop" /\ boot' = [boot EXCEPT !.step = "reconcile"] /\ boot \in Boots
      /\ record' = [record EXCEPT ![boot.id] = Nothing]
      /\ astray' = IF Mislaid(boot.id, inventory[boot.id]) THEN astray \union {boot.id} ELSE astray
      /\ UNCHANGED <<disk, filemap, bin, inventory, holders, task, sweep, loose, purged>>
  BY DEF FinishDrop, BootAt, BootGoto, IndInv, TypeOK
<1>1. /\ boot'.step = "reconcile" /\ boot'.id = boot.id /\ boot'.left = boot.left /\ boot' \in Boots
      /\ ~Up /\ ~Up'
  BY <1>0 DEF Boots, Up
<1>2. PICK i \in Archives : i = boot.id /\ Exists(i) /\ inventory[i] # Nothing
  BY <1>0 DEF IndInv, StartupKnows, BootAt, Finishing
<1>3. /\ record' \in [Archives -> Records \union {Nothing}] /\ record'[i] = Nothing
      /\ \A k \in Archives \ {i} : record'[k] = record[k]
      /\ astray \subseteq astray' /\ astray' \subseteq Archives
  BY <1>0, <1>2 DEF IndInv, TypeOK
<1>4. TypeOK'
  BY <1>0, <1>1, <1>3 DEF IndInv, TypeOK
<1>5. Kept' \subseteq Kept /\ Kept \subseteq Archives /\ (i \in Kept' => ~Mislaid(i, inventory[i]))
  BY <1>0, <1>2, <1>3 DEF Kept
<1>6. ArchivesAreFine'
  <2>1. ASSUME NEW k \in Kept', k # i
        PROVE  ArchiveIsFine(k)'
    <3>1. Same(k)
      BY <1>0, <1>3, <1>5, <2>1 DEF Same
    <3>2. QED
      BY <1>0, <1>1, <1>2, <1>5, <2>1, <3>1, OtherAtStartup DEF Finishing
  <2>2. ASSUME i \in Kept'
        PROVE  ArchiveIsFine(i)'
    <3>1. ~Exists(i)' /\ (Holds(i) => InTheBin(i)') /\ (InLibrary(i) => disk'[record[i].file] = i)
      BY <1>0, <1>2, <1>3, <1>5, <2>2, NotMislaid DEF Exists, InTheBin, InLibrary
    <3>2. Exists(i) => record[i].file \in Names
      BY RecordFields DEF IndInv, TypeOK, Exists
    <3>3. InLibrary(i) \/ Holds(i)
      BY <1>1, <1>2, <1>5, <2>2, FineAtStartup, HalfHolds
    <3>4. SettledIsListed(i)'
      BY <1>0, <1>2, <3>1 DEF SettledIsListed
    <3>5. QED
      BY <1>0, <1>1, <1>2, <3>1, <3>2, <3>3, <3>4, StaysFineAtStartup
  <2>3. QED
    BY <2>1, <2>2 DEF ArchivesAreFine
<1>7. BinIsPure'
  BY <1>0, <1>3 DEF IndInv, BinIsPure, InBin
<1>8. StartupKnows' /\ SweepKnows'
  BY <1>0, <1>1 DEF IndInv, StartupKnows, SweepKnows, BootAt, Finishing, Up
<1>9. QED
  BY <1>0, <1>1, <1>4, <1>6, <1>7, <1>8, Booted

\* A refused recovery leaves the record, which the repair will drop.
LEMMA RecoverRefusedKept ==
  ASSUME IndInv, RecoverRefused
  PROVE  IndInv'
<1> DEFINE e == IF BootAt("drop") THEN inventory[boot.id] ELSE bin[boot.id].meta
<1>0. /\ boot.step \in {"meta", "put", "drop"} /\ boot' = [boot EXCEPT !.step = "reconcile"] /\ boot \in Boots
      /\ loose' = TRUE
      /\ astray' = IF Mislaid(boot.id, e) THEN astray \union {boot.id} ELSE astray
      /\ UNCHANGED <<disk, record, filemap, bin, inventory, holders, task, sweep, purged>>
  BY DEF RecoverRefused, BootGoto, store, library, IndInv, TypeOK
<1>1. /\ boot'.step = "reconcile" /\ boot'.id = boot.id /\ boot'.left = boot.left /\ boot' \in Boots
      /\ ~Up /\ ~Up'
  BY <1>0 DEF Boots, Up
<1>2. PICK i \in Archives : i = boot.id /\ (boot.step # "drop" => inventory[i] = Nothing)
  BY <1>0 DEF IndInv, StartupKnows, BootAt, Finishing
<1>3. astray \subseteq astray' /\ astray' \subseteq Archives
  BY <1>0, <1>2 DEF IndInv, TypeOK
<1>4. TypeOK'
  BY <1>0, <1>1, <1>3 DEF IndInv, TypeOK
<1>5. Kept' \subseteq Kept /\ Kept \subseteq Archives /\ (i \in Kept' => ~Mislaid(i, e))
  BY <1>0, <1>2, <1>3 DEF Kept
<1>6. ArchivesAreFine'
  <2>1. ASSUME NEW k \in Kept', k # i
        PROVE  ArchiveIsFine(k)'
    <3>1. Same(k)
      BY <1>0 DEF Same
    <3>2. QED
      BY <1>0, <1>1, <1>2, <1>5, <2>1, <3>1, OtherAtStartup DEF Finishing
  <2>2. ASSUME i \in Kept'
        PROVE  ArchiveIsFine(i)'
    <3>1. Holds(i) => InTheBin(i) \/ Journalled(i)
      <4>1. CASE boot.step = "drop"
        BY <1>2, <1>5, <2>2, <4>1, NotMislaid DEF InTheBin, BootAt
      <4>2. CASE boot.step # "drop"
        BY <1>2, <1>5, <2>2, <4>2, NotMislaid DEF Journalled, BootAt
      <4>3. QED
        BY <4>1, <4>2
    <3>2. /\ Exists(i)' <=> Exists(i)
          /\ InLibrary(i)' <=> InLibrary(i)
          /\ Half(i)' <=> Half(i)
          /\ InTheBin(i)' <=> InTheBin(i)
          /\ Journalled(i)' <=> Journalled(i)
          /\ Holds(i)' <=> Holds(i)
      BY <1>0 DEF Exists, InLibrary, Half, InTheBin, Journalled, Holds, InBin
    <3>3. SettledIsListed(i)'
      BY <1>0 DEF SettledIsListed
    <3>4. QED
      BY <1>0, <1>1, <1>5, <2>2, <3>1, <3>2, <3>3, FineAtStartup, HalfHolds, StaysFineAtStartup
  <2>3. QED
    BY <2>1, <2>2 DEF ArchivesAreFine
<1>7. BinIsPure'
  BY <1>0, <1>3 DEF IndInv, BinIsPure, InBin
<1>8. StartupKnows' /\ SweepKnows'
  BY <1>0, <1>1 DEF IndInv, StartupKnows, SweepKnows, BootAt, Finishing, Up
<1>9. QED
  BY <1>0, <1>1, <1>4, <1>6, <1>7, <1>8, Booted

\* All directories are reconciled.
LEMMA ReconciledKept ==
  ASSUME IndInv, Reconciled
  PROVE  IndInv'
<1>0. /\ boot.step = "reconcile" /\ boot.left = {} /\ boot' = [Running EXCEPT !.step = "sweep"]
      /\ sweep' = [NoSweep EXCEPT !.step = "list"]
      /\ UNCHANGED <<disk, record, filemap, bin, inventory, holders, task, loose, purged, astray>>
  BY DEF Reconciled, BootAt, store, library, history
<1>1. boot'.step = "sweep" /\ boot' \in Boots /\ sweep' \in Sweeps /\ sweep'.step = "list" /\ ~Up /\ ~Up'
  BY <1>0 DEF Boots, Bytes, Up, Running, NoSweep, Sweeps
<1>2. TypeOK'
  BY <1>0, <1>1 DEF IndInv, TypeOK
<1>3. ArchivesAreFine'
  <2>1. ASSUME NEW i \in Kept
        PROVE  ArchiveIsFine(i)'
    <3>1. /\ Exists(i)' <=> Exists(i)
          /\ InLibrary(i)' <=> InLibrary(i)
          /\ Half(i)' <=> Half(i)
          /\ InTheBin(i)' <=> InTheBin(i)
          /\ Journalled(i)' <=> Journalled(i)
          /\ Holds(i)' <=> Holds(i)
      BY <1>0 DEF Exists, InLibrary, Half, InTheBin, Journalled, Holds, InBin
    <3>2. ~Unsettled(i)
      BY <1>0 DEF Unsettled, BootAt, Finishing
    <3>3. SettledIsListed(i)'
      BY <1>0, <1>1, <2>1, <3>1, <3>2, FineAtStartup DEF SettledIsListed
    <3>4. QED
      BY <1>0, <1>1, <2>1, <3>1, <3>2, <3>3, FineAtStartup, StaysFineAtStartup
  <2>2. QED
    BY <1>0, <2>1 DEF ArchivesAreFine, Kept
<1>4. BinIsPure'
  BY <1>0 DEF IndInv, BinIsPure, InBin
<1>5. StartupKnows' /\ SweepKnows'
  BY <1>0, <1>1 DEF IndInv, StartupKnows, SweepKnows, BootAt, Finishing, Up
<1>6. QED
  BY <1>0, <1>1, <1>2, <1>3, <1>4, <1>5, Booted

\* The repair finds no file by a record's name, which has no extension.
LEMMA NoneRepairable ==
  ASSUME IndInv
  PROVE  Repairable = {}
<1>1. \A i \in Archives : Exists(i) => record[i].name = Nothing
  BY RecordFields DEF IndInv, TypeOK, Exists
<1>2. QED
  BY <1>1 DEF Repairable, Zombies

\* The records it drops are of archives in the bin, or with a journal there.
LEMMA RepairKept ==
  ASSUME IndInv, Repair
  PROVE  IndInv'
<1>0. /\ boot.step = "repair" /\ boot' = [boot EXCEPT !.step = "scan"] /\ boot \in Boots
      /\ RepairStore(Doomed, Doomed, {})
      /\ UNCHANGED <<disk, bin, inventory, holders, task, sweep, loose, purged, astray>>
  BY NoneRepairable DEF Repair, BootAt, BootGoto, history, IndInv, TypeOK
<1>1. boot'.step = "scan" /\ boot' \in Boots /\ ~Up /\ ~Up'
  BY <1>0 DEF Boots, Up
<1>2. /\ record' = [i \in Archives |-> IF i \in Doomed THEN Nothing ELSE record[i]]
      /\ filemap' \in [Names -> Bytes]
  <2>1. filemap \in [Names -> Bytes] /\ Nothing \in Bytes
    BY DEF IndInv, TypeOK, Bytes
  <2>2. QED
    BY <1>0, <2>1 DEF RepairStore
<1>3. TypeOK'
  <2>1. record' \in [Archives -> Records \union {Nothing}]
    BY <1>2 DEF IndInv, TypeOK
  <2>2. QED
    BY <1>0, <1>1, <1>2, <2>1 DEF IndInv, TypeOK
<1>4. ArchivesAreFine'
  <2>1. ASSUME NEW i \in Kept
        PROVE  ArchiveIsFine(i)'
    <3>1. ~Unsettled(i) /\ i \in Archives
      BY <1>0, <2>1 DEF Unsettled, BootAt, Finishing, Kept
    <3>2. /\ InTheBin(i)' <=> InTheBin(i)
          /\ Journalled(i)' <=> Journalled(i)
          /\ Holds(i)' <=> Holds(i)
      BY <1>0 DEF InTheBin, Journalled, Holds, InBin
    <3>3. InTheBin(i) \/ Journalled(i) => inventory[i] # Nothing \/ bin[i].meta # Nothing
      BY DEF InTheBin, Journalled
    <3>4. SettledIsListed(i)'
      BY <1>1 DEF SettledIsListed, Finishing
    <3>5. CASE i \in Doomed
      <4>1. Exists(i) /\ ~InLibrary(i)
        <5>1. Exists(i) => record[i].file \in Names
          BY <3>1, RecordFields DEF IndInv, TypeOK, Exists
        <5>2. QED
          BY <3>1, <3>5, <5>1 DEF Doomed, Zombies, InLibrary, OnDisk
      <4>2. ~Exists(i)'
        BY <1>2, <3>1, <3>5 DEF Exists
      <4>3. loose /\ (InTheBin(i) \/ Journalled(i))
        BY <1>1, <2>1, <3>1, <4>1, FineAtStartup
      <4>4. QED
        BY <1>0, <1>1, <3>2, <3>3, <3>4, <4>2, <4>3, StaysFineAtStartup
    <3>6. CASE i \notin Doomed
      <4>1. record'[i] = record[i]
        BY <1>2, <3>1, <3>6
      <4>2. /\ Exists(i)' <=> Exists(i)
            /\ InLibrary(i)' <=> InLibrary(i)
            /\ Half(i)' <=> Half(i)
        BY <1>0, <4>1 DEF Exists, InLibrary, Half
      <4>3. QED
        BY <1>0, <1>1, <2>1, <3>1, <3>2, <3>4, <4>2, FineAtStartup, StaysFineAtStartup
    <3>7. QED
      BY <3>5, <3>6
  <2>2. QED
    BY <1>0, <2>1 DEF ArchivesAreFine, Kept
<1>5. BinIsPure'
  BY <1>0 DEF IndInv, BinIsPure, InBin
<1>6. StartupKnows' /\ SweepKnows'
  BY <1>0, <1>1 DEF IndInv, StartupKnows, SweepKnows, BootAt, Finishing, Up
<1>7. QED
  BY <1>0, <1>1, <1>3, <1>4, <1>5, <1>6, Booted

\* The scan leaves mappings of archives with a record only, and the program is up.
LEMMA ScanKept ==
  ASSUME IndInv, Scan
  PROVE  IndInv'
<1>0. /\ boot.step = "scan" /\ boot' = Running
      /\ filemap' = [n \in Names |-> IF OnDisk(n) /\ filemap[n] # Nothing /\ Exists(filemap[n])
                                      THEN filemap[n] ELSE Nothing]
      /\ UNCHANGED <<disk, record, bin, inventory, holders, task, sweep, loose, purged, astray>>
  BY DEF Scan, BootAt, history
<1>1. boot'.step = "up" /\ boot' \in Boots /\ ~Up /\ Up'
  BY <1>0 DEF Boots, Bytes, Up, Running
<1>2. /\ filemap' \in [Names -> Bytes]
      /\ \A i \in Archives, n \in Names : filemap'[n] = i => Exists(i)
  <2>1. \A n \in Names : filemap'[n] = Nothing \/ (filemap'[n] = filemap[n] /\ Exists(filemap[n]))
    BY <1>0
  <2>2. \A n \in Names : filemap[n] \in Bytes
    BY DEF IndInv, TypeOK
  <2>3. DOMAIN filemap' = Names /\ filemap' = [n \in Names |-> filemap'[n]] /\ Nothing \in Bytes
    BY <1>0 DEF Bytes
  <2>4. QED
    BY <2>1, <2>2, <2>3
<1>3. TypeOK'
  BY <1>0, <1>1, <1>2 DEF IndInv, TypeOK
<1>4. ArchivesAreFine'
  <2>1. ASSUME NEW i \in Kept
        PROVE  ArchiveIsFine(i)'
    <3>1. ~Unsettled(i) /\ i \in Archives
      BY <1>0, <2>1 DEF Unsettled, BootAt, Finishing, Kept
    <3>2. /\ Exists(i)' <=> Exists(i)
          /\ InLibrary(i)' <=> InLibrary(i)
          /\ Half(i)' <=> Half(i)
          /\ InTheBin(i)' <=> InTheBin(i)
          /\ Journalled(i)' <=> Journalled(i)
          /\ Holds(i)' <=> Holds(i)
      BY <1>0 DEF Exists, InLibrary, Half, InTheBin, Journalled, Holds, InBin
    <3>3. RecordIsTrue(i)'
      BY <1>0, <1>1, <2>1, <3>1, <3>2, FineAtStartup DEF RecordIsTrue
    <3>4. RestIsFound(i)'
      BY <1>0, <1>1, <1>2, <2>1, <3>1, <3>2, FineAtStartup DEF RestIsFound
    <3>5. RecoveredIsUnmapped(i)'
      BY <1>2, <3>1, <3>2 DEF RecoveredIsUnmapped
    <3>6. BinIsTraceable(i)'
      BY <1>0, <1>1, <2>1, <3>2, FineAtStartup DEF BinIsTraceable
    <3>7. SettledIsListed(i)'
      BY <1>1 DEF SettledIsListed, Finishing
    <3>8. QED
      BY <3>3, <3>4, <3>5, <3>6, <3>7 DEF ArchiveIsFine
  <2>2. QED
    BY <1>0, <2>1 DEF ArchivesAreFine, Kept
<1>5. BinIsPure'
  BY <1>0 DEF IndInv, BinIsPure, InBin
<1>6. StartupKnows' /\ SweepKnows'
  BY <1>0, <1>1 DEF IndInv, StartupKnows, SweepKnows, BootAt, Finishing, Up
<1>7. QED
  BY <1>0, <1>1, <1>3, <1>4, <1>5, <1>6, Booted

-----------------------------------------------------------------------------
(* The theorems *)

\* At first every archive has its file, and the bin is empty.
LEMMA InitIndInv == Init => IndInv
<1> SUFFICES ASSUME Init
             PROVE  IndInv
  OBVIOUS
<1>1. PICK at \in [Archives -> Names] :
        /\ \A i, j \in Archives : at[i] = at[j] => i = j
        /\ disk = [n \in Names |-> IF \E i \in Archives : at[i] = n
                                   THEN CHOOSE i \in Archives : at[i] = n ELSE Nothing]
        /\ record = [i \in Archives |-> Record(at[i], "own")]
  BY DEF Init
<1>2. /\ bin = [i \in Archives |-> Nothing] /\ inventory = [i \in Archives |-> Nothing]
      /\ holders = [k \in Names \union Archives |-> {}] /\ task = [c \in Callers |-> Idle]
      /\ sweep = NoSweep /\ boot = Running /\ filemap = disk
      /\ loose = FALSE /\ purged = {} /\ astray = {}
  BY DEF Init, Locks!Init
<1>3. /\ record \in [Archives -> Records \union {Nothing}]
      /\ \A i \in Archives : record[i] # Nothing /\ record[i].file = at[i]
  <2>1. ASSUME NEW i \in Archives
        PROVE  record[i] \in Records /\ record[i].file = at[i] /\ record[i] # Nothing
    <3>1. record[i] = Record(at[i], "own") /\ at[i] \in Names /\ "own" \in Metas
      BY <1>1 DEF Metas
    <3>2. Record(at[i], "own") \in Records /\ Record(at[i], "own").file = at[i]
      BY <3>1, RecordType
    <3>3. QED
      BY <3>1, <3>2
  <2>2. DOMAIN record = Archives /\ record = [i \in Archives |-> record[i]]
    BY <1>1
  <2>3. QED
    BY <2>1, <2>2
<1>4. disk \in [Names -> Bytes] /\ \A i \in Archives : disk[at[i]] = i
  <2>1. ASSUME NEW n \in Names
        PROVE  disk[n] \in Bytes /\ \A i \in Archives : at[i] = n => disk[n] = i
    <3>1. disk[n] = IF \E i \in Archives : at[i] = n THEN CHOOSE i \in Archives : at[i] = n ELSE Nothing
      BY <1>1
    <3>2. CASE \E i \in Archives : at[i] = n
      <4>1. disk[n] \in Archives /\ at[disk[n]] = n
        BY <3>1, <3>2
      <4>2. QED
        BY <1>1, <4>1 DEF Bytes
    <3>3. CASE ~\E i \in Archives : at[i] = n
      BY <3>1, <3>3 DEF Bytes
    <3>4. QED
      BY <3>2, <3>3
  <2>2. DOMAIN disk = Names /\ disk = [n \in Names |-> disk[n]]
    BY <1>1
  <2>3. QED
    BY <1>1, <2>1, <2>2
<1>5. sweep \in Sweeps /\ boot \in Boots /\ boot.step = "up" /\ sweep.step = "idle"
  BY <1>2 DEF NoSweep, Sweeps, Running, Boots, Bytes
<1>6. TypeOK
  BY <1>2, <1>3, <1>4, <1>5, IdleType DEF TypeOK
<1>7. \A i \in Archives : Exists(i) /\ InLibrary(i) /\ ~Holds(i)
  BY <1>2, <1>3, <1>4 DEF Exists, InLibrary, Holds, InBin
<1>8. ArchivesAreFine
  BY <1>5, <1>7
  DEF ArchivesAreFine, Kept, ArchiveIsFine, RecordIsTrue, RestIsFound, RecoveredIsUnmapped,
      BinIsTraceable, SettledIsListed, Finishing
<1>9. BinIsPure /\ StartupKnows /\ SweepKnows
  BY <1>2, <1>5 DEF BinIsPure, InBin, StartupKnows, SweepKnows, BootAt, Finishing, Up
<1>10. RequestsKnow /\ DestinationsAreTrue
  <2>1. ASSUME NEW c \in Callers
        PROVE  task[c] = Idle
    BY <1>2
  <2>2. QED
    BY <2>1, IdleType
    DEF RequestsKnow, RequestHas, DestinationsAreTrue, DestinationIsTrue, Id, Kept,
        Moving, Stashed, Restoring, AtName, Unreserved
<1>11. QED
  BY <1>6, <1>8, <1>9, <1>10 DEF IndInv

\* Every step of requests, sweep, users, watcher, crash and startup preserves the
\* invariant: what the bin, the library and the records say of every archive that
\* was neither purged nor is known to go astray.
THEOREM NextIndInv == IndInv /\ [Next]_vars => IndInv'
<1> SUFFICES ASSUME IndInv, [Next]_vars
             PROVE  IndInv'
  OBVIOUS
<1>1. ASSUME NEW c \in Callers, Handle(c) \/ Refused(c)
      PROVE  IndInv'
  BY <1>1, HandleKept, RefusedKept
<1>2. ASSUME NEW c \in Callers, NEW i \in Archives, NEW step \in {"d lock", "r lock", "find"},
             Start(c, i, step)
      PROVE  IndInv'
  BY <1>2, StartKept
<1>3. ASSUME NEW i \in Archives, NEW n \in Names, Copy(i, n)
      PROVE  IndInv'
  BY <1>3, CopyKept
<1>4. ASSUME NEW n \in Names, Notice(n)
      PROVE  IndInv'
  BY <1>4, NoticeKept
<1>5. CASE StartSweep \/ Sweep \/ DayPasses
  BY <1>5, StartSweepKept, SweepKept, DayPassesKept
<1>6. CASE Crash
  BY <1>6, CrashKept
<1>7. CASE Startup \/ RecoverRefused
  BY <1>7, BeginKept, ReconcileKept, RecoverMetaKept, RecoverEntryKept, FinishDropKept,
     ReconciledKept, RepairKept, ScanKept, RecoverRefusedKept
  DEF Startup
<1>8. CASE UNCHANGED vars
  <2>1. UNCHANGED <<disk, record, filemap, bin, inventory, holders, task, sweep, boot, loose, purged, astray>>
    BY <1>8 DEF vars, store, library, history
  <2>2. TypeOK'
    BY <2>1 DEF IndInv, TypeOK
  <2>3. ArchivesAreFine'
    <3>1. ASSUME NEW i \in Kept
          PROVE  ArchiveIsFine(i)'
      <4>1. Same(i) /\ NotMapped(i) /\ StillBusy(i)
        BY <2>1 DEF Same, NotMapped, StillBusy, Id
      <4>2. QED
        BY <2>1, <3>1, <4>1, OtherArchive
    <3>2. QED
      BY <2>1, <3>1 DEF ArchivesAreFine, Kept
  <2>4. BinIsPure' /\ StartupKnows' /\ SweepKnows'
    BY <2>1 DEF IndInv, BinIsPure, InBin, StartupKnows, SweepKnows, Up, BootAt, Exists
  <2>5. RequestsKnow'
    <3>1. ASSUME NEW c \in Callers
          PROVE  RequestHas(c)' /\ (Id(c)' \in Kept' => RequestKnows(c)')
      BY <2>1, <3>1, OtherRequest DEF Same
    <3>2. QED
      BY <3>1 DEF RequestsKnow
  <2>6. DestinationsAreTrue'
    BY <2>1 DEF IndInv, DestinationsAreTrue, DestinationIsTrue, Kept, Exists, Busy, Id
  <2>7. QED
    BY <2>2, <2>3, <2>4, <2>5, <2>6 DEF IndInv
<1>9. QED
  BY <1>1, <1>2, <1>3, <1>4, <1>5, <1>6, <1>7, <1>8 DEF Next

\* The invariant holds throughout.
THEOREM SpecIndInv == Spec => []IndInv
<1>1. Init => IndInv
  BY InitIndInv
<1>2. IndInv /\ [Next]_vars => IndInv'
  BY NextIndInv
<1>3. QED
  BY <1>1, <1>2, PTL DEF Spec

\* Files, records, mappings, directories, entries and tasks keep their types.
THEOREM AlwaysTypeOK == Spec => []TypeOK
<1>1. IndInv => TypeOK
  BY DEF IndInv
<1>2. QED
  BY <1>1, SpecIndInv, PTL

\* When nothing is under way, an archive that nobody purged and that is not one the
\* code is known to lose can be opened in the library or restored from the bin
\* (recycle.rs: delete_archive, restore_archive, purge_entry, the sweep, and what
\* startup makes of a delete that a crash interrupted).
THEOREM AlwaysNothingIsLost == Spec => []NothingIsLost
<1>1. ASSUME IndInv
      PROVE  NothingIsLost
  <2>1. ASSUME AtRest, ~loose, NEW i \in Kept
        PROVE  InLibrary(i) \/ InTheBin(i)
    <3>1. RecordIsTrue(i) /\ RestIsFound(i) /\ Up
      BY <1>1, <2>1 DEF IndInv, ArchivesAreFine, ArchiveIsFine, AtRest
    <3>2. ~Unsettled(i)
      BY <3>1 DEF Up, Unsettled, BootAt, Finishing
    <3>3. ~Busy(i, Stashed) /\ ~Busy(i, {"save"})
      BY <2>1, IdleType DEF AtRest, Busy, Stashed
    <3>4. \A n \in Names : disk[n] = i => filemap[n] = i
      BY <2>1 DEF AtRest, OnDisk, Kept
    <3>5. CASE Exists(i)
      BY <2>1, <3>1, <3>2, <3>3, <3>5 DEF RecordIsTrue
    <3>6. CASE ~Exists(i)
      BY <2>1, <3>1, <3>2, <3>3, <3>4, <3>6 DEF RestIsFound
    <3>7. QED
      BY <3>5, <3>6
  <2>2. QED
    BY <2>1 DEF NothingIsLost, Kept
<1>2. QED
  BY <1>1, SpecIndInv, PTL

\* When startup has reconciled the bin, every archive with a file there has an
\* entry and no record (reconcile_recycle_bin).
THEOREM AlwaysRecoveryListsEveryFile == Spec => []RecoveryListsEveryFile
<1>1. ASSUME IndInv
      PROVE  RecoveryListsEveryFile
  <2>1. ASSUME BootAt("repair"), ~loose, NEW i \in Kept, Holds(i)
        PROVE  inventory[i] # Nothing /\ ~Exists(i)
    <3>1. SettledIsListed(i)
      BY <1>1, <2>1 DEF IndInv, ArchivesAreFine, ArchiveIsFine
    <3>2. ~Unsettled(i)
      BY <2>1 DEF Unsettled, BootAt, Finishing
    <3>3. QED
      BY <2>1, <3>1, <3>2 DEF SettledIsListed, BootAt
  <2>2. QED
    BY <2>1 DEF RecoveryListsEveryFile, Kept, Holds
<1>2. QED
  BY <1>1, SpecIndInv, PTL
=============================================================================

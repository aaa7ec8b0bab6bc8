--------------------------- MODULE Library_proofs ---------------------------
(***************************************************************************)
(* The library for any downloads, names, contents and bounds: every         *)
(* variable has its type, a download holds the name it asked for as long as *)
(* it is under way, and no file's bytes are lost to anybody but the user.   *)
(* Then that no file of a library at rest is without an archive: first what *)
(* each step does to a task, a file, a record and a mapping, and then the   *)
(* parts of LibraryAtRest!CleanInv, one lemma for each.                     *)
(***************************************************************************)
EXTENDS LibraryAtRest, TLAPS

USE NumberedAssumption, StemAssumption, BoundsAssumption
USE DEF Scans, Workers, Contents, Steps, Phases, Modes, Stems

\* An idle task is a task, in nobody's hands.
LEMMA IdleIsTask ==
  /\ Idle \in Tasks
  /\ Idle.step = "idle" /\ Idle.path = Nothing /\ Idle.want = Nothing
BY DEF Idle, Tasks

\* The tasks that downloads, events and scans begin with.
LEMMA FirstTasks ==
  /\ \A i \in Brought, n \in Wanted, o \in BOOLEAN :
       [Idle EXCEPT !.step = "lock", !.want = n, !.id = i, !.overwrite = o] \in Tasks
  /\ \A n \in Names : [Idle EXCEPT !.step = "lock", !.path = n] \in Tasks
  /\ \A n \in Names : [Idle EXCEPT !.step = "hash", !.path = n] \in Tasks
BY DEF Idle, Tasks

\* A name tried for a wanted one is a name.
LEMMA TriedAreNames == \A n \in Wanted : Tried(n) \subseteq Names
BY DEF Tried

\* The name in a record has no extension: the repair at startup, which looks for
\* a file of that very name, finds none (main.rs:1337-1341).
LEMMA NothingIsRepairable == TypeOK => Repairable = {}
BY DEF TypeOK, Records, Repairable, Zombies, Exists

\* The initial state satisfies the inductive invariant.
LEMMA InitIndInv == Init => IndInv
<1> SUFFICES ASSUME Init PROVE IndInv
  OBVIOUS
<1>1. TypeOK
  <2>1. disk \in [Names -> Contents \union {Nothing}]
    BY DEF Init
  <2>2. task \in [Workers -> Tasks]
    BY IdleIsTask DEF Init
  <2>3. scan \in [Scans -> ScanStates] /\ watch \in WatchStates
    BY DEF Init, ScanStates, NoScan, WatchStates
  <2>4. ingests \in 0..MaxIngests /\ userMoves \in 0..MaxUserMoves
        /\ errors \in 0..MaxFaults /\ outages \in 0..MaxFaults
    BY DEF Init
  <2>5. QED
    BY <2>1, <2>2, <2>3, <2>4 DEF Init, TypeOK, Locks!Init
<1>2. \A w \in Workers : TaskFits(w) /\ HoldsItsName(w)
  BY IdleIsTask DEF Init, TaskFits, HoldsItsName, Inside, Reserved, Staged
<1>3. QED
  BY <1>1, <1>2 DEF IndInv, TasksAreSound, TypeOK

-----------------------------------------------------------------------------
(* What is common to the steps of one worker *)

\* A worker stands by while its task stays, and the reservation of its name if
\* it holds it.
LEMMA StandsBy ==
  ASSUME NEW w \in Workers, TaskFits(w), HoldsItsName(w),
         task'[w] = task[w],
         Inside(w) /\ holders[Reserved(w)] = {w} => holders'[Reserved(w)] = {w}
  PROVE  TaskFits(w)' /\ HoldsItsName(w)'
BY DEF TaskFits, HoldsItsName, Inside, Reserved, Staged, At

\* A worker that leaves has no task and no reservation; the others keep theirs.
LEMMA Leaves ==
  ASSUME IndInv, NEW w \in Workers, Leave(w)
  PROVE  TasksAreSound'
<1>1. task' \in [Workers -> Tasks] /\ holders' \in [Names -> SUBSET Workers]
  BY IdleIsTask DEF IndInv, TypeOK, Leave
<1>2. TaskFits(w)' /\ HoldsItsName(w)'
  BY IdleIsTask DEF IndInv, TypeOK, Leave, TaskFits, HoldsItsName, Inside, Reserved, Staged
<1>3. ASSUME NEW v \in Workers, v # w
      PROVE  TaskFits(v)' /\ HoldsItsName(v)'
  <2>1. TaskFits(v) /\ HoldsItsName(v) /\ task'[v] = task[v]
    BY <1>3 DEF IndInv, TasksAreSound, TypeOK, Leave
  <2>2. Inside(v) /\ holders[Reserved(v)] = {v} => holders'[Reserved(v)] = {v}
    <3>1. Inside(v) => Reserved(v) \in Names
      BY <2>1 DEF TaskFits, Inside, Reserved
    <3>2. QED
      BY <1>3, <3>1 DEF Leave
  <2>3. QED
    BY <2>1, <2>2, StandsBy
<1>4. QED
  BY <1>1, <1>2, <1>3 DEF TasksAreSound

\* A worker gets another task, and the others stand by.
LEMMA Proceeds ==
  ASSUME IndInv, NEW w \in Workers, NEW t \in Tasks, task' = [task EXCEPT ![w] = t],
         UNCHANGED holders,
         TaskFits(w)', HoldsItsName(w)'
  PROVE  TasksAreSound'
<1>1. task' \in [Workers -> Tasks] /\ holders' \in [Names -> SUBSET Workers]
  BY DEF IndInv, TypeOK
<1>2. ASSUME NEW v \in Workers, v # w
      PROVE  TaskFits(v)' /\ HoldsItsName(v)'
  <2>1. TaskFits(v) /\ HoldsItsName(v) /\ task'[v] = task[v]
    BY <1>2 DEF IndInv, TasksAreSound, TypeOK
  <2>2. QED
    BY <2>1, StandsBy
<1>3. QED
  BY <1>1, <1>2 DEF TasksAreSound

\* A worker under way goes to a step that its task fits.
LEMMA GoesTo ==
  ASSUME IndInv, NEW w \in Workers, NEW step \in Steps, Goto(w, step),
         UNCHANGED holders,
         task[w] # Idle, ~At(w, "lock"), step \notin {"idle", "lock", "hash", "rekey", "move"},
         step \in StagedSteps => Staged(w), step \in FoundSteps => ~Staged(w),
         task[w].id \in Contents
  PROVE  TasksAreSound'
<1> DEFINE t == [task[w] EXCEPT !.step = step]
<1>1. task[w] \in Tasks
  BY DEF IndInv, TypeOK
<1>2. t \in Tasks /\ task' = [task EXCEPT ![w] = t] /\ task'[w] = t
  BY <1>1 DEF Goto, Tasks, IndInv, TypeOK
<1>3. t.step = step /\ t.want = task[w].want /\ t.path = task[w].path /\ t.id = task[w].id
  BY <1>1 DEF Tasks
<1>4. TaskFits(w) /\ HoldsItsName(w)
  BY DEF IndInv, TasksAreSound
<1>5. TaskFits(w)' /\ HoldsItsName(w)'
  BY <1>2, <1>3, <1>4 DEF TaskFits, HoldsItsName, Inside, Reserved, Staged, At
<1>6. QED
  BY <1>2, <1>5, Proceeds

\* What is known of a worker that is not idle.
LEMMA UnderWay ==
  ASSUME IndInv, NEW w \in Workers, ~At(w, "idle")
  PROVE  /\ task[w] # Idle /\ task[w] \in Tasks
         /\ TaskFits(w) /\ HoldsItsName(w)
         /\ Staged(w) => task[w].want \in Wanted /\ w \in Downloads
         /\ ~Staged(w) => task[w].path \in Names
BY IdleIsTask DEF IndInv, TypeOK, TasksAreSound, At, TaskFits

\* Invariant again after a step on the files and the store.
LEMMA StoreChanges ==
  ASSUME IndInv, TasksAreSound',
         disk' \in [Names -> Contents \union {Nothing}],
         record' \in [Contents -> Records \union {Nothing}],
         filemap' \in [Names -> Contents \union {Nothing}],
         events' \subseteq Names, raced' \in BOOLEAN, errors' \in 0..MaxFaults,
         UNCHANGED <<scan, watch, ingests, userMoves, outages>>
  PROVE  IndInv'
BY DEF IndInv, TypeOK, TasksAreSound

\* A new record is a record.
LEMMA NewRecordIsRecord ==
  ASSUME IndInv, NEW w \in Workers, ~At(w, "idle")
  PROVE  NewRecord(w) \in Records
<1>1. task[w].path \in Names \union {Nothing}
  BY DEF IndInv, TypeOK, Tasks
<1>2. (IF Staged(w) THEN task[w].want ELSE task[w].path) \in Names
  BY UnderWay
<1>3. QED
  BY <1>1, <1>2 DEF NewRecord, Records

\* The filemap entry of a file is one of the filemap's.
LEMMA MapPathTyped ==
  ASSUME IndInv, NEW w \in Workers, MapPath(w)
  PROVE  filemap' \in [Names -> Contents \union {Nothing}]
BY DEF MapPath, IndInv, TypeOK, Tasks

-----------------------------------------------------------------------------
(* The steps of a worker's task *)

\* The steps up to the duplicate checks.
LEMMA LookingUp ==
  ASSUME IndInv, NEW w \in Workers,
         Reserve(w) \/ Hash(w) \/ Lookup(w) \/ Rekey(w) \/ Rekeyed(w)
  PROVE  IndInv'
<1>1. CASE Reserve(w)
  <2> DEFINE step == IF Staged(w) THEN "known" ELSE "hash"
             t == [task[w] EXCEPT !.step = step]
  <2>1. task[w] # Idle /\ task[w] \in Tasks /\ TaskFits(w)
        /\ (Staged(w) => task[w].want \in Wanted) /\ (~Staged(w) => task[w].path \in Names)
    BY <1>1, UnderWay DEF Reserve, At
  <2>2. Reserved(w) \in Names /\ (Staged(w) => Reserved(w) = task[w].want)
    BY <2>1 DEF Reserved
  <2>3. holders[Reserved(w)] = {} /\ holders' = [holders EXCEPT ![Reserved(w)] = {w}]
    BY <1>1 DEF Reserve, Locks!Take
  <2>4. t \in Tasks /\ task' = [task EXCEPT ![w] = t] /\ task'[w] = t
        /\ t.step = step /\ t.want = task[w].want /\ t.path = task[w].path /\ t.id = task[w].id
    BY <1>1, <2>1 DEF Reserve, Goto, Tasks, IndInv, TypeOK
  <2>5. TaskFits(w)'
    <3>1. Staged(w) => task[w].id \in Contents
      BY <2>1 DEF TaskFits
    <3>2. QED
      BY <2>1, <2>4, <3>1 DEF TaskFits, Staged, At, StagedSteps, FoundSteps
  <2>6. HoldsItsName(w)'
    BY <2>2, <2>3, <2>4 DEF HoldsItsName, Inside, Reserved, Staged, At, IndInv, TypeOK
  <2>7. ASSUME NEW v \in Workers, v # w
        PROVE  TaskFits(v)' /\ HoldsItsName(v)'
    <3>1. TaskFits(v) /\ HoldsItsName(v) /\ task'[v] = task[v]
      BY <2>4, <2>7 DEF IndInv, TasksAreSound, TypeOK
    <3>2. Inside(v) /\ holders[Reserved(v)] = {v} => holders'[Reserved(v)] = {v}
      <4>1. CASE Reserved(v) = Reserved(w)
        BY <2>3, <2>7, <4>1
      <4>2. CASE Reserved(v) # Reserved(w)
        BY <2>3, <4>2 DEF IndInv, TypeOK
      <4>3. QED
        BY <4>1, <4>2
    <3>3. QED
      BY <3>1, <3>2, StandsBy
  <2>8. task' \in [Workers -> Tasks] /\ holders' \in [Names -> SUBSET Workers]
    BY <2>2, <2>3, <2>4 DEF IndInv, TypeOK
  <2>9. TasksAreSound'
    BY <2>5, <2>6, <2>7, <2>8 DEF TasksAreSound
  <2>10. QED
    BY <1>1, <2>9, StoreChanges DEF Reserve, store, Others, bounds, IndInv, TypeOK
<1>2. CASE Hash(w)
  <2>1. CASE OnDisk(task[w].path) /\ UNCHANGED holders
    <3> DEFINE t == [task[w] EXCEPT !.step = "lookup", !.id = disk[task[w].path]]
    <3>1. task[w] # Idle /\ task[w] \in Tasks /\ TaskFits(w) /\ HoldsItsName(w)
      BY <1>2, UnderWay DEF Hash, At
    <3>2. task[w].path \in Names /\ ~Staged(w)
      BY <1>2, <3>1 DEF Hash, At, TaskFits, FoundSteps
    <3>3. disk[task[w].path] \in Contents
      BY <2>1, <3>2 DEF OnDisk, IndInv, TypeOK
    <3>4. t \in Tasks /\ t.step = "lookup" /\ t.want = task[w].want /\ t.path = task[w].path
          /\ t.id = disk[task[w].path]
      BY <3>1, <3>3 DEF Tasks
    <3>5. task' = [task EXCEPT ![w] = t] /\ task'[w] = t
      BY <1>2, <2>1, <3>4 DEF Hash, IndInv, TypeOK, Leave
    <3>6. TaskFits(w)' /\ HoldsItsName(w)'
      <4>1. TaskFits(w)'
        BY <3>1, <3>2, <3>3, <3>4, <3>5 DEF TaskFits, Staged, At, StagedSteps, FoundSteps
      <4>2. Inside(w)' => Inside(w)
        BY <1>2, <3>1, <3>2, <3>4, <3>5 DEF Hash, Inside, Staged, At
      <4>3. Reserved(w)' = Reserved(w)
        BY <3>4, <3>5 DEF Reserved, Staged
      <4>4. QED
        BY <2>1, <3>1, <4>1, <4>2, <4>3 DEF HoldsItsName
    <3>7. TasksAreSound'
      BY <3>4, <3>5, <3>6, <2>1, Proceeds
    <3>8. QED
      BY <1>2, <3>7, StoreChanges DEF Hash, store, Others, bounds, IndInv, TypeOK
  <2>2. CASE Leave(w)
    BY <1>2, <2>2, Leaves, StoreChanges DEF Hash, store, Others, bounds, IndInv, TypeOK
  <2>3. QED
    BY <1>2, <2>1, <2>2 DEF Hash
<1>3. CASE Lookup(w)
  <2>1. task[w] # Idle /\ task[w] \in Tasks /\ TaskFits(w) /\ HoldsItsName(w)
    BY <1>3, UnderWay DEF Lookup, At
  <2>2. task[w].path \in Names /\ ~Staged(w) /\ task[w].id \in Contents
    BY <1>3, <2>1 DEF Lookup, At, TaskFits, FoundSteps
  <2>3. TasksAreSound'
    <3>1. CASE Leave(w)
      BY <3>1, Leaves
    <3>2. CASE Goto(w, "known") /\ UNCHANGED holders
      BY <1>3, <2>1, <2>2, <3>2, GoesTo DEF Lookup, At, StagedSteps, FoundSteps
    <3>3. ASSUME NEW previous \in Contents, UNCHANGED holders,
                 task' = [task EXCEPT ![w].step = "rekey", ![w].other = previous]
          PROVE  TasksAreSound'
      <4> DEFINE t == [task[w] EXCEPT !.step = "rekey", !.other = previous]
      <4>1. t \in Tasks /\ t.step = "rekey" /\ t.want = task[w].want /\ t.path = task[w].path
            /\ t.id = task[w].id /\ t.other = previous
        BY <2>1 DEF Tasks
      <4>2. task' = [task EXCEPT ![w] = t] /\ task'[w] = t
        BY <3>3, <4>1 DEF IndInv, TypeOK
      <4>3. TaskFits(w)' /\ HoldsItsName(w)'
        BY ZenonT(60), <1>3, <2>1, <2>2, <3>3, <4>1, <4>2
           DEF Lookup, TaskFits, HoldsItsName, Inside, Reserved, Staged, At, StagedSteps, FoundSteps
      <4>4. QED
        BY <3>3, <4>1, <4>2, <4>3, Proceeds
    <3>4. filemap[task[w].path] \in Contents \union {Nothing}
      BY <2>2 DEF IndInv, TypeOK
    <3>5. QED
      BY <1>3, <3>1, <3>2, <3>3, <3>4 DEF Lookup
  <2>4. QED
    BY <1>3, <2>3, StoreChanges DEF Lookup, store, Others, bounds, IndInv, TypeOK
<1>4. CASE Rekey(w)
  <2>1. task[w] # Idle /\ task[w] \in Tasks /\ TaskFits(w)
    BY <1>4, UnderWay DEF Rekey, At
  <2>2. task[w].id \in Contents /\ task[w].other \in Contents /\ ~Staged(w)
    BY <1>4, <2>1 DEF Rekey, At, TaskFits, FoundSteps
  <2>3. TasksAreSound'
    BY <1>4, <2>1, <2>2, GoesTo DEF Rekey, At, StagedSteps, FoundSteps
  <2>4. record' \in [Contents -> Records \union {Nothing}]
    BY <1>4, <2>2 DEF Rekey, IndInv, TypeOK
  <2>5. QED
    BY <1>4, <2>3, <2>4, StoreChanges DEF Rekey, Others, bounds, IndInv, TypeOK
<1>5. CASE Rekeyed(w)
  BY <1>5, Leaves, MapPathTyped, StoreChanges DEF Rekeyed, Others, bounds, IndInv, TypeOK
<1>6. QED
  BY <1>1, <1>2, <1>3, <1>4, <1>5

\* The duplicate checks, and an overwrite.
LEMMA Checking ==
  ASSUME IndInv, NEW w \in Workers,
         Known(w) \/ Restore(w) \/ Collide(w) \/ Unlink(w) \/ Drop(w) \/ Unmap(w)
  PROVE  IndInv'
<1>1. task[w] # Idle /\ task[w] \in Tasks /\ TaskFits(w) /\ HoldsItsName(w)
  BY UnderWay DEF Known, Restore, Collide, Unlink, Drop, Unmap, At
<1>2. task[w].id \in Contents
  BY <1>1 DEF TaskFits, Known, Restore, Collide, Unlink, Drop, Unmap, At
<1>3. CASE Known(w)
  <2>1. TasksAreSound'
    BY <1>1, <1>2, <1>3, GoesTo DEF Known, At, StagedSteps, FoundSteps
  <2>2. QED
    BY <1>3, <2>1, StoreChanges DEF Known, store, Others, bounds, IndInv, TypeOK
<1>4. CASE Restore(w)
  <2>1. filemap' \in [Names -> Contents \union {Nothing}]
    BY <1>4, MapPathTyped DEF Restore, IndInv, TypeOK
  <2>2. QED
    BY <1>4, <2>1, Leaves, StoreChanges DEF Restore, Others, bounds, IndInv, TypeOK
<1>5. CASE Collide(w)
  <2>1. Staged(w)
    BY <1>1, <1>5 DEF Collide, TaskFits, At, StagedSteps
  <2>2. CASE Goto(w, "catalogue") /\ UNCHANGED holders
    <3>1. TasksAreSound'
      BY <1>1, <1>2, <1>5, <2>2, GoesTo DEF Collide, At, StagedSteps, FoundSteps
    <3>2. QED
      BY <1>5, <3>1, StoreChanges DEF Collide, store, Others, bounds, IndInv, TypeOK
  <2>3. CASE Leave(w)
    BY <1>5, <2>3, Leaves, StoreChanges DEF Collide, store, Others, bounds, IndInv, TypeOK
  <2>4. ASSUME NEW i \in Contents, UNCHANGED holders,
               task' = [task EXCEPT ![w].step = "unlink", ![w].other = i]
        PROVE  IndInv'
    <3> DEFINE t == [task[w] EXCEPT !.step = "unlink", !.other = i]
    <3>1. t \in Tasks /\ t.step = "unlink" /\ t.want = task[w].want /\ t.path = task[w].path
          /\ t.id = task[w].id
      BY <1>1 DEF Tasks
    <3>2. task' = [task EXCEPT ![w] = t] /\ task'[w] = t
      BY <2>4, <3>1 DEF IndInv, TypeOK
    <3>3. TaskFits(w)' /\ HoldsItsName(w)'
      BY <1>1, <1>2, <1>5, <2>1, <3>1, <3>2, <2>4
         DEF Collide, TaskFits, HoldsItsName, Inside, Reserved, Staged, At, StagedSteps, FoundSteps
    <3>4. TasksAreSound'
      BY <2>4, <3>1, <3>2, <3>3, Proceeds
    <3>5. QED
      BY <1>5, <3>4, StoreChanges DEF Collide, store, Others, bounds, IndInv, TypeOK
  <2>5. QED
    BY <1>5, <2>2, <2>3, <2>4 DEF Collide
<1>6. CASE Unlink(w) \/ Drop(w) \/ Unmap(w)
  <2>1. Staged(w)
    BY <1>1, <1>6 DEF Unlink, Drop, Unmap, TaskFits, At, StagedSteps
  <2>2. TasksAreSound'
    <3>1. CASE Unlink(w)
      BY <1>1, <1>2, <2>1, <3>1, GoesTo DEF Unlink, At, FoundSteps
    <3>2. CASE Drop(w)
      BY <1>1, <1>2, <2>1, <3>2, GoesTo DEF Drop, At, FoundSteps
    <3>3. CASE Unmap(w)
      BY <1>1, <1>2, <2>1, <3>3, GoesTo DEF Unmap, At, FoundSteps, StagedSteps
    <3>4. QED
      BY <1>6, <3>1, <3>2, <3>3
  <2>3. /\ disk' \in [Names -> Contents \union {Nothing}]
        /\ record' \in [Contents -> Records \union {Nothing}]
        /\ filemap' \in [Names -> Contents \union {Nothing}]
        /\ raced' \in BOOLEAN
    BY <1>6 DEF Unlink, Drop, Unmap, Others, NoteRace, IndInv, TypeOK
  <2>4. QED
    BY <1>6, <2>2, <2>3, StoreChanges DEF Unlink, Drop, Unmap, Others, bounds, IndInv, TypeOK
<1>7. QED
  BY <1>3, <1>4, <1>5, <1>6

\* Cataloguing, and the mapping of a file in place.
LEMMA Cataloguing ==
  ASSUME IndInv, NEW w \in Workers, Catalogue(w) \/ Thumb(w) \/ MapFile(w)
  PROVE  IndInv'
<1>1. task[w] # Idle /\ task[w] \in Tasks /\ TaskFits(w)
  BY UnderWay DEF Catalogue, Thumb, MapFile, At
<1>2. task[w].id \in Contents
  BY <1>1 DEF TaskFits, Catalogue, Thumb, MapFile, At
<1>3. CASE Catalogue(w) \/ Thumb(w)
  <2>1. TasksAreSound'
    <3>1. CASE Catalogue(w)
      BY <1>1, <1>2, <3>1, GoesTo DEF Catalogue, At, StagedSteps, FoundSteps
    <3>2. CASE Thumb(w)
      BY <1>1, <1>2, <3>2, GoesTo DEF Thumb, At, StagedSteps, FoundSteps
    <3>3. QED
      BY <1>3, <3>1, <3>2
  <2>2. NewRecord(w) \in Records
    BY <1>3, NewRecordIsRecord DEF Catalogue, Thumb, At
  <2>3. record' \in [Contents -> Records \union {Nothing}]
    BY <1>3, <2>2 DEF Catalogue, Thumb, IndInv, TypeOK
  <2>4. raced' \in BOOLEAN
    <3>1. CASE Catalogue(w)
      BY <3>1 DEF Catalogue, NoteOutdated
    <3>2. CASE Thumb(w)
      BY <3>2 DEF Thumb, Others, IndInv, TypeOK
    <3>3. QED
      BY <1>3, <3>1, <3>2
  <2>5. disk' = disk /\ filemap' = filemap /\ UNCHANGED <<scan, watch, events, bounds>>
    BY <1>3 DEF Catalogue, Thumb, Others
  <2>6. QED
    BY <2>1, <2>3, <2>4, <2>5, StoreChanges DEF bounds, IndInv, TypeOK
<1>4. CASE MapFile(w)
  <2>1. CASE Staged(w)
    <3>1. TasksAreSound'
      BY <1>1, <1>2, <1>4, <2>1, GoesTo DEF MapFile, At, StagedSteps, FoundSteps
    <3>2. QED
      BY <1>4, <2>1, <3>1, StoreChanges DEF MapFile, Others, bounds, IndInv, TypeOK
  <2>2. CASE ~Staged(w)
    BY <1>4, <2>2, Leaves, MapPathTyped, StoreChanges DEF MapFile, Others, bounds, IndInv, TypeOK
  <2>3. QED
    BY <2>1, <2>2
<1>5. QED
  BY <1>3, <1>4

\* What ChooseDest picks is a tried name that no file has.
LEMMA Chosen ==
  ASSUME IndInv, NEW w \in Workers, ChooseDest(w)
  PROVE  \E n \in Tried(task[w].want) :
           ~OnDisk(n) /\ task' = [task EXCEPT ![w].step = "move", ![w].dest = n]
BY ZenonT(60) DEF ChooseDest, Tried

\* The move of a staged file and what follows it.
LEMMA Moving ==
  ASSUME IndInv, NEW w \in Workers,
         ChooseDest(w) \/ Move(w) \/ Fix(w) \/ FixSave(w) \/ FixFails(w) \/ Remap(w)
  PROVE  IndInv'
<1>1. task[w] # Idle /\ task[w] \in Tasks /\ TaskFits(w) /\ HoldsItsName(w)
  BY UnderWay DEF ChooseDest, Move, Fix, FixSave, FixFails, Remap, At
<1>2. task[w].id \in Contents /\ Staged(w)
  BY <1>1 DEF TaskFits, StagedSteps, ChooseDest, Move, Fix, FixSave, FixFails, Remap, At
<1>3. task[w].want \in Wanted /\ w \in Downloads
  BY <1>1, <1>2 DEF TaskFits
<1>4. CASE ChooseDest(w)
  <2>1. PICK n \in Tried(task[w].want) :
          task' = [task EXCEPT ![w].step = "move", ![w].dest = n]
    BY <1>4, Chosen
  <2> DEFINE t == [task[w] EXCEPT !.step = "move", !.dest = n]
  <2>2. n \in Names
    BY <1>3, TriedAreNames
  <2>3. t \in Tasks /\ t.step = "move" /\ t.want = task[w].want /\ t.path = task[w].path
        /\ t.id = task[w].id /\ t.dest = n
    BY <1>1, <2>2 DEF Tasks
  <2>4. task' = [task EXCEPT ![w] = t] /\ task'[w] = t
    BY <2>1, <2>3 DEF IndInv, TypeOK
  <2>5. TaskFits(w)' /\ HoldsItsName(w)'
    BY ZenonT(60), <1>1, <1>2, <1>3, <1>4, <2>3, <2>4
       DEF ChooseDest, TaskFits, HoldsItsName, Inside, Reserved, Staged, At, StagedSteps, FoundSteps
  <2>6. TasksAreSound'
    BY <1>4, <2>3, <2>4, <2>5, Proceeds DEF ChooseDest
  <2>7. QED
    BY <1>4, <2>6, StoreChanges DEF ChooseDest, store, Others, bounds, IndInv, TypeOK
<1>5. CASE Move(w)
  <2>1. TasksAreSound'
    BY <1>1, <1>2, <1>5, GoesTo DEF Move, At, FoundSteps
  <2>2. task[w].dest \in Names
    BY <1>1, <1>3, <1>5, TriedAreNames DEF Move, TaskFits
  <2>3. disk' \in [Names -> Contents \union {Nothing}] /\ events' \subseteq Names
    BY <1>2, <1>5, <2>2 DEF Move, IndInv, TypeOK
  <2>4. QED
    BY <1>5, <2>1, <2>3, StoreChanges DEF Move, bounds, IndInv, TypeOK
<1>6. CASE Fix(w)
  <2>1. TasksAreSound'
    BY <1>1, <1>2, <1>6, GoesTo DEF Fix, At, FoundSteps
  <2>2. QED
    BY <1>6, <2>1, StoreChanges DEF Fix, store, Others, bounds, IndInv, TypeOK
<1>7. CASE FixSave(w)
  <2>1. TasksAreSound'
    BY <1>1, <1>2, <1>7, GoesTo DEF FixSave, At, FoundSteps
  <2>2. (IF Exists(task[w].id) THEN record[task[w].id].name ELSE Stem[task[w].want]) \in Stems
    BY <1>2, <1>3 DEF Exists, Records, IndInv, TypeOK
  <2>3. task[w].dest \in Names \union {Nothing}
    BY <1>1 DEF Tasks
  <2>4. record' \in [Contents -> Records \union {Nothing}]
    BY <1>2, <1>7, <2>2, <2>3 DEF FixSave, Records, IndInv, TypeOK
  <2>5. QED
    BY <1>7, <2>1, <2>4, StoreChanges DEF FixSave, Others, bounds, IndInv, TypeOK
<1>8. CASE FixFails(w)
  <2>1. TasksAreSound'
    BY <1>1, <1>2, <1>8, GoesTo DEF FixFails, At, FoundSteps
  <2>2. errors' \in 0..MaxFaults
    BY <1>8 DEF FixFails, IndInv, TypeOK
  <2>3. QED
    BY <1>8, <2>1, <2>2, StoreChanges DEF FixFails, store, Others, IndInv, TypeOK
<1>9. CASE Remap(w)
  <2>1. filemap' \in [Names -> Contents \union {Nothing}]
    BY <1>2, <1>9 DEF Remap, IndInv, TypeOK
  <2>2. QED
    BY <1>9, <2>1, Leaves, StoreChanges DEF Remap, Others, bounds, IndInv, TypeOK
<1>10. QED
  BY <1>4, <1>5, <1>6, <1>7, <1>8, <1>9

\* A refused step or a time-out ends the ingest and changes no file.
LEMMA Failing ==
  ASSUME IndInv, NEW w \in Workers, Fail(w)
  PROVE  IndInv'
<1>1. errors' \in 0..MaxFaults
  BY DEF Fail, IndInv, TypeOK
<1>2. QED
  BY <1>1, Leaves, StoreChanges DEF Fail, store, Others, IndInv, TypeOK

\* Every step of a worker's task keeps the invariant.
LEMMA Working ==
  ASSUME IndInv, NEW w \in Workers, Ingest(w) \/ FixFails(w) \/ Fail(w)
  PROVE  IndInv'
BY LookingUp, Checking, Cataloguing, Moving, Failing DEF Ingest

-----------------------------------------------------------------------------
(* How ingests begin, scans, the supervisor and the environment *)

\* An idle worker is given a first task.
LEMMA Begins ==
  ASSUME IndInv, NEW w \in Workers, At(w, "idle"), NEW t \in Tasks,
         task' = [task EXCEPT ![w] = t], UNCHANGED holders,
         \/ /\ t.step = "lock" /\ t.want \in Wanted /\ t.id \in Contents /\ w \in Downloads
         \/ t.step = "lock" /\ t.want = Nothing /\ t.path \in Names
         \/ t.step = "hash" /\ t.want = Nothing /\ t.path \in Names /\ w \in Scans
  PROVE  TasksAreSound'
<1>1. task'[w] = t
  BY DEF IndInv, TypeOK
<1>2. TaskFits(w)' /\ HoldsItsName(w)'
  BY <1>1 DEF TaskFits, HoldsItsName, Inside, Reserved, Staged, At, StagedSteps, FoundSteps
<1>3. QED
  BY <1>2, Proceeds

\* The start of a download, and of an ingest of the watcher.
LEMMA Starting ==
  ASSUME IndInv,
         \/ \E d \in Downloads, i \in Brought, n \in Wanted, o \in BOOLEAN : StartDownload(d, i, n, o)
         \/ \E n \in Names : TakeEvent(n)
  PROVE  IndInv'
<1>1. ASSUME NEW d \in Downloads, NEW i \in Brought, NEW n \in Wanted, NEW o \in BOOLEAN,
             StartDownload(d, i, n, o)
      PROVE  IndInv'
  <2> DEFINE t == [Idle EXCEPT !.step = "lock", !.want = n, !.id = i, !.overwrite = o]
  <2>1. t \in Tasks /\ t.step = "lock" /\ t.want = n /\ t.id = i
    BY FirstTasks DEF Idle
  <2>2. task' = [task EXCEPT ![d] = t] /\ At(d, "idle") /\ UNCHANGED holders
    BY <1>1 DEF StartDownload
  <2> HIDE DEF t
  <2>3. TasksAreSound'
    BY <2>1, <2>2, Begins
  <2>4. ingests' \in 0..MaxIngests
    <3>1. ingests < MaxIngests /\ ingests' = ingests + 1
      BY <1>1 DEF StartDownload
    <3>2. ingests \in 0..MaxIngests
      BY DEF IndInv, TypeOK
    <3>3. QED
      BY <3>1, <3>2
  <2>5. QED
    BY <1>1, <2>3, <2>4 DEF StartDownload, store, Others, IndInv, TypeOK, TasksAreSound
<1>2. ASSUME NEW n \in Names, TakeEvent(n)
      PROVE  IndInv'
  <2> DEFINE t == [Idle EXCEPT !.step = "lock", !.path = n]
  <2>1. t \in Tasks /\ t.step = "lock" /\ t.want = Nothing /\ t.path = n
    BY FirstTasks DEF Idle
  <2>2. task' = [task EXCEPT ![Watcher] = t] /\ At(Watcher, "idle") /\ UNCHANGED holders
    BY <1>2 DEF TakeEvent
  <2> HIDE DEF t
  <2>3. TasksAreSound'
    BY <2>1, <2>2, Begins
  <2>4. QED
    BY <1>2, <2>3 DEF TakeEvent, store, bounds, IndInv, TypeOK, TasksAreSound
<1>3. QED
  BY <1>1, <1>2

\* A scan keeps its type, forgets filemap entries and hands files to its task.
LEMMA Scanning ==
  ASSUME IndInv, NEW s \in Scans, ScanStep(s)
  PROVE  IndInv'
<1> USE DEF ScanStates
<1>1. scan[s] \in ScanStates /\ NoScan \in ScanStates
  BY DEF IndInv, TypeOK, NoScan
<1>2. ASSUME NEW x \in ScanStates, scan' = [scan EXCEPT ![s] = x],
             filemap' \in [Names -> Contents \union {Nothing}],
             TasksAreSound', watch' \in WatchStates,
             UNCHANGED <<raced, disk, record, events, bounds>>
      PROVE  IndInv'
  BY <1>2 DEF bounds, IndInv, TypeOK, TasksAreSound
<1>3. \A gone : Forget(gone) => filemap' \in [Names -> Contents \union {Nothing}]
  BY DEF Forget, IndInv, TypeOK
<1>4. UNCHANGED <<task, holders>> => TasksAreSound'
  BY DEF IndInv, TasksAreSound, TaskFits, HoldsItsName, Inside, Reserved, Staged, At
<1>5. CASE Walk(s) \/ Keys(s) \/ Verify(s)
  <2>1. \E x \in ScanStates : scan' = [scan EXCEPT ![s] = x]
    <3>1. CASE Walk(s)
      <4> DEFINE x == [scan[s] EXCEPT !.phase = "keys", !.seen = {n \in Names : OnDisk(n)}]
      <4>1. x \in ScanStates /\ scan' = [scan EXCEPT ![s] = x]
        BY <1>1, <3>1 DEF Walk, IndInv, TypeOK
      <4>2. QED
        BY <4>1
    <3>2. CASE Keys(s)
      <4> DEFINE x == [scan[s] EXCEPT !.phase = "prune",
                                      !.known = {n \in Names : filemap[n] # Nothing}]
      <4>1. x \in ScanStates /\ scan' = [scan EXCEPT ![s] = x]
        BY <1>1, <3>2 DEF Keys, IndInv, TypeOK
      <4>2. QED
        BY <4>1
    <3>3. CASE Verify(s)
      <4> DEFINE x == [scan[s] EXCEPT !.phase = "forget",
                         !.dead = {n \in Names : filemap[n] # Nothing /\ ~Exists(filemap[n])}]
      <4>1. x \in ScanStates /\ scan' = [scan EXCEPT ![s] = x]
        BY <1>1, <3>3 DEF Verify, IndInv, TypeOK
      <4>2. QED
        BY <4>1
    <3>4. QED
      BY <1>5, <3>1, <3>2, <3>3
  <2>2. UNCHANGED <<raced, store, holders, task, events, watch, bounds>>
    BY <1>5 DEF Walk, Keys, Verify
  <2>3. filemap' \in [Names -> Contents \union {Nothing}] /\ watch' \in WatchStates
    BY <2>2 DEF store, IndInv, TypeOK
  <2>4. QED
    BY <1>2, <1>4, <2>1, <2>2, <2>3 DEF store
<1>6. CASE Prune(s)
  <2> DEFINE x == [scan[s] EXCEPT !.phase = IF scan[s].known = {} THEN "forget" ELSE "verify"]
  <2>1. x \in ScanStates /\ scan' = [scan EXCEPT ![s] = x]
    BY <1>1, <1>6 DEF Prune, IndInv, TypeOK
  <2>2. QED
    BY <1>2, <1>3, <1>4, <1>6, <2>1 DEF Prune, IndInv, TypeOK
<1>7. CASE ForgetDead(s)
  <2> DEFINE x == [NoScan EXCEPT !.phase = "ingest",
                                 !.seen = (scan[s].seen \ (scan[s].known \ scan[s].dead))]
  <2>1. x \in ScanStates /\ scan' = [scan EXCEPT ![s] = x]
    BY <1>1, <1>7 DEF ForgetDead, NoScan, IndInv, TypeOK
  <2>2. QED
    BY <1>2, <1>3, <1>4, <1>7, <2>1 DEF ForgetDead, IndInv, TypeOK
<1>8. ASSUME NEW n \in Names, TakeFile(s, n)
      PROVE  IndInv'
  <2> DEFINE t == [Idle EXCEPT !.step = "hash", !.path = n]
             x == [scan[s] EXCEPT !.seen = @ \ {n}]
  <2>1. t \in Tasks /\ t.step = "hash" /\ t.want = Nothing /\ t.path = n
    BY FirstTasks DEF Idle
  <2>2. TasksAreSound'
    BY ZenonT(60), <1>8, <2>1, Begins DEF TakeFile
  <2>3. x \in ScanStates /\ scan' = [scan EXCEPT ![s] = x]
    BY <1>1, <1>8 DEF TakeFile, IndInv, TypeOK
  <2>4. QED
    BY <1>2, <1>8, <2>2, <2>3 DEF TakeFile, store, IndInv, TypeOK
<1>9. CASE EndScan(s)
  <2>1. watch' \in WatchStates
    BY <1>9 DEF EndScan, WatchStates, IndInv, TypeOK
  <2>2. QED
    BY <1>1, <1>2, <1>4, <1>9, <2>1 DEF EndScan, store, IndInv, TypeOK
<1>10. QED
  BY <1>5, <1>6, <1>7, <1>8, <1>9 DEF ScanStep

\* Tasks that end while their reservations go: the others stand by.
LEMMA Stops ==
  ASSUME IndInv, NEW W \in SUBSET Workers, NEW F \in SUBSET W,
         task' = [w \in Workers |-> IF w \in W THEN Idle ELSE task[w]],
         holders' = [n \in Names |-> holders[n] \ F]
  PROVE  TasksAreSound'
<1>1. task' \in [Workers -> Tasks] /\ holders' \in [Names -> SUBSET Workers]
  BY IdleIsTask DEF IndInv, TypeOK
<1>2. ASSUME NEW w \in W
      PROVE  TaskFits(w)' /\ HoldsItsName(w)'
  BY <1>2, IdleIsTask DEF TaskFits, HoldsItsName, Inside, Reserved, Staged
<1>3. ASSUME NEW w \in Workers \ W
      PROVE  TaskFits(w)' /\ HoldsItsName(w)'
  <2>1. TaskFits(w) /\ HoldsItsName(w) /\ task'[w] = task[w]
    BY DEF IndInv, TasksAreSound
  <2>2. Inside(w) => Reserved(w) \in Names
    BY <2>1 DEF TaskFits, Inside, Reserved
  <2>3. Inside(w) /\ holders[Reserved(w)] = {w} => holders'[Reserved(w)] = {w}
    BY <2>2
  <2>4. QED
    BY <2>1, <2>3, StandsBy
<1>4. QED
  BY <1>1, <1>2, <1>3 DEF TasksAreSound

\* The supervisor sees a failure, a dropped event, or is restarted.
LEMMA Supervising ==
  ASSUME IndInv, Supervise \/ RestartWatcher
  PROVE  IndInv'
<1>1. \A s \in Scans : StartScan(s) => scan' \in [Scans -> ScanStates]
  BY DEF StartScan, NoScan, ScanStates, IndInv, TypeOK
<1>2. CASE SeeFailure
  <2>1. TasksAreSound'
    <3>1. task' = [w \in Workers |-> IF w \in {Watcher} THEN Idle ELSE task[w]]
      BY <1>2 DEF SeeFailure, StopIngesting, IndInv, TypeOK
    <3>2. holders' = [n \in Names |-> holders[n] \ {Watcher}]
      BY <1>2 DEF SeeFailure, StopIngesting
    <3>3. {Watcher} \in SUBSET {Watcher} /\ {Watcher} \in SUBSET Workers
      OBVIOUS
    <3>4. QED
      BY ZenonT(60), <3>1, <3>2, <3>3, Stops
  <2>2. watch' \in WatchStates /\ events' \subseteq Names
    BY <1>2 DEF SeeFailure, StopIngesting, WatchStates
  <2>3. QED
    BY <1>2, <2>1, <2>2 DEF SeeFailure, store, bounds, IndInv, TypeOK, TasksAreSound
<1>3. CASE SeeRescan \/ Recover
  <2>1. TasksAreSound'
    BY <1>3 DEF SeeRescan, Recover, IndInv, TasksAreSound, TaskFits, HoldsItsName, Inside, Reserved, Staged, At
  <2>2. watch' \in WatchStates
    BY <1>3 DEF SeeRescan, Recover, WatchStates, IndInv, TypeOK
  <2>3. scan' \in [Scans -> ScanStates]
    BY <1>1, <1>3 DEF SeeRescan, Recover
  <2>4. QED
    BY <1>3, <2>1, <2>2, <2>3 DEF SeeRescan, Recover, store, bounds, IndInv, TypeOK, TasksAreSound
<1>4. CASE RestartWatcher
  <2>1. TasksAreSound'
    <3>1. task' = [w \in Workers |-> IF w \in {Watcher, CatchUp} THEN Idle ELSE task[w]]
      BY <1>4 DEF RestartWatcher, IndInv, TypeOK
    <3>2. holders' = [n \in Names |-> holders[n] \ {Watcher}]
      BY <1>4 DEF RestartWatcher
    <3>3. {Watcher} \in SUBSET {Watcher, CatchUp} /\ {Watcher, CatchUp} \in SUBSET Workers
      OBVIOUS
    <3>4. QED
      BY ZenonT(60), <3>1, <3>2, <3>3, Stops
  <2>2. watch' \in WatchStates /\ events' \subseteq Names
    BY <1>4 DEF RestartWatcher, WatchStates
  <2>3. scan' \in [Scans -> ScanStates]
    BY <1>1, <1>4 DEF RestartWatcher
  <2>4. outages' \in 0..MaxFaults
    BY <1>4 DEF RestartWatcher, IndInv, TypeOK
  <2>5. QED
    BY <1>4, <2>1, <2>2, <2>3, <2>4 DEF RestartWatcher, store, IndInv, TypeOK, TasksAreSound
<1>5. QED
  BY <1>2, <1>3, <1>4 DEF Supervise

\* A repair leaves records and filemap what they are.
LEMMA RepairTyped ==
  ASSUME IndInv, NEW dropped \in SUBSET Contents, NEW unmapped \in SUBSET Contents,
         RepairStore(dropped, unmapped, {})
  PROVE  /\ record' \in [Contents -> Records \union {Nothing}]
         /\ filemap' \in [Names -> Contents \union {Nothing}]
<1>1. record' \in [Contents -> Records \union {Nothing}]
  BY DEF RepairStore, IndInv, TypeOK
<1>2. \A n \in Names : filemap'[n] \in {Nothing, filemap[n]}
  BY DEF RepairStore
<1>3. DOMAIN filemap' = Names /\ filemap' = [n \in Names |-> filemap'[n]]
  BY DEF RepairStore
<1>4. QED
  BY <1>1, <1>2, <1>3 DEF IndInv, TypeOK

\* The user, a watch that fails, a crash, and the startup.
LEMMA Environment ==
  ASSUME IndInv,
         \/ \E n \in UserNames, c \in UserContents \union {Nothing} : UserChanges(n, c)
         \/ BreakWatch \/ DropEvents \/ Crash \/ Startup
         \/ \E dropped \in SUBSET Contents : \E unmapped \in SUBSET dropped :
              StartupDies(dropped, unmapped)
  PROVE  IndInv'
<1>1. UNCHANGED <<task, holders>> => TasksAreSound'
  BY DEF IndInv, TasksAreSound, TaskFits, HoldsItsName, Inside, Reserved, Staged, At
<1>2. ASSUME NEW n \in UserNames, NEW c \in UserContents \union {Nothing}, UserChanges(n, c)
      PROVE  IndInv'
  <2>1. disk' \in [Names -> Contents \union {Nothing}]
    BY <1>2 DEF UserChanges, IndInv, TypeOK
  <2>2. events' \subseteq Names /\ raced' \in BOOLEAN
    BY <1>2 DEF UserChanges, NoteRace, IndInv, TypeOK
  <2>3. userMoves' \in 0..MaxUserMoves
    BY <1>2 DEF UserChanges, IndInv, TypeOK
  <2>4. QED
    BY <1>1, <1>2, <2>1, <2>2, <2>3 DEF UserChanges, IndInv, TypeOK, TasksAreSound
<1>3. CASE BreakWatch \/ DropEvents
  <2>1. watch' \in WatchStates /\ events' \subseteq Names
    BY <1>3 DEF BreakWatch, DropEvents, WatchStates, IndInv, TypeOK
  <2>2. outages' \in 0..MaxFaults
    BY <1>3 DEF BreakWatch, DropEvents, IndInv, TypeOK
  <2>3. QED
    BY <1>1, <1>3, <2>1, <2>2 DEF BreakWatch, DropEvents, store, IndInv, TypeOK, TasksAreSound
<1>4. CASE Crash
  <2>1. TasksAreSound'
    <3>1. task' \in [Workers -> Tasks] /\ holders' \in [Names -> SUBSET Workers]
      BY <1>4, IdleIsTask DEF Crash
    <3>2. \A w \in Workers : TaskFits(w)' /\ HoldsItsName(w)'
      BY <1>4, IdleIsTask DEF Crash, TaskFits, HoldsItsName, Inside, Reserved, Staged
    <3>3. QED
      BY <3>1, <3>2 DEF TasksAreSound
  <2>2. watch' \in WatchStates /\ scan' \in [Scans -> ScanStates]
    BY <1>4 DEF Crash, WatchStates, NoScan, ScanStates
  <2>3. outages' \in 0..MaxFaults /\ events' \subseteq Names
    BY <1>4 DEF Crash, IndInv, TypeOK
  <2>4. QED
    BY <1>4, <2>1, <2>2, <2>3 DEF Crash, store, IndInv, TypeOK, TasksAreSound
<1>5. CASE Startup
  <2>1. RepairStore(Doomed, Doomed, {}) /\ Doomed \in SUBSET Contents
    BY <1>5, NothingIsRepairable DEF Startup, IndInv, Doomed, Zombies
  <2>2. watch' \in WatchStates /\ scan' \in [Scans -> ScanStates]
    BY <1>5 DEF Startup, StartScan, NoScan, ScanStates, WatchStates, IndInv, TypeOK
  <2>3. QED
    BY <1>1, <1>5, <2>1, <2>2, RepairTyped DEF Startup, bounds, IndInv, TypeOK, TasksAreSound
<1>6. ASSUME NEW dropped \in SUBSET Contents, NEW unmapped \in SUBSET dropped,
             StartupDies(dropped, unmapped)
      PROVE  IndInv'
  <2>1. RepairStore(dropped, unmapped, {}) /\ unmapped \in SUBSET Contents
    BY <1>6 DEF StartupDies
  <2>2. outages' \in 0..MaxFaults
    BY <1>6 DEF StartupDies, IndInv, TypeOK
  <2>3. QED
    BY <1>1, <1>6, <2>1, <2>2, RepairTyped DEF StartupDies, IndInv, TypeOK, TasksAreSound
<1>7. QED
  BY <1>2, <1>3, <1>4, <1>5, <1>6

\* Every step preserves the inductive invariant.
LEMMA NextIndInv == IndInv /\ [Next]_vars => IndInv'
<1>1. ASSUME IndInv, UNCHANGED vars
      PROVE  IndInv'
  BY <1>1 DEF vars, IndInv, TypeOK, TasksAreSound, TaskFits, HoldsItsName, Inside, Reserved, Staged, At
<1>2. QED
  BY <1>1, Starting, Working, Scanning, Supervising, Environment DEF Next

\* In every reachable state each worker's task fits its step and a download under
\* way holds the name it asked for (pipeline.rs:160-207, ingest.rs:258-265).
THEOREM SpecIndInv == Spec => []IndInv
BY InitIndInv, NextIndInv, PTL DEF Spec

\* No two downloads, nor a download and the watcher's loop, are ever at one name
\* (filename_lock.rs:1-5; pipeline.rs:160-167, ingest.rs:252-265).
THEOREM AlwaysOneIngestPerName == Spec => []OneIngestPerName
<1>1. IndInv => OneIngestPerName
  <2> SUFFICES ASSUME IndInv, NEW v \in Workers, NEW w \in Workers,
                      Inside(v), Inside(w), Reserved(v) = Reserved(w)
               PROVE  v = w
    BY DEF OneIngestPerName
  <2>1. holders[Reserved(v)] = {v} /\ holders[Reserved(v)] = {w}
    BY DEF IndInv, TasksAreSound, HoldsItsName
  <2>2. QED
    BY <2>1
<1>2. QED
  BY <1>1, SpecIndInv, PTL

\* Every variable of the library keeps its type: files, records, filemap, tasks,
\* scans and watch.
THEOREM AlwaysTypeOK == Spec => []TypeOK
BY SpecIndInv, PTL DEF IndInv

-----------------------------------------------------------------------------
(* Nobody's bytes are lost: what FilesSurvive says *)

\* Only an overwrite, the move of a staged file and the user touch the files.
LEMMA FilesChange ==
  ASSUME [Next]_vars
  PROVE  \/ disk' = disk
         \/ \E w \in Workers : Unlink(w) \/ Move(w)
         \/ \E n \in UserNames, c \in UserContents \union {Nothing} : UserChanges(n, c)
<1>1. ASSUME NEW w \in Workers, Ingest(w) \/ FixFails(w) \/ Fail(w)
      PROVE  disk' = disk \/ Unlink(w) \/ Move(w)
  BY <1>1 DEF Ingest, Reserve, Hash, Lookup, Rekey, Rekeyed, Known, Restore, Collide, Drop, Unmap,
     Catalogue, Thumb, MapFile, ChooseDest, Fix, FixSave, FixFails, Remap, Fail, store
<1>2. ASSUME \/ \E d \in Downloads, i \in Brought, n \in Wanted, o \in BOOLEAN : StartDownload(d, i, n, o)
             \/ \E n \in Names : TakeEvent(n)
      PROVE  disk' = disk
  BY <1>2 DEF StartDownload, TakeEvent, store
<1>3. ASSUME NEW s \in Scans, ScanStep(s)
      PROVE  disk' = disk
  BY <1>3 DEF ScanStep, Walk, Keys, Prune, Verify, ForgetDead, TakeFile, EndScan, store
<1>4. ASSUME \/ Supervise \/ RestartWatcher \/ BreakWatch \/ DropEvents \/ Crash \/ Startup
             \/ \E dropped \in SUBSET Contents : \E unmapped \in SUBSET dropped :
                  StartupDies(dropped, unmapped)
      PROVE  disk' = disk
  BY <1>4 DEF Supervise, SeeFailure, SeeRescan, Recover, RestartWatcher, BreakWatch, DropEvents,
     Crash, Startup, StartupDies, store
<1>5. CASE UNCHANGED vars
  BY <1>5 DEF vars
<1>6. QED
  BY <1>1, <1>2, <1>3, <1>4, <1>5 DEF Next

\* A worker that is about to move a file was there before, or chooses its name now.
LEMMA ComesToMove ==
  ASSUME IndInv, [Next]_vars, NEW w \in Workers, At(w, "move")'
  PROVE  task'[w] = task[w] \/ ChooseDest(w)
<1> USE DEF IndInv, TypeOK, At
<1>1. ASSUME NEW v \in Workers, Ingest(v) \/ FixFails(v) \/ Fail(v)
      PROVE  task'[w] = task[w] \/ ChooseDest(w)
  <2>1. CASE v # w
    BY ZenonT(60), <1>1, <2>1 DEF Ingest, Reserve, Hash, Lookup, Rekey, Rekeyed, Known, Restore, Collide,
       Unlink, Drop, Unmap, Catalogue, Thumb, MapFile, ChooseDest, Move, Fix, FixSave, FixFails,
       Remap, Fail, Goto, Leave
  <2>2. CASE v = w
    <3>1. ASSUME NEW step \in Steps \ {"move"}, Goto(w, step)
          PROVE  FALSE
      BY <3>1 DEF Goto, Tasks
    <3>2. Leave(w) => FALSE
      BY IdleIsTask DEF Leave
    <3>3. task[w] \in Tasks
      OBVIOUS
    <3>4. ASSUME Hash(w) \/ Lookup(w)
          PROVE  FALSE
      BY <3>1, <3>2, <3>3, <3>4 DEF Hash, Lookup, Tasks
    <3>5. ASSUME Collide(w)
          PROVE  FALSE
      BY <3>1, <3>2, <3>3, <3>5 DEF Collide, Tasks
    <3>6. ASSUME \/ Reserve(w) \/ Rekey(w) \/ Rekeyed(w) \/ Known(w) \/ Restore(w) \/ Unlink(w)
                 \/ Drop(w) \/ Unmap(w) \/ Catalogue(w) \/ Thumb(w) \/ MapFile(w) \/ Move(w)
                 \/ Fix(w) \/ FixSave(w) \/ FixFails(w) \/ Remap(w) \/ Fail(w)
          PROVE  FALSE
      BY <3>1, <3>2, <3>6 DEF Reserve, Rekey, Rekeyed, Known, Restore, Unlink, Drop, Unmap,
         Catalogue, Thumb, MapFile, Move, Fix, FixSave, FixFails, Remap, Fail
    <3>7. QED
      BY <1>1, <2>2, <3>4, <3>5, <3>6 DEF Ingest
  <2>3. QED
    BY <2>1, <2>2
<1>2. ASSUME NEW v \in Workers, NEW t, task' = [task EXCEPT ![v] = t], t.step # "move"
      PROVE  task'[w] = task[w]
  BY <1>2
<1>3. ASSUME NEW d \in Downloads, NEW i \in Brought, NEW n \in Wanted, NEW o \in BOOLEAN,
             StartDownload(d, i, n, o)
      PROVE  task'[w] = task[w]
  <2> DEFINE t == [Idle EXCEPT !.step = "lock", !.want = n, !.id = i, !.overwrite = o]
  <2>1. task' = [task EXCEPT ![d] = t]
    BY <1>3 DEF StartDownload
  <2>2. t.step = "lock"
    BY DEF Idle
  <2> HIDE DEF t
  <2>3. QED
    BY <1>2, <2>1, <2>2
<1>4. ASSUME \/ \E n \in Names : TakeEvent(n)
             \/ \E s \in Scans : ScanStep(s)
      PROVE  task'[w] = task[w]
  <2>1. ASSUME NEW n \in Names, NEW v \in Workers, NEW step \in {"lock", "hash"},
               task' = [task EXCEPT ![v] = [Idle EXCEPT !.step = step, !.path = n]]
        PROVE  task'[w] = task[w]
    <3> DEFINE t == [Idle EXCEPT !.step = step, !.path = n]
    <3>1. t.step = step
      BY DEF Idle
    <3>2. task' = [task EXCEPT ![v] = t]
      BY <2>1
    <3> HIDE DEF t
    <3>3. QED
      BY <1>2, <3>1, <3>2
  <2>2. ASSUME NEW n \in Names, TakeEvent(n)
        PROVE  task'[w] = task[w]
    BY <2>1, <2>2 DEF TakeEvent
  <2>3. ASSUME NEW s \in Scans, NEW n \in Names, TakeFile(s, n)
        PROVE  task'[w] = task[w]
    BY <2>1, <2>3 DEF TakeFile
  <2>4. ASSUME NEW s \in Scans, Walk(s) \/ Keys(s) \/ Prune(s) \/ Verify(s) \/ ForgetDead(s) \/ EndScan(s)
        PROVE  task' = task
    BY <2>4 DEF Walk, Keys, Prune, Verify, ForgetDead, EndScan
  <2>5. QED
    BY <1>4, <2>2, <2>3, <2>4 DEF ScanStep
<1>5. ASSUME Supervise \/ RestartWatcher \/ Crash
      PROVE  task'[w] = task[w]
  BY <1>5, IdleIsTask DEF Supervise, SeeFailure, StopIngesting, SeeRescan, Recover, RestartWatcher, Crash
<1>6. ASSUME \/ \E n \in UserNames, c \in UserContents \union {Nothing} : UserChanges(n, c)
             \/ BreakWatch \/ DropEvents \/ Startup \/ UNCHANGED vars
             \/ \E dropped \in SUBSET Contents : \E unmapped \in SUBSET dropped :
                  StartupDies(dropped, unmapped)
      PROVE  task' = task
  BY <1>6 DEF UserChanges, BreakWatch, DropEvents, Startup, StartupDies, vars
<1>7. QED
  BY <1>1, <1>3, <1>4, <1>5, <1>6 DEF Next

\* Two downloads about to move a file have chosen different names.
LEMMA ChosenApart ==
  ASSUME NamesApart, IndInv, NEW v \in Workers, NEW w \in Workers, v # w,
         At(v, "move"), At(w, "move")
  PROVE  task[v].dest # task[w].dest
<1>1. \A u \in {v, w} :
        /\ Staged(u) /\ task[u].want \in Wanted
        /\ holders[task[u].want] = {u}
        /\ task[u].dest \in Tried(task[u].want)
  BY UnderWay DEF At, TaskFits, HoldsItsName, Inside, Reserved, StagedSteps
<1>2. task[v].want # task[w].want
  <2>1. holders[task[v].want] = {v} /\ holders[task[w].want] = {w}
    BY <1>1
  <2>2. {v} # {w}
    OBVIOUS
  <2>3. QED
    BY <2>1, <2>2
<1>3. QED
  BY <1>1, <1>2 DEF NamesApart

\* No name a download has chosen is taken before its file is moved there.
LEMMA ChosenStaysFree ==
  ASSUME NamesApart, IndInv, ChosenNamesAreFree, [Next]_vars
  PROVE  ChosenNamesAreFree'
<1> SUFFICES ASSUME NEW w \in Workers, At(w, "move")'
             PROVE  disk'[task'[w].dest] = Nothing
  BY DEF ChosenNamesAreFree, At, OnDisk
<1>1. CASE ChooseDest(w)
  <2>1. PICK n \in Tried(task[w].want) :
          ~OnDisk(n) /\ task' = [task EXCEPT ![w].step = "move", ![w].dest = n]
    BY <1>1, Chosen
  <2>2. task'[w].dest = n
    BY <2>1 DEF IndInv, TypeOK, Tasks
  <2>3. disk' = disk
    BY <1>1 DEF ChooseDest, store
  <2>4. QED
    BY <2>1, <2>2, <2>3 DEF OnDisk
<1>2. CASE task'[w] = task[w]
  <2>1. At(w, "move") /\ disk[task[w].dest] = Nothing
    BY <1>2 DEF At, ChosenNamesAreFree, OnDisk
  <2>2. Staged(w) /\ task[w].want \in Wanted /\ task[w].dest \in Tried(task[w].want)
    BY <2>1, UnderWay DEF At, TaskFits, StagedSteps
  <2>3. task[w].dest \in Names
    BY <2>2, TriedAreNames
  <2>4. ASSUME NEW v \in Workers, Unlink(v)
        PROVE  disk'[task[w].dest] = Nothing
    <3>1. disk' = [disk EXCEPT ![task[v].want] = Nothing]
      BY <2>4 DEF Unlink
    <3>2. QED
      BY <2>1, <2>3, <3>1 DEF IndInv, TypeOK
  <2>5. ASSUME NEW v \in Workers, Move(v)
        PROVE  disk'[task[w].dest] = Nothing
    <3>1. v # w
      BY <1>2, <2>1, <2>5 DEF Move, Goto, At, IndInv, TypeOK, Tasks
    <3>2. task[v].dest # task[w].dest
      BY <2>1, <2>5, <3>1, ChosenApart DEF Move
    <3>3. QED
      BY <2>1, <2>3, <2>5, <3>2 DEF Move, IndInv, TypeOK
  <2>6. ASSUME NEW n \in UserNames, NEW c \in UserContents \union {Nothing}, UserChanges(n, c)
        PROVE  disk'[task[w].dest] = Nothing
    <3>1. MaxUserMoves # 0
      BY <2>6 DEF UserChanges, IndInv, TypeOK
    <3>2. task[w].dest # n
      BY <2>2, <3>1 DEF NamesApart
    <3>3. QED
      BY <2>1, <2>3, <2>6, <3>2 DEF UserChanges, IndInv, TypeOK
  <2>7. QED
    BY <1>2, <2>1, <2>4, <2>5, <2>6, FilesChange
<1>3. QED
  BY <1>1, <1>2, ComesToMove

\* What a step does to the files.
Survives == \A n \in Names : disk[n] \notin {Nothing, disk'[n]} =>
              \/ userMoves' # userMoves
              \/ \E w \in Downloads : At(w, "unlink") /\ task[w].want = n

\* A step takes no bytes away but the user's own, or an overwrite's of the name it
\* was asked for.
LEMMA StepSurvives ==
  ASSUME IndInv, ChosenNamesAreFree, [Next]_vars
  PROVE  Survives
<1> SUFFICES ASSUME NEW n \in Names, disk[n] \notin {Nothing, disk'[n]}
             PROVE  \/ userMoves' # userMoves
                    \/ \E w \in Downloads : At(w, "unlink") /\ task[w].want = n
  BY DEF Survives
<1>1. ASSUME NEW w \in Workers, Unlink(w)
      PROVE  w \in Downloads /\ At(w, "unlink") /\ task[w].want = n
  <2>1. At(w, "unlink") /\ Staged(w) /\ w \in Downloads
    BY <1>1, UnderWay DEF Unlink, At, TaskFits, StagedSteps
  <2>2. QED
    BY <1>1, <2>1 DEF Unlink, IndInv, TypeOK
<1>2. ASSUME NEW w \in Workers, Move(w)
      PROVE  FALSE
  <2>1. disk[task[w].dest] = Nothing
    BY <1>2 DEF Move, ChosenNamesAreFree, OnDisk
  <2>2. QED
    BY <1>2, <2>1 DEF Move, IndInv, TypeOK
<1>3. ASSUME NEW m \in UserNames, NEW c \in UserContents \union {Nothing}, UserChanges(m, c)
      PROVE  userMoves' # userMoves
  BY <1>3 DEF UserChanges, IndInv, TypeOK
<1>4. QED
  BY <1>1, <1>2, <1>3, FilesChange

\* No download, scan, repair or crash ever takes away or replaces the bytes of a
\* file, however many overlap: only the user does, and a download told to overwrite
\* the name it was asked for (ingest.rs:258-265).  It rests on NamesApart: the
\* name unique_dest_path finds is not reserved (ingest.rs:312, 766-798).
THEOREM AlwaysFilesSurvive ==
  ASSUME NamesApart
  PROVE  Spec => FilesSurvive
<1>1. Init => ChosenNamesAreFree
  BY IdleIsTask DEF Init, ChosenNamesAreFree, At
<1>2. IndInv /\ ChosenNamesAreFree /\ [Next]_vars => ChosenNamesAreFree'
  BY ChosenStaysFree
<1>3. IndInv /\ ChosenNamesAreFree /\ [Next]_vars => [Survives]_vars
  BY StepSurvives
<1>4. QED
  BY <1>1, <1>2, <1>3, SpecIndInv, PTL DEF Spec, FilesSurvive, Survives

HIDE DEF Scans, Workers, Contents, Steps, Phases, Modes, Stems

-----------------------------------------------------------------------------
Calm == /\ NamesApart
        /\ IndInv /\ ChosenNamesAreFree /\ Orderly /\ TasksBegin
        /\ CleanInv

CleanStep == [Next]_vars /\ Clean'

\* What the constants are.
LEMMA TheConstants ==
  /\ Nothing \notin Names /\ Nothing \notin Contents
  /\ Wanted \subseteq Names /\ UserNames \subseteq Names /\ Changing \subseteq Names
  /\ Brought \subseteq Contents /\ UserContents \subseteq Contents
  /\ Contents \subseteq Brought \union UserContents
  /\ Downloads \subseteq Workers /\ Scans \subseteq Workers /\ Watcher \in Workers
  /\ Watcher \notin Scans /\ Watcher \notin Downloads /\ Downloads \cap Scans = {}
  /\ Boot \in Scans /\ CatchUp \in Scans /\ Boot # CatchUp
BY NumberedAssumption, WorkersAssumption DEF Changing, Contents, Workers, Scans

\* What the wanted names, and the names tried for them, are.
LEMMA TheNames ==
  /\ \A n \in Wanted : n \in Tried(n) /\ Tried(n) \subseteq Names
  /\ NamesApart => \A n \in Wanted : Tried(n) \cap Changing = {} /\ n \notin Changing
<1>1. \A n \in Wanted : Numbered[n] \in Seq(Names) /\ Len(Numbered[n]) > 0 /\ Numbered[n][1] = n
  BY NumberedAssumption
<1>2. \A n \in Wanted : 1 \in DOMAIN Numbered[n]
  BY <1>1
<1>3. \A n \in Wanted : n \in Tried(n) /\ Tried(n) \subseteq Names
  BY <1>1, <1>2 DEF Tried
<1>4. NamesApart => \A n \in Wanted : Tried(n) \cap Changing = {}
  BY DEF NamesApart, Changing
<1>5. QED
  BY <1>3, <1>4

\* Two wanted names have no tried name in common.
LEMMA TriedOnce ==
  ASSUME NamesApart, NEW m \in Wanted, NEW n \in Wanted, NEW k \in Tried(m), k \in Tried(n)
  PROVE  m = n
BY DEF NamesApart

\* What nobody excuses now, nobody excused before.
LEMMA CleanBefore ==
  ASSUME IndInv, CleanStep
  PROVE  /\ Clean
         /\ \A w \in Workers : ~FixFails(w) /\ ~Fail(w)
<1>1. errors \in Nat /\ raced \in BOOLEAN /\ errors' = 0 /\ raced' = FALSE
  BY DEF IndInv, TypeOK, CleanStep, Clean, BoundsAssumption
<1> HIDE DEF Clean
<1>2. \A w \in Workers : FixFails(w) \/ Fail(w) => errors' = errors + 1
  BY DEF FixFails, Fail
<1>3. \A w \in Workers : ~FixFails(w) /\ ~Fail(w)
  BY <1>1, <1>2
<1> DEFINE Kept == errors' = errors /\ (raced => raced')
<1>4. ASSUME NEW w \in Workers, Ingest(w)
      PROVE  Kept
  BY <1>1, <1>4 DEF Ingest, Reserve, Hash, Lookup, Rekey, Rekeyed, Known, Restore, Collide, Unlink, Drop,
     Unmap, Catalogue, Thumb, MapFile, ChooseDest, Move, Fix, FixSave, Remap, NoteRace,
     NoteOutdated, Others, bounds
<1>5. ASSUME NEW s \in Scans, ScanStep(s)
      PROVE  Kept
  BY <1>1, <1>5 DEF ScanStep, Walk, Keys, Prune, Verify, ForgetDead, TakeFile, EndScan, bounds
<1>6. ASSUME \/ \E d \in Downloads, i \in Brought, n \in Wanted, o \in BOOLEAN : StartDownload(d, i, n, o)
             \/ \E n \in Names : TakeEvent(n)
             \/ Supervise \/ RestartWatcher
      PROVE  Kept
  BY <1>1, <1>6 DEF StartDownload, TakeEvent, Supervise, SeeFailure, SeeRescan, Recover, RestartWatcher,
     Others, bounds
<1>7. ASSUME \/ BreakWatch \/ DropEvents \/ Crash \/ Startup \/ UNCHANGED vars
             \/ \E dropped \in SUBSET Contents : \E unmapped \in SUBSET dropped :
                  StartupDies(dropped, unmapped)
      PROVE  Kept
  BY <1>1, <1>7 DEF BreakWatch, DropEvents, Crash, Startup, StartupDies, bounds, vars
<1>8. ASSUME NEW n \in UserNames, NEW c \in UserContents \union {Nothing}, UserChanges(n, c)
      PROVE  Kept
  BY <1>1, <1>8 DEF UserChanges, NoteRace
<1>9. Kept
  BY <1>3, <1>4, <1>5, <1>6, <1>7, <1>8 DEF Next, CleanStep
<1>10. QED
  BY <1>1, <1>3, <1>9 DEF Clean

-----------------------------------------------------------------------------
(* What is known of a task *)

\* Its fields.
LEMMA TheFields ==
  ASSUME IndInv, NEW w \in Workers
  PROVE  /\ task[w] \in Tasks /\ task[w].step \in Steps
         /\ task[w].path \in Names \union {Nothing} /\ task[w].want \in Names \union {Nothing}
         /\ task[w].id \in Contents \union {Nothing} /\ task[w].other \in Contents \union {Nothing}
         /\ task[w].dest \in Names \union {Nothing}
BY DEF IndInv, TypeOK, Tasks

\* A staged file has a download's task, a file in place one of the others'.
LEMMA TheTask ==
  ASSUME IndInv, TasksBegin, NEW w \in Workers, task[w] # Idle
  PROVE  /\ ~At(w, "idle")
         /\ Staged(w) => /\ w \in Downloads /\ task[w].want \in Wanted
                         /\ task[w].id \in Brought /\ task[w].path = Nothing
         /\ ~Staged(w) => InPlace(w) /\ w \in Scans \union {Watcher} /\ task[w].path \in Names
         /\ task[w].step \in StagedSteps => Staged(w)
         /\ task[w].step \in FoundSteps => ~Staged(w)
         /\ Staged(w) \/ task[w].step \notin {"lock", "hash"} => task[w].id \in Contents
         /\ InPlace(w) /\ task[w].step \in {"lock", "hash"} => task[w].id = Nothing /\ task[w].other = Nothing
         /\ At(w, "rekey") => task[w].other \in Contents
         /\ At(w, "move") => task[w].dest \in Tried(task[w].want)
BY DEF IndInv, TasksAreSound, TaskFits, TasksBegin, InPlace

\* An idle task has nothing in hand.
LEMMA IdleHasNothing ==
  /\ Idle.step = "idle" /\ Idle.path = Nothing /\ Idle.want = Nothing /\ Idle.id = Nothing
  /\ Idle.other = Nothing /\ Idle.dest = Nothing
  /\ Idle \in Tasks
BY IdleIsTask DEF Idle

\* One name, one ingest: of two that are past their reservation.
LEMMA OneAtAName ==
  ASSUME IndInv, NEW v \in Workers, NEW w \in Workers, v # w,
         task[v] # Idle, task[w] # Idle, ~At(v, "lock"), ~At(w, "lock"),
         Staged(v) \/ v \notin Scans, Staged(w) \/ w \notin Scans
  PROVE  Reserved(v) # Reserved(w)
<1>1. holders[Reserved(v)] = {v} /\ holders[Reserved(w)] = {w}
  BY DEF IndInv, TasksAreSound, HoldsItsName, Inside
<1>2. {v} # {w}
  OBVIOUS
<1>3. QED
  BY <1>1, <1>2

-----------------------------------------------------------------------------
(* What each step does to its worker's task *)

Alone(w) == \A v \in Workers \ {w} : task'[v] = task[v]

Keeps(w) ==
  /\ task'[w].path = task[w].path /\ task'[w].want = task[w].want
  /\ task'[w].id = task[w].id

\* From one step to another with the same file and the same bytes in hand.
Advances(w, from, to) ==
  /\ task[w] # Idle /\ task'[w] # Idle
  /\ task[w].step = from /\ task'[w].step = to
  /\ Keeps(w) /\ task'[w].other = task[w].other /\ task'[w].dest = task[w].dest
  /\ Alone(w)

Ends(w, from) == task[w] # Idle /\ task[w].step = from /\ task'[w] = Idle /\ Alone(w)

\* A step that only goes on to the next leaves all else in its task, and other tasks, alone.
LEMMA GotoDoes ==
  ASSUME IndInv, NEW w \in Workers, NEW from \in Steps \ {"idle"}, NEW to \in Steps \ {"idle"},
         At(w, from), Goto(w, to)
  PROVE  Advances(w, from, to)
<1>1. task[w] \in Tasks
  BY TheFields
<1>2. task'[w] = [task[w] EXCEPT !.step = to] /\ Alone(w)
  BY DEF Goto, IndInv, TypeOK, Alone
<1>3. task'[w].step = to /\ Keeps(w) /\ task'[w].other = task[w].other /\ task'[w].dest = task[w].dest
  BY <1>1, <1>2 DEF Tasks, Keeps
<1>4. QED
  BY <1>2, <1>3, IdleHasNothing DEF Advances, At

\* A step that leaves the ingest empties its own task and no other.
LEMMA LeaveDoes ==
  ASSUME IndInv, NEW w \in Workers, NEW from \in Steps \ {"idle"}, At(w, from), Leave(w)
  PROVE  Ends(w, from)
BY IdleHasNothing DEF Leave, IndInv, TypeOK, Alone, At, Ends

\* Hashing puts the bytes it found into its own task, and nothing else.
LEMMA HashDoes ==
  ASSUME IndInv, NEW w \in Workers, ~At(w, "idle"), NEW x,
         task' = [task EXCEPT ![w].step = "lookup", ![w].id = x]
  PROVE  /\ task[w] # Idle /\ task'[w] # Idle /\ Alone(w)
         /\ task'[w].step = "lookup" /\ task'[w].id = x
         /\ task'[w].path = task[w].path /\ task'[w].want = task[w].want
         /\ task'[w].other = task[w].other /\ task'[w].dest = task[w].dest
<1> DEFINE t == [task[w] EXCEPT !.step = "lookup", !.id = x]
<1>1. task[w] \in Tasks /\ task[w] # Idle
  BY TheFields, IdleHasNothing DEF At
<1>2. /\ t.step = "lookup" /\ t.id = x
      /\ t.path = task[w].path /\ t.want = task[w].want
      /\ t.other = task[w].other /\ t.dest = task[w].dest
  BY <1>1 DEF Tasks
<1>3. task' = [task EXCEPT ![w] = t] /\ task'[w] = t
  BY <1>1 DEF IndInv, TypeOK
<1> HIDE DEF t
<1>4. Alone(w)
  BY <1>3 DEF Alone, IndInv, TypeOK
<1>5. t # Idle
  BY <1>2, IdleHasNothing
<1>6. QED
  BY <1>1, <1>2, <1>3, <1>4, <1>5 DEF Keeps

\* Finding other bytes at its name puts them into its own task, and nothing else.
LEMMA OtherDoes ==
  ASSUME IndInv, NEW w \in Workers, ~At(w, "idle"), NEW x, NEW s \in {"rekey", "unlink"},
         task' = [task EXCEPT ![w].step = s, ![w].other = x]
  PROVE  /\ task[w] # Idle /\ task'[w] # Idle /\ Alone(w)
         /\ task'[w].step = s /\ task'[w].other = x
         /\ Keeps(w) /\ task'[w].dest = task[w].dest
<1> DEFINE t == [task[w] EXCEPT !.step = s, !.other = x]
<1>1. task[w] \in Tasks /\ task[w] # Idle
  BY TheFields, IdleHasNothing DEF At
<1>2. /\ t.step = s /\ t.other = x
      /\ t.path = task[w].path /\ t.want = task[w].want /\ t.id = task[w].id /\ t.dest = task[w].dest
  BY <1>1 DEF Tasks
<1>3. task' = [task EXCEPT ![w] = t] /\ task'[w] = t
  BY <1>1 DEF IndInv, TypeOK
<1> HIDE DEF t
<1>4. Alone(w)
  BY <1>3 DEF Alone, IndInv, TypeOK
<1>5. t # Idle
  BY <1>2, IdleHasNothing
<1>6. QED
  BY <1>1, <1>2, <1>3, <1>4, <1>5 DEF Keeps

\* Choosing a free name puts it into its own task, and nothing else.
LEMMA DestDoes ==
  ASSUME IndInv, NEW w \in Workers, ~At(w, "idle"), NEW x,
         task' = [task EXCEPT ![w].step = "move", ![w].dest = x]
  PROVE  /\ task[w] # Idle /\ task'[w] # Idle /\ Alone(w)
         /\ task'[w].step = "move" /\ task'[w].dest = x
         /\ Keeps(w) /\ task'[w].other = task[w].other
<1> DEFINE t == [task[w] EXCEPT !.step = "move", !.dest = x]
<1>1. task[w] \in Tasks /\ task[w] # Idle
  BY TheFields, IdleHasNothing DEF At
<1>2. /\ t.step = "move" /\ t.dest = x
      /\ t.path = task[w].path /\ t.want = task[w].want /\ t.id = task[w].id /\ t.other = task[w].other
  BY <1>1 DEF Tasks
<1>3. task' = [task EXCEPT ![w] = t] /\ task'[w] = t
  BY <1>1 DEF IndInv, TypeOK
<1> HIDE DEF t
<1>4. Alone(w)
  BY <1>3 DEF Alone, IndInv, TypeOK
<1>5. t # Idle
  BY <1>2, IdleHasNothing
<1>6. QED
  BY <1>1, <1>2, <1>3, <1>4, <1>5 DEF Keeps

-----------------------------------------------------------------------------
(* What a step is: the kinds of step, by what they change *)

Kept == UNCHANGED <<disk, record, filemap>>
Aside == UNCHANGED <<events, scan, watch>>

\* A task begins: a staged file, or a file in place.
BeginsStaged(w) ==
  /\ w \in Downloads /\ task[w] = Idle /\ task'[w] # Idle
  /\ task'[w].step = "lock" /\ task'[w].want \in Wanted /\ task'[w].id \in Brought
  /\ task'[w].path = Nothing /\ task'[w].other = Nothing
BeginsInPlace(w) ==
  /\ w \in Scans \union {Watcher} /\ task[w] = Idle /\ task'[w] # Idle
  /\ task'[w].step \in {"lock", "hash"} /\ task'[w].want = Nothing /\ task'[w].path \in Names
  /\ task'[w].id = Nothing /\ task'[w].other = Nothing

\* No file, record or mapping changes; tasks begin or end.
Quiet ==
  /\ Kept
  /\ \A w \in Workers :
       \/ task'[w] = task[w] \/ BeginsStaged(w) \/ BeginsInPlace(w)
       \/ task'[w] = Idle /\ (w \in {Watcher, CatchUp} \/ watch'.mode = "down")

\* A worker looks at something, and decides.
Looks(w) ==
  /\ Kept /\ Aside /\ Alone(w) /\ task[w] # Idle
  /\ \/ Advances(w, "lock", "known") /\ Staged(w)
     \/ Advances(w, "lock", "hash") /\ InPlace(w)
     \/ Ends(w, "hash") /\ InPlace(w) /\ ~OnDisk(task[w].path)
     \/ /\ At(w, "hash") /\ InPlace(w) /\ OnDisk(task[w].path)
        /\ task'[w] # Idle /\ task'[w].step = "lookup" /\ task'[w].id = disk[task[w].path]
        /\ task'[w].path = task[w].path /\ task'[w].want = task[w].want
        /\ task'[w].other = task[w].other
     \/ Ends(w, "lookup") /\ InPlace(w) /\ filemap[task[w].path] = task[w].id
     \/ Advances(w, "lookup", "known") /\ InPlace(w) /\ filemap[task[w].path] = Nothing
     \/ /\ At(w, "lookup") /\ InPlace(w) /\ filemap[task[w].path] \notin {Nothing, task[w].id}
        /\ task'[w] # Idle /\ task'[w].step = "rekey" /\ task'[w].other = filemap[task[w].path]
        /\ Keeps(w)
     \/ Advances(w, "rekey", "known") /\ InPlace(w)
     \/ Advances(w, "known", "restore") /\ Exists(task[w].id)
     \/ Advances(w, "known", "collide") /\ Staged(w) /\ ~Exists(task[w].id)
     \/ Advances(w, "known", "catalogue") /\ InPlace(w) /\ ~Exists(task[w].id)
     \/ Ends(w, "restore") /\ Staged(w)
     \/ /\ Advances(w, "collide", "catalogue") /\ Staged(w)
        /\ \A i \in Contents : Exists(i) /\ record[i].file = task[w].want =>
             Exists(task[w].id) /\ record[task[w].id].file = task[w].want
     \/ Ends(w, "collide") /\ Staged(w)
     \/ /\ At(w, "collide") /\ Staged(w) /\ task'[w] # Idle /\ task'[w].step = "unlink" /\ Keeps(w)
        /\ task'[w].dest = task[w].dest
        /\ task'[w].other \in Contents \ {task[w].id}
        /\ Exists(task'[w].other) /\ record[task'[w].other].file = task[w].want
     \/ Advances(w, "thumb", "dest") /\ Staged(w)
     \/ Advances(w, "thumb", "map") /\ InPlace(w)
     \/ Advances(w, "map", "dest") /\ Staged(w)
     \/ /\ At(w, "dest") /\ Staged(w) /\ task'[w] # Idle /\ task'[w].step = "move" /\ Keeps(w)
        /\ task'[w].other = task[w].other
        /\ task'[w].dest \in Tried(task[w].want) /\ ~OnDisk(task'[w].dest)
     \/ Advances(w, "fix", "fixsave") /\ Staged(w) /\ Exists(task[w].id)
     \/ Advances(w, "fix", "remap") /\ Staged(w) /\ ~Exists(task[w].id)

\* The record of the user's old bytes becomes that of the new.
Rekeys(w) ==
  /\ Advances(w, "rekey", "rekeyed") /\ InPlace(w)
  /\ UNCHANGED <<disk, filemap>> /\ Aside
  /\ task[w].path \in Changing /\ task[w].id # task[w].other
  /\ task[w].id \in Contents /\ task[w].other \in Contents
  /\ Exists(task[w].other) /\ record[task[w].other].file = task[w].path
  /\ record'[task[w].id] = record[task[w].other] /\ record'[task[w].other] = Nothing
  /\ \A i \in Contents \ {task[w].id, task[w].other} : record'[i] = record[i]

\* An overwritten archive's record goes, and its mapping.
Drops(w) ==
  /\ Advances(w, "drop", "unmap") /\ Staged(w)
  /\ UNCHANGED <<disk, filemap>> /\ Aside
  /\ task[w].other \in Contents /\ Exists(task[w].other)
  /\ record[task[w].other].file = task[w].want /\ ~OnDisk(task[w].want)
  /\ record'[task[w].other] = Nothing
  /\ \A i \in Contents \ {task[w].other} : record'[i] = record[i]
Unmaps(w) ==
  /\ Advances(w, "unmap", "catalogue") /\ Staged(w) /\ ~OnDisk(task[w].want)
  /\ UNCHANGED <<disk, record>> /\ Aside
  /\ filemap'[task[w].want] = Nothing
  /\ \A n \in Names \ {task[w].want} : filemap'[n] = filemap[n]

\* A record is written, when the filemap has a staged file's bytes nowhere else and
\* they are none of the user's.
Catalogues(w) ==
  /\ \/ Advances(w, "catalogue", "thumb")
     \/ Advances(w, "thumb", "dest") /\ Staged(w)
     \/ Advances(w, "thumb", "map") /\ InPlace(w)
  /\ UNCHANGED <<disk, filemap>> /\ Aside
  /\ Staged(w) => /\ \A n \in Names : filemap[n] = task[w].id => disk[n] = filemap[n]
                  /\ \A n \in Changing : ~Has(n, task[w].id)
  /\ record'[task[w].id] # Nothing /\ record'[task[w].id].file = task[w].path
  /\ \A i \in Contents \ {task[w].id} : record'[i] = record[i]
FixSaves(w) ==
  /\ Advances(w, "fixsave", "remap") /\ Staged(w)
  /\ UNCHANGED <<disk, filemap>> /\ Aside
  /\ disk[task[w].dest] = task[w].id /\ task[w].dest \in Tried(task[w].want)
  /\ record'[task[w].id] # Nothing /\ record'[task[w].id].file = task[w].dest
  /\ \A i \in Contents \ {task[w].id} : record'[i] = record[i]

\* A file in place, or a moved one, gets its mapping.
MapsPath(w) ==
  /\ \E from \in {"rekeyed", "restore", "map"} : Ends(w, from)
  /\ InPlace(w) /\ task[w].id \in Contents
  /\ UNCHANGED <<disk, record>> /\ Aside
  /\ filemap'[task[w].path] = task[w].id
  /\ \A n \in Names \ {task[w].path} : filemap'[n] = filemap[n]
Remaps(w) ==
  /\ Ends(w, "remap") /\ Staged(w) /\ task[w].dest \in Tried(task[w].want)
  /\ UNCHANGED <<disk, record>> /\ Aside
  /\ disk[task[w].dest] = task[w].id
  /\ filemap'[task[w].dest] = task[w].id
  /\ \A n \in Names \ {task[w].dest} : filemap'[n] = filemap[n]

\* Bytes that go away, or are replaced, are nobody else's, and no scan runs.
Loses(n) ==
  /\ OnDisk(n) => ~Doubled(n)
  /\ OnDisk(n) \/ filemap[n] # Nothing => \A s \in Scans : scan[s] = NoScan
Unlinks(w) ==
  /\ Advances(w, "unlink", "drop") /\ Staged(w)
  /\ UNCHANGED <<record, filemap>> /\ Aside
  /\ Loses(task[w].want)
  /\ disk'[task[w].want] = Nothing
  /\ \A n \in Names \ {task[w].want} : disk'[n] = disk[n]
Moves(w) ==
  /\ Advances(w, "move", "fix") /\ Staged(w)
  /\ UNCHANGED <<record, filemap, scan, watch>>
  /\ task[w].dest \in Tried(task[w].want) /\ disk[task[w].dest] = Nothing
  /\ events' = IF Reported THEN events \union {task[w].dest} ELSE events
  /\ disk'[task[w].dest] = task[w].id
  /\ \A n \in Names \ {task[w].dest} : disk'[n] = disk[n]

\* The user's files change.
Changes(n) ==
  /\ n \in Changing
  /\ UNCHANGED <<record, filemap, task, scan, watch>>
  /\ Loses(n)
  /\ disk'[n] # Nothing => Fresh(disk'[n])
  /\ events' = IF Reported /\ disk'[n] # Nothing THEN events \union {n} ELSE events
  /\ \A m \in Names \ {n} : disk'[m] = disk[m]

\* A scan forgets mappings, the repair at startup records as well.
Forgets(s) ==
  /\ UNCHANGED <<disk, record, task, events, watch>>
  /\ \A n \in Names : filemap'[n] \in {filemap[n], Nothing}
Repairs ==
  /\ watch.mode = "down" /\ UNCHANGED <<disk, task, events>>
  /\ \A n \in Names : filemap'[n] \in {filemap[n], Nothing}
  /\ \A i \in Contents : record'[i] \in {record[i], Nothing}

Acts(w) ==
  \/ Looks(w) \/ Rekeys(w) \/ Drops(w) \/ Unmaps(w) \/ Catalogues(w) \/ FixSaves(w)
  \/ MapsPath(w) \/ Remaps(w) \/ Unlinks(w) \/ Moves(w)

\* Each step of a worker's ingest is of such a kind.
LEMMA LooksFirst ==
  ASSUME IndInv, TasksBegin, NEW w \in Workers, Reserve(w) \/ Hash(w) \/ Lookup(w) \/ Known(w)
  PROVE  Looks(w)
<1> USE DEF Kept, Aside, store, Others
<1>1. task[w] # Idle
  BY IdleHasNothing DEF Reserve, Hash, Lookup, Known, At
<1>2. Staged(w) \/ InPlace(w)
  BY <1>1 DEF InPlace
<1>3. CASE Reserve(w)
  <2>1. Advances(w, "lock", IF Staged(w) THEN "known" ELSE "hash")
    BY <1>3, GotoDoes DEF Reserve, Steps
  <2>2. QED
    BY <1>1, <1>2, <1>3, <2>1 DEF Looks, Reserve, InPlace, Advances
<1>4. CASE Hash(w)
  <2>1. At(w, "hash") /\ InPlace(w)
    BY <1>1, <1>4, TheTask DEF Hash, At, FoundSteps, InPlace
  <2>2. CASE OnDisk(task[w].path)
    BY <1>1, <1>4, <2>1, <2>2, HashDoes DEF Looks, Hash, At
  <2>3. CASE ~OnDisk(task[w].path)
    BY <1>1, <1>4, <2>1, <2>3, LeaveDoes DEF Looks, Hash, Steps, Ends
  <2>4. QED
    BY <2>2, <2>3
<1>5. CASE Lookup(w)
  <2>1. At(w, "lookup") /\ InPlace(w)
    BY <1>1, <1>5, TheTask DEF Lookup, At, FoundSteps, InPlace
  <2>2. CASE filemap[task[w].path] = task[w].id /\ Leave(w)
    BY <1>1, <1>5, <2>1, <2>2, LeaveDoes DEF Looks, Lookup, Steps, Ends
  <2>3. CASE filemap[task[w].path] = Nothing /\ Goto(w, "known")
    BY <1>1, <1>5, <2>1, <2>3, GotoDoes DEF Looks, Lookup, Steps, Advances
  <2>4. CASE /\ filemap[task[w].path] \notin {Nothing, task[w].id}
             /\ task' = [task EXCEPT ![w].step = "rekey", ![w].other = filemap[task[w].path]]
    BY <1>1, <1>5, <2>1, <2>4, OtherDoes DEF Looks, Lookup, At
  <2>5. QED
    BY <1>5, <2>2, <2>3, <2>4 DEF Lookup
<1>6. CASE Known(w)
  <2>1. At(w, "known")
    BY <1>6 DEF Known
  <2>2. CASE Exists(task[w].id)
    BY <1>1, <1>6, <2>1, <2>2, GotoDoes DEF Looks, Known, Steps, Advances
  <2>3. CASE ~Exists(task[w].id) /\ Staged(w)
    BY <1>1, <1>6, <2>1, <2>3, GotoDoes DEF Looks, Known, Steps, Advances
  <2>4. CASE ~Exists(task[w].id) /\ ~Staged(w)
    BY <1>1, <1>2, <1>6, <2>1, <2>4, GotoDoes DEF Looks, Known, Steps, Advances
  <2>5. QED
    BY <2>2, <2>3, <2>4
<1>7. QED
  BY <1>3, <1>4, <1>5, <1>6

\* The later steps of an ingest that only look and decide are of such a kind.
LEMMA LooksOn ==
  ASSUME IndInv, TasksBegin, NEW w \in Workers,
         Collide(w) \/ ChooseDest(w) \/ Fix(w) \/ (MapFile(w) /\ Staged(w)) \/ (Restore(w) /\ Staged(w))
  PROVE  Looks(w)
<1> USE DEF Kept, Aside, store, Others
<1>1. task[w] # Idle
  BY IdleHasNothing DEF Collide, ChooseDest, Fix, MapFile, Restore, At
<1>2. Staged(w)
  BY <1>1, TheTask DEF Collide, ChooseDest, Fix, MapFile, Restore, At, StagedSteps
<1>3. CASE Collide(w)
  <2> DEFINE taken == {i \in Contents : Exists(i) /\ record[i].file = task[w].want}
  <2>1. At(w, "collide")
    BY <1>3 DEF Collide
  <2>2. CASE Goto(w, "catalogue") /\ (taken = {} \/ task[w].id \in taken)
    <3>1. Advances(w, "collide", "catalogue")
      BY <2>1, <2>2, GotoDoes DEF Steps
    <3>2. QED
      BY <1>1, <1>2, <1>3, <2>2, <3>1 DEF Looks, Collide, Advances
  <2>3. CASE Leave(w)
    BY <1>1, <1>2, <1>3, <2>1, <2>3, LeaveDoes DEF Looks, Collide, Steps, Ends
  <2>4. ASSUME NEW i \in taken, i # task[w].id,
               task' = [task EXCEPT ![w].step = "unlink", ![w].other = i]
        PROVE  Looks(w)
    BY <1>1, <1>2, <1>3, <2>1, <2>4, OtherDoes DEF Looks, Collide, At
  <2>5. QED
    BY <1>3, <2>2, <2>3, <2>4 DEF Collide
<1>4. CASE ChooseDest(w)
  <2>1. PICK n \in Tried(task[w].want) :
          ~OnDisk(n) /\ task' = [task EXCEPT ![w].step = "move", ![w].dest = n]
    BY <1>4, Chosen
  <2>2. At(w, "dest")
    BY <1>4 DEF ChooseDest
  <2>3. ~At(w, "idle") /\ task' = [task EXCEPT ![w].step = "move", ![w].dest = n]
    BY <2>1, <2>2 DEF At
  <2>4. task'[w] # Idle /\ Alone(w) /\ task'[w].step = "move" /\ task'[w].dest = n /\ Keeps(w)
        /\ task'[w].other = task[w].other
    BY <2>3, DestDoes
  <2>5. Kept /\ Aside
    BY <1>4 DEF ChooseDest
  <2>6. QED
    BY <1>1, <1>2, <2>1, <2>2, <2>4, <2>5 DEF Looks
<1>5. CASE Fix(w)
  <2>1. Advances(w, "fix", IF Exists(task[w].id) THEN "fixsave" ELSE "remap")
    BY <1>5, GotoDoes DEF Fix, Steps
  <2>2. QED
    BY <1>1, <1>2, <1>5, <2>1 DEF Looks, Fix, Advances
<1>6. CASE MapFile(w) /\ Staged(w)
  <2>1. Advances(w, "map", "dest")
    BY <1>6, GotoDoes DEF MapFile, Steps
  <2>2. QED
    BY <1>1, <1>2, <1>6, <2>1 DEF Looks, MapFile, Advances
<1>7. CASE Restore(w) /\ Staged(w)
  <2>1. Ends(w, "restore")
    BY <1>7, LeaveDoes DEF Restore, Steps
  <2>2. QED
    BY <1>1, <1>2, <1>7, <2>1 DEF Looks, Restore, Ends
<1>8. QED
  BY <1>3, <1>4, <1>5, <1>6, <1>7

\* The file of an archive.
LEMMA TheRecord ==
  ASSUME IndInv, NEW i \in Contents, Exists(i)
  PROVE  record[i].file \in Names \union {Nothing}
BY DEF IndInv, TypeOK, Records, Exists

\* A rekey moves the record of a user's old bytes, or finds none to move
\* (pipeline.rs: only the user's names have lost bytes that the filemap still has).
LEMMA RekeysOrLooks ==
  ASSUME Calm, NEW w \in Workers, Rekey(w)
  PROVE  Rekeys(w) \/ Looks(w)
<1>1. IndInv /\ TasksBegin /\ At(w, "rekey") /\ task[w] # Idle
  BY IdleHasNothing DEF Calm, Rekey, At
<1>2. InPlace(w) /\ task[w].id \in Contents /\ task[w].other \in Contents /\ task[w].path \in Names
  BY <1>1, TheTask DEF At, FoundSteps
<1>3. CASE ~Exists(task[w].other)
  <2>1. Advances(w, "rekey", "known")
    BY <1>1, <1>3, GotoDoes DEF Rekey, Steps
  <2>2. Kept /\ Aside
    BY <1>3 DEF Rekey, Kept, Aside, Others
  <2>3. QED
    BY <1>1, <1>2, <2>1, <2>2 DEF Looks, Advances
<1>4. CASE Exists(task[w].other)
  <2>1. Advances(w, "rekey", "rekeyed")
    BY <1>1, <1>4, GotoDoes DEF Rekey, Steps
  <2>2. UNCHANGED <<disk, filemap>> /\ Aside
    BY DEF Rekey, Aside, Others
  <2>3. task[w].path \in Changing /\ task[w].id # task[w].other
    BY <1>1, <1>2 DEF Calm, CleanInv, UsersAreRekeyed, At
  <2>4. Has(task[w].path, task[w].other)
    BY <1>2 DEF Has
  <2>5. record[task[w].other].file = task[w].path
    BY <1>2, <1>4, <2>3, <2>4 DEF Calm, CleanInv, UsersAlone
  <2>6. /\ record'[task[w].id] = record[task[w].other] /\ record'[task[w].other] = Nothing
        /\ \A i \in Contents \ {task[w].id, task[w].other} : record'[i] = record[i]
    BY <1>1, <1>2, <1>4, <2>3 DEF Rekey, IndInv, TypeOK
  <2>7. QED
    BY <1>2, <1>4, <2>1, <2>2, <2>3, <2>5, <2>6 DEF Rekeys
<1>5. QED
  BY <1>3, <1>4

\* An ingest of a file in place ends by mapping it to the bytes it has hashed.
LEMMA MapsAFile ==
  ASSUME Calm, NEW w \in Workers,
         Rekeyed(w) \/ (Restore(w) /\ ~Staged(w)) \/ (MapFile(w) /\ ~Staged(w))
  PROVE  MapsPath(w)
<1>1. IndInv /\ TasksBegin /\ task[w].step \in {"rekeyed", "restore", "map"} /\ task[w] # Idle
  BY IdleHasNothing DEF Calm, Rekeyed, Restore, MapFile, At
<1>2. InPlace(w) /\ task[w].id \in Contents /\ task[w].path \in Names
  BY <1>1, TheTask DEF FoundSteps, Rekeyed, At
<1>3. Leave(w) /\ MapPath(w)
  BY DEF Rekeyed, Restore, MapFile
<1>4. \E from \in {"rekeyed", "restore", "map"} : Ends(w, from)
  BY <1>1, <1>3, LeaveDoes DEF Steps, At
<1>5. UNCHANGED <<disk, record>> /\ Aside
  BY DEF Rekeyed, Restore, MapFile, Others, Aside
<1>6. /\ filemap'[task[w].path] = task[w].id
      /\ \A n \in Names \ {task[w].path} : filemap'[n] = filemap[n]
  BY <1>1, <1>2, <1>3 DEF MapPath, IndInv, TypeOK
<1>7. QED
  BY <1>2, <1>4, <1>5, <1>6 DEF MapsPath

\* Bytes a user's file loses, or an overwrite's.
LEMMA LosesCleanly ==
  ASSUME IndInv, CleanStep, NEW n \in Names, NoteRace(n)
  PROVE  Loses(n)
BY DEF CleanStep, Clean, NoteRace, Loses

\* The three steps of an overwrite are of their kinds: the file, its record, its mapping.
LEMMA Overwrites ==
  ASSUME Calm, CleanStep, NEW w \in Workers, Unlink(w) \/ Drop(w) \/ Unmap(w)
  PROVE  Unlinks(w) \/ Drops(w) \/ Unmaps(w)
<1>1. IndInv /\ TasksBegin /\ task[w] # Idle
  BY IdleHasNothing DEF Calm, Unlink, Drop, Unmap, At
<1>2. Staged(w) /\ task[w].want \in Names
  BY <1>1, TheTask, TheConstants DEF Unlink, Drop, Unmap, At, StagedSteps
<1>3. CASE Unlink(w)
  <2>1. Advances(w, "unlink", "drop")
    BY <1>1, <1>3, GotoDoes DEF Unlink, Steps
  <2>2. Loses(task[w].want)
    BY <1>1, <1>2, <1>3, LosesCleanly DEF Unlink
  <2>3. UNCHANGED <<record, filemap>> /\ Aside
    BY <1>3 DEF Unlink, Aside
  <2>4. disk'[task[w].want] = Nothing /\ \A n \in Names \ {task[w].want} : disk'[n] = disk[n]
    BY <1>1, <1>2, <1>3 DEF Unlink, IndInv, TypeOK
  <2>5. QED
    BY <1>2, <2>1, <2>2, <2>3, <2>4 DEF Unlinks
<1>4. CASE Drop(w)
  <2>1. Advances(w, "drop", "unmap")
    BY <1>1, <1>4, GotoDoes DEF Drop, Steps
  <2>2. UNCHANGED <<disk, filemap>> /\ Aside
    BY <1>4 DEF Drop, Aside, Others
  <2>3. /\ task[w].other \in Contents /\ Exists(task[w].other)
        /\ record[task[w].other].file = task[w].want /\ ~OnDisk(task[w].want)
    BY <1>4 DEF Drop, At, Calm, CleanInv, Overwriting
  <2>4. /\ record'[task[w].other] = Nothing
        /\ \A i \in Contents \ {task[w].other} : record'[i] = record[i]
    BY <1>1, <1>4, <2>3 DEF Drop, IndInv, TypeOK
  <2>5. QED
    BY <1>2, <2>1, <2>2, <2>3, <2>4 DEF Drops
<1>5. CASE Unmap(w)
  <2>1. Advances(w, "unmap", "catalogue")
    BY <1>1, <1>5, GotoDoes DEF Unmap, Steps
  <2>2. UNCHANGED <<disk, record>> /\ Aside
    BY <1>5 DEF Unmap, Aside, Others
  <2>3. ~OnDisk(task[w].want)
    BY <1>5 DEF Unmap, At, Calm, CleanInv, Overwriting
  <2>4. /\ filemap'[task[w].want] = Nothing
        /\ \A n \in Names \ {task[w].want} : filemap'[n] = filemap[n]
    BY <1>1, <1>2, <1>5 DEF Unmap, IndInv, TypeOK
  <2>5. QED
    BY <1>2, <2>1, <2>2, <2>3, <2>4 DEF Unmaps
<1>6. QED
  BY <1>3, <1>4, <1>5

\* Cataloguing, and the thumbnail's save, write a record or find that it is gone.
LEMMA CataloguesOrLooks ==
  ASSUME Calm, CleanStep, NEW w \in Workers, Catalogue(w) \/ Thumb(w)
  PROVE  Catalogues(w) \/ Looks(w)
<1>1. IndInv /\ TasksBegin /\ task[w] # Idle
  BY IdleHasNothing DEF Calm, Catalogue, Thumb, At
<1>2. task[w].id \in Contents /\ (Staged(w) => task[w].path = Nothing) /\ (Staged(w) \/ InPlace(w))
  BY <1>1, TheTask, TheConstants DEF Catalogue, Thumb, At
<1>3. UNCHANGED <<disk, filemap>> /\ Aside
  BY DEF Catalogue, Thumb, Aside, Others
<1>4. record' = [record EXCEPT ![task[w].id] = NewRecord(w)] =>
        /\ record'[task[w].id] = NewRecord(w)
        /\ \A i \in Contents \ {task[w].id} : record'[i] = record[i]
  BY <1>1, <1>2 DEF IndInv, TypeOK
<1>5. NewRecord(w) # Nothing /\ NewRecord(w).file = task[w].path
  <2>1. NewRecord(w).file = task[w].path
    BY DEF NewRecord
  <2>2. NewRecord(w) \in Records
    BY <1>1, NewRecordIsRecord, TheTask
  <2>3. QED
    BY <2>1, <2>2, NothingAssumption
<1>6. CASE Catalogue(w)
  <2>1. Advances(w, "catalogue", "thumb")
    BY <1>1, <1>6, GotoDoes DEF Catalogue, Steps
  <2>2. Staged(w) => /\ \A n \in Names : filemap[n] = task[w].id => disk[n] = filemap[n]
                     /\ \A n \in Changing : ~Has(n, task[w].id)
    BY <1>6 DEF Catalogue, NoteOutdated, CleanStep, Clean
  <2>3. record' = [record EXCEPT ![task[w].id] = NewRecord(w)]
    BY <1>6 DEF Catalogue
  <2>4. QED
    BY <1>3, <1>4, <1>5, <2>1, <2>2, <2>3 DEF Catalogues
<1>7. CASE Thumb(w)
  <2>1. Advances(w, "thumb", IF Staged(w) THEN "dest" ELSE "map")
    BY <1>1, <1>7, GotoDoes DEF Thumb, Steps
  <2>2. CASE record' = record
    BY <1>1, <1>2, <1>3, <2>1, <2>2 DEF Looks, Kept, Advances
  <2>3. CASE record' = [record EXCEPT ![task[w].id] = NewRecord(w)]
    <3>1. Staged(w) => \A n \in Names : filemap[n] = task[w].id => disk[n] = filemap[n]
      BY <1>2, <2>1, TheConstants
         DEF Calm, CleanInv, OutdatedAlone, Before, Deciding, Advances
    <3>2. Staged(w) => \A n \in Changing : ~Has(n, task[w].id)
      BY <1>2, <2>1 DEF Calm, CleanInv, UsersAlone, Before, Deciding, Advances
    <3>3. QED
      BY <1>2, <1>3, <1>4, <1>5, <2>1, <2>3, <3>1, <3>2 DEF Catalogues
  <2>4. QED
    BY <1>7, <2>2, <2>3 DEF Thumb
<1>8. QED
  BY <1>6, <1>7

\* A download's last steps give the moved file its record and its mapping.
LEMMA PlacesAFile ==
  ASSUME Calm, NEW w \in Workers, FixSave(w) \/ Move(w) \/ Remap(w)
  PROVE  FixSaves(w) \/ Moves(w) \/ Remaps(w)
<1>1. IndInv /\ TasksBegin /\ task[w] # Idle
  BY IdleHasNothing DEF Calm, FixSave, Move, Remap, At
<1>2. Staged(w) /\ task[w].id \in Contents /\ task[w].want \in Wanted
  BY <1>1, TheTask, TheConstants DEF FixSave, Move, Remap, At, StagedSteps
<1>3. task[w].dest \in Tried(task[w].want)
  BY <1>1, <1>2, TheTask DEF FixSave, Move, Remap, At, Calm, CleanInv, DownloadsSee
<1>4. task[w].dest \in Names
  BY <1>2, <1>3, TheNames
<1>5. CASE FixSave(w)
  <2>1. Advances(w, "fixsave", "remap")
    BY <1>1, <1>5, GotoDoes DEF FixSave, Steps
  <2>2. disk[task[w].dest] = task[w].id
    BY <1>2, <1>5 DEF FixSave, At, Calm, CleanInv, DownloadsSee
  <2>3. UNCHANGED <<disk, filemap>> /\ Aside
    BY <1>5 DEF FixSave, Aside, Others
  <2> DEFINE r == [file |-> task[w].dest,
                   name |-> IF Exists(task[w].id) THEN record[task[w].id].name ELSE Stem[task[w].want]]
  <2>4. record' = [record EXCEPT ![task[w].id] = r]
    BY <1>5 DEF FixSave
  <2>5. r.file = task[w].dest /\ r # Nothing
    <3>1. r.file \in Names
      BY <1>4
    <3>2. r.name \in Stems
      BY <1>1, <1>2, TheConstants DEF Stems, Exists, Records, IndInv, TypeOK
    <3>3. r \in Records
      BY <3>1, <3>2 DEF Records
    <3>4. QED
      BY <3>3, NothingAssumption
  <2> HIDE DEF r
  <2>6. record'[task[w].id] = r /\ \A i \in Contents \ {task[w].id} : record'[i] = record[i]
    BY <1>1, <1>2, <2>4 DEF IndInv, TypeOK
  <2>7. QED
    BY <1>2, <1>3, <2>1, <2>2, <2>3, <2>5, <2>6 DEF FixSaves
<1>6. CASE Move(w)
  <2>1. Advances(w, "move", "fix")
    BY <1>1, <1>6, GotoDoes DEF Move, Steps
  <2>2. disk[task[w].dest] = Nothing
    BY <1>6 DEF Move, Calm, ChosenNamesAreFree, OnDisk
  <2>3. /\ UNCHANGED <<record, filemap, scan, watch>>
        /\ events' = IF Reported THEN events \union {task[w].dest} ELSE events
    BY <1>6 DEF Move
  <2>4. /\ disk'[task[w].dest] = task[w].id
        /\ \A n \in Names \ {task[w].dest} : disk'[n] = disk[n]
    BY <1>1, <1>4, <1>6 DEF Move, IndInv, TypeOK
  <2>5. QED
    BY <1>2, <1>3, <2>1, <2>2, <2>3, <2>4 DEF Moves
<1>7. CASE Remap(w)
  <2>1. Ends(w, "remap")
    BY <1>1, <1>7, LeaveDoes DEF Remap, Steps
  <2>2. disk[task[w].dest] = task[w].id
    BY <1>2, <1>7 DEF Remap, At, Calm, CleanInv, DownloadsSee
  <2>3. UNCHANGED <<disk, record>> /\ Aside
    BY <1>7 DEF Remap, Aside, Others
  <2>4. /\ filemap'[task[w].dest] = task[w].id
        /\ \A n \in Names \ {task[w].dest} : filemap'[n] = filemap[n]
    BY <1>1, <1>4, <1>7 DEF Remap, IndInv, TypeOK
  <2>5. QED
    BY <1>2, <1>3, <2>1, <2>2, <2>3, <2>4 DEF Remaps
<1>8. QED
  BY <1>5, <1>6, <1>7

\* Every step of an ingest is of one of the kinds.
LEMMA IngestActs ==
  ASSUME Calm, CleanStep, NEW w \in Workers, Ingest(w)
  PROVE  Acts(w)
BY LooksFirst, LooksOn, RekeysOrLooks, MapsAFile, Overwrites, CataloguesOrLooks, PlacesAFile
   DEF Ingest, Acts, Calm

\* The steps of the others.
LEMMA TheStarts ==
  ASSUME IndInv,
         \/ \E d \in Downloads, i \in Brought, n \in Wanted, o \in BOOLEAN : StartDownload(d, i, n, o)
         \/ \E n \in Names : TakeEvent(n)
         \/ \E s \in Scans, n \in Names : TakeFile(s, n)
  PROVE  Quiet
<1> USE DEF Kept, store
<1>1. \A w \in Workers : At(w, "idle") => task[w] = Idle
  BY DEF IndInv, TasksAreSound, TaskFits
<1>2. ASSUME NEW w \in Workers, NEW t, task' = [task EXCEPT ![w] = t], Kept,
             t = task'[w] => BeginsStaged(w) \/ BeginsInPlace(w)
      PROVE  Quiet
  BY <1>2 DEF Quiet, IndInv, TypeOK
<1>3. ASSUME NEW d \in Downloads, NEW i \in Brought, NEW n \in Wanted, NEW o \in BOOLEAN,
             StartDownload(d, i, n, o)
      PROVE  Quiet
  <2> DEFINE t == [Idle EXCEPT !.step = "lock", !.want = n, !.id = i, !.overwrite = o]
  <2>1. t.step = "lock" /\ t.want = n /\ t.id = i /\ t.path = Nothing /\ t.other = Nothing
    BY DEF Idle
  <2>2. task' = [task EXCEPT ![d] = t] /\ At(d, "idle") /\ Kept /\ d \in Workers
    BY <1>3, TheConstants DEF StartDownload
  <2> HIDE DEF t
  <2>3. t = task'[d] => BeginsStaged(d)
    BY <1>1, <2>1, <2>2, IdleHasNothing DEF BeginsStaged
  <2>4. QED
    BY <1>2, <2>2, <2>3
<1>4. ASSUME NEW n \in Names, NEW w \in Scans \union {Watcher}, NEW step \in {"lock", "hash"}, At(w, "idle"),
             task' = [task EXCEPT ![w] = [Idle EXCEPT !.step = step, !.path = n]], Kept
      PROVE  Quiet
  <2> DEFINE t == [Idle EXCEPT !.step = step, !.path = n]
  <2>1. t.step = step /\ t.want = Nothing /\ t.id = Nothing /\ t.path = n /\ t.other = Nothing
    BY DEF Idle
  <2>2. task' = [task EXCEPT ![w] = t] /\ w \in Workers
    BY <1>4, TheConstants
  <2> HIDE DEF t
  <2>3. t = task'[w] => BeginsInPlace(w)
    BY <1>1, <1>4, <2>1, <2>2, IdleHasNothing DEF BeginsInPlace
  <2>4. QED
    BY <1>2, <1>4, <2>2, <2>3
<1>5. ASSUME NEW n \in Names, TakeEvent(n)
      PROVE  Quiet
  BY <1>4, <1>5 DEF TakeEvent
<1>6. ASSUME NEW n \in Names, NEW s \in Scans, TakeFile(s, n)
      PROVE  Quiet
  BY <1>4, <1>6 DEF TakeFile
<1>7. QED
  BY <1>3, <1>5, <1>6

\* Scans that only read, the supervisor, outages and crashes change no file, record or
\* mapping, and end tasks at most.
LEMMA TheSignals ==
  ASSUME IndInv,
         \/ \E s \in Scans : Walk(s) \/ Keys(s) \/ Verify(s) \/ EndScan(s)
         \/ Supervise \/ RestartWatcher \/ BreakWatch \/ DropEvents \/ Crash \/ UNCHANGED vars
  PROVE  Quiet
<1> USE DEF Kept, store
<1>1. ASSUME task' = task, Kept
      PROVE  Quiet
  BY <1>1 DEF Quiet
<1>2. ASSUME NEW s \in Scans, Walk(s) \/ Keys(s) \/ Verify(s) \/ EndScan(s)
      PROVE  Quiet
  BY <1>1, <1>2 DEF Walk, Keys, Verify, EndScan
<1>3. ASSUME SeeRescan \/ Recover \/ BreakWatch \/ DropEvents \/ UNCHANGED vars
      PROVE  Quiet
  BY <1>1, <1>3 DEF SeeRescan, Recover, BreakWatch, DropEvents, vars
<1>4. ASSUME SeeFailure \/ RestartWatcher \/ Crash
      PROVE  Quiet
  <2>1. Kept
    BY <1>4 DEF SeeFailure, RestartWatcher, Crash
  <2>2. \A w \in Workers :
          task'[w] = task[w] \/ (task'[w] = Idle /\ (w \in {Watcher, CatchUp} \/ watch'.mode = "down"))
    BY <1>4 DEF SeeFailure, StopIngesting, RestartWatcher, Crash, IndInv, TypeOK
  <2>3. QED
    BY <2>1, <2>2 DEF Quiet
<1>5. QED
  BY <1>2, <1>3, <1>4 DEF Supervise

\* A scan forgets mappings and touches nothing else.
LEMMA TheScansForget ==
  ASSUME IndInv, NEW s \in Scans, Prune(s) \/ ForgetDead(s)
  PROVE  Forgets(s)
<1>1. UNCHANGED <<disk, record, task, events, watch>>
  BY DEF Prune, ForgetDead
<1>2. \A n \in Names : filemap'[n] \in {filemap[n], Nothing}
  BY DEF Prune, ForgetDead, Forget
<1>3. QED
  BY <1>1, <1>2 DEF Forgets

\* The user changes one of his own names, to bytes nobody has or to none.
LEMMA TheUserChanges ==
  ASSUME IndInv, CleanStep, NEW n \in UserNames, NEW c \in UserContents \union {Nothing}, UserChanges(n, c)
  PROVE  n \in Changing /\ Changes(n)
<1>1. n \in Changing
  BY DEF Changing, UserChanges, IndInv, TypeOK
<1>2. n \in Names
  BY TheConstants
<1>3. Loses(n)
  BY <1>2, LosesCleanly DEF UserChanges
<1>4. disk'[n] = c /\ \A m \in Names \ {n} : disk'[m] = disk[m]
  BY <1>2 DEF UserChanges, IndInv, TypeOK
<1>5. c # Nothing => Fresh(c)
  BY DEF UserChanges
<1>6. UNCHANGED <<record, filemap, task, scan, watch>>
  BY DEF UserChanges
<1>7. events' = IF Reported /\ c # Nothing THEN events \union {n} ELSE events
  BY DEF UserChanges
<1>8. QED
  BY <1>1, <1>3, <1>4, <1>5, <1>6, <1>7, TheConstants DEF Changes

\* The repair at startup, complete or cut short, only takes away records and mappings.
LEMMA TheRepairs ==
  ASSUME IndInv,
         \/ Startup
         \/ \E dropped \in SUBSET Contents : \E unmapped \in SUBSET dropped :
              StartupDies(dropped, unmapped)
  PROVE  Repairs
<1>1. ASSUME NEW dropped \in SUBSET Contents, NEW unmapped \in SUBSET Contents,
             RepairStore(dropped, unmapped, {})
      PROVE  /\ \A n \in Names : filemap'[n] \in {filemap[n], Nothing}
             /\ \A i \in Contents : record'[i] \in {record[i], Nothing}
  BY <1>1 DEF RepairStore
<1>2. CASE Startup
  <2>1. RepairStore(Doomed, Doomed, {}) /\ Doomed \in SUBSET Contents
    BY <1>2, NothingIsRepairable DEF Startup, IndInv, Doomed, Zombies
  <2>2. watch.mode = "down" /\ UNCHANGED <<disk, task, events>>
    BY <1>2 DEF Startup
  <2>3. QED
    BY <1>1, <2>1, <2>2 DEF Repairs
<1>3. ASSUME NEW dropped \in SUBSET Contents, NEW unmapped \in SUBSET dropped,
             StartupDies(dropped, unmapped)
      PROVE  Repairs
  <2>1. RepairStore(dropped, unmapped, {}) /\ unmapped \in SUBSET Contents
    BY <1>3 DEF StartupDies
  <2>2. watch.mode = "down" /\ UNCHANGED <<disk, task, events>>
    BY <1>3 DEF StartupDies
  <2>3. QED
    BY <1>1, <2>1, <2>2 DEF Repairs
<1>4. QED
  BY <1>2, <1>3

\* Every step is of one of these kinds.
LEMMA TheKinds ==
  ASSUME Calm, CleanStep
  PROVE  \/ Quiet
         \/ \E w \in Workers : Acts(w)
         \/ \E s \in Scans : Forgets(s) /\ (Prune(s) \/ ForgetDead(s))
         \/ \E n \in Changing : Changes(n)
         \/ Repairs
<1>1. IndInv
  BY DEF Calm
<1>2. \A w \in Workers : ~FixFails(w) /\ ~Fail(w)
  BY <1>1, CleanBefore
<1>3. [Next]_vars
  BY DEF CleanStep
<1>4. CASE UNCHANGED vars
  BY <1>1, <1>4, TheSignals
<1>5. CASE \E w \in Workers : Ingest(w)
  BY <1>5, IngestActs
<1>6. ASSUME NEW s \in Scans, ScanStep(s)
      PROVE  Quiet \/ (Forgets(s) /\ (Prune(s) \/ ForgetDead(s)))
  <2>1. CASE \E n \in Names : TakeFile(s, n)
    BY <1>1, <2>1, TheStarts
  <2>2. CASE Walk(s) \/ Keys(s) \/ Verify(s) \/ EndScan(s)
    BY <1>1, <2>2, TheSignals
  <2>3. CASE Prune(s) \/ ForgetDead(s)
    BY <1>1, <2>3, TheScansForget
  <2>4. QED
    BY <1>6, <2>1, <2>2, <2>3 DEF ScanStep
<1>7. CASE \/ \E d \in Downloads, i \in Brought, n \in Wanted, o \in BOOLEAN : StartDownload(d, i, n, o)
           \/ \E n \in Names : TakeEvent(n)
  BY <1>1, <1>7, TheStarts
<1>8. CASE Supervise \/ RestartWatcher \/ BreakWatch \/ DropEvents \/ Crash
  BY <1>1, <1>8, TheSignals
<1>9. ASSUME NEW n \in UserNames, NEW c \in UserContents \union {Nothing}, UserChanges(n, c)
      PROVE  n \in Changing /\ Changes(n)
  BY <1>1, <1>9, TheUserChanges
<1>10. CASE \/ Startup
            \/ \E dropped \in SUBSET Contents : \E unmapped \in SUBSET dropped :
                 StartupDies(dropped, unmapped)
  BY <1>1, <1>10, TheRepairs
<1>11. QED
  BY <1>2, <1>3, <1>4, <1>5, <1>6, <1>7, <1>8, <1>9, <1>10 DEF Next

-----------------------------------------------------------------------------
(* What a file, a record, a mapping or a task was before *)

\* A wanted name and the chosen one, as names.
LEMMA TheDest ==
  ASSUME Calm, NEW w \in Workers, task[w] # Idle, Staged(w)
  PROVE  /\ task[w].want \in Wanted /\ task[w].want \in Names /\ task[w].want \notin Changing
         /\ task[w].want \in Tried(task[w].want)
         /\ task[w].dest \in Tried(task[w].want) => task[w].dest \in Names /\ task[w].dest \notin Changing
         /\ task[w].id \in Brought /\ task[w].id \in Contents /\ task[w].id # Nothing
         /\ task[w].path = Nothing
BY TheTask, TheNames, TheConstants DEF Calm

\* What changes the file at a name: an overwrite, a move or the user.
LEMMA FileBefore ==
  ASSUME Calm, CleanStep, NEW n \in Names
  PROVE  \/ disk'[n] = disk[n]
         \/ \E w \in Workers : Unlinks(w) /\ n = task[w].want
         \/ \E w \in Workers : Moves(w) /\ n = task[w].dest
         \/ n \in Changing /\ Changes(n)
<1>1. CASE Quiet \/ (\E s \in Scans : Forgets(s)) \/ Repairs \/ (\E m \in Changing : Changes(m))
  BY <1>1 DEF Quiet, Kept, Forgets, Repairs, Changes
<1>2. CASE \E w \in Workers : Acts(w)
  BY <1>2 DEF Acts, Looks, Kept, Rekeys, Drops, Unmaps, Catalogues, FixSaves, MapsPath, Remaps,
     Unlinks, Moves
<1>3. QED
  BY <1>1, <1>2, TheKinds

\* What changes the record of bytes: a rekey, an overwrite, a catalogue or a download's
\* last save, and the repair, which only removes.
LEMMA RecordBefore ==
  ASSUME Calm, CleanStep, NEW i \in Contents
  PROVE  \/ record'[i] = record[i]
         \/ \E w \in Workers : Rekeys(w) /\ i = task[w].other
         \/ \E w \in Workers : Drops(w) /\ i = task[w].other
         \/ \E w \in Workers : (Rekeys(w) \/ Catalogues(w) \/ FixSaves(w)) /\ i = task[w].id
         \/ Repairs /\ record'[i] = Nothing
<1>1. CASE Quiet \/ (\E s \in Scans : Forgets(s)) \/ Repairs \/ (\E m \in Changing : Changes(m))
  BY <1>1 DEF Quiet, Kept, Forgets, Repairs, Changes
<1>2. CASE \E w \in Workers : Acts(w)
  BY ZenonT(60), <1>2 DEF Acts, Looks, Kept, Rekeys, Drops, Unmaps, Catalogues, FixSaves, MapsPath, Remaps,
     Unlinks, Moves
<1>3. QED
  BY <1>1, <1>2, TheKinds

\* What changes the mapping of a name: an overwrite, the end of an ingest, and scans
\* and the repair, which only remove.
LEMMA MappingBefore ==
  ASSUME Calm, CleanStep, NEW n \in Names
  PROVE  \/ filemap'[n] = filemap[n]
         \/ \E w \in Workers : Unmaps(w) /\ n = task[w].want
         \/ \E w \in Workers : MapsPath(w) /\ n = task[w].path
         \/ \E w \in Workers : Remaps(w) /\ n = task[w].dest
         \/ filemap'[n] = Nothing /\ (Repairs \/ \E s \in Scans : Forgets(s) /\ (Prune(s) \/ ForgetDead(s)))
<1>1. CASE \/ Quiet \/ (\E s \in Scans : Forgets(s) /\ (Prune(s) \/ ForgetDead(s)))
           \/ Repairs \/ (\E m \in Changing : Changes(m))
  BY <1>1 DEF Quiet, Kept, Forgets, Repairs, Changes
<1>2. CASE \E w \in Workers : Acts(w)
  BY <1>2 DEF Acts, Looks, Kept, Rekeys, Drops, Unmaps, Catalogues, FixSaves, MapsPath, Remaps,
     Unlinks, Moves
<1>3. QED
  BY <1>1, <1>2, TheKinds

\* A task changes by its own worker's step, or begins or ends from outside.
LEMMA TaskBefore ==
  ASSUME Calm, CleanStep, NEW w \in Workers
  PROVE  \/ task'[w] = task[w]
         \/ task'[w] = Idle
         \/ Quiet /\ (BeginsStaged(w) \/ BeginsInPlace(w))
         \/ Acts(w)
<1>1. CASE (\E s \in Scans : Forgets(s)) \/ Repairs \/ (\E m \in Changing : Changes(m))
  BY <1>1 DEF Forgets, Repairs, Changes
<1>2. ASSUME NEW v \in Workers, Acts(v), v # w
      PROVE  task'[w] = task[w]
  BY <1>2 DEF Acts, Looks, Rekeys, Drops, Unmaps, Catalogues, FixSaves, MapsPath, Remaps,
     Unlinks, Moves, Advances, Ends, Alone
<1>3. CASE Quiet
  BY <1>3 DEF Quiet
<1>4. QED
  BY <1>1, <1>2, <1>3, TheKinds

\* A task at a file in place was there, begins now, or goes on by its worker's step.
LEMMA InPlaceBefore ==
  ASSUME Calm, CleanStep, NEW w \in Workers, InPlace(w)'
  PROVE  \/ task'[w] = task[w] /\ InPlace(w)
         \/ Quiet /\ BeginsInPlace(w)
         \/ /\ Acts(w) /\ InPlace(w) /\ task'[w].path = task[w].path /\ task'[w].want = task[w].want
            /\ task'[w].id \in {task[w].id, disk[task[w].path]}
            /\ task'[w].other \in {task[w].other, filemap[task[w].path]}
<1>1. task'[w] # Idle /\ task'[w].want = Nothing
  BY DEF InPlace, Staged
<1>2. ~BeginsStaged(w)
  BY <1>1, TheConstants DEF BeginsStaged
<1>3. CASE Acts(w)
  BY <1>1, <1>3 DEF Acts, Looks, Rekeys, Drops, Unmaps, Catalogues, FixSaves, MapsPath, Remaps,
     Unlinks, Moves, Advances, Ends, Keeps, InPlace, Staged, At
<1>4. QED
  BY <1>1, <1>2, <1>3, TaskBefore DEF InPlace, Staged

\* A download's task was there, begins now, or goes on by its worker's step with the
\* same bytes and the same wanted name.
LEMMA StagedBefore ==
  ASSUME Calm, CleanStep, NEW w \in Workers, Staged(w)'
  PROVE  \/ task'[w] = task[w] /\ Staged(w)
         \/ Quiet /\ BeginsStaged(w)
         \/ /\ Acts(w) /\ Staged(w) /\ task'[w].want = task[w].want /\ task'[w].id = task[w].id
            /\ task'[w].path = task[w].path
            /\ task'[w].other # task[w].other => At(w, "collide")
            /\ task'[w].dest # task[w].dest => At(w, "dest")
<1>1. task'[w] # Idle /\ task'[w].want # Nothing
  BY IdleHasNothing DEF Staged
<1>2. ~BeginsInPlace(w)
  BY <1>1 DEF BeginsInPlace
<1>3. CASE Acts(w)
  <2>1. CASE Looks(w)
    BY <1>1, <1>3, <2>1 DEF Looks, Advances, Ends, Keeps, InPlace, Staged, At
  <2>2. CASE Rekeys(w) \/ Drops(w) \/ Unmaps(w) \/ Catalogues(w) \/ FixSaves(w) \/ Unlinks(w) \/ Moves(w)
    <3>1. \E from, to \in Steps : Advances(w, from, to)
      BY <2>2 DEF Rekeys, Drops, Unmaps, Catalogues, FixSaves, Unlinks, Moves, Steps
    <3>2. QED
      BY <1>1, <1>3, <3>1 DEF Advances, Keeps, Staged
  <2>3. CASE MapsPath(w) \/ Remaps(w)
    BY <1>1, <2>3 DEF MapsPath, Remaps, Ends
  <2>4. QED
    BY <1>3, <2>1, <2>2, <2>3 DEF Acts
<1>4. QED
  BY <1>1, <1>2, <1>3, TaskBefore DEF Staged

-----------------------------------------------------------------------------
(* The user's files *)

\* A download that has not made an archive makes none before it catalogues.
LEMMA DecidesOn ==
  ASSUME Calm, CleanStep, NEW w \in Workers, Staged(w)', ~Catalogues(w),
         Staged(w) => task[w].step \in Before \union Deciding
  PROVE  task'[w].step \in Before \union Deciding
<1>1. CASE BeginsStaged(w)
  BY <1>1 DEF BeginsStaged, Before
<1>2. CASE task'[w] = task[w] /\ Staged(w)
  BY <1>2
<1>3. CASE Acts(w) /\ Staged(w)
  <2>1. task[w].step \in Before \union Deciding
    BY <1>3
  <2>2. QED
    BY ZenonT(60), <1>3, <2>1, IdleHasNothing
       DEF Acts, Looks, Rekeys, Drops, Unmaps, FixSaves, MapsPath, Remaps, Unlinks, Moves,
           Advances, Ends, Before, Deciding, InPlace, Staged, At
<1>4. QED
  BY <1>1, <1>2, <1>3, StagedBefore

\* Only the user brings new bytes to a name, and a download to the one it has chosen.
LEMMA HasBefore ==
  ASSUME Calm, CleanStep, NEW i \in Contents, NEW n \in Names, Has(n, i)',
         \A m \in Changing : ~Changes(m)
  PROVE  \/ Has(n, i)
         \/ \E w \in Workers : /\ FixSaves(w) \/ Moves(w) \/ Remaps(w)
                               /\ task[w].id = i /\ task[w].dest = n
<1> USE DEF Has, Exists
<1>1. i # Nothing /\ n # Nothing
  BY TheConstants
<1>2. CASE Quiet
  <2>1. \A v \in Workers : i \in {task'[v].id, task'[v].other} /\ InPlace(v)' => task'[v] = task[v]
    BY <1>1, <1>2, TheConstants, IdleHasNothing DEF Quiet, BeginsStaged, BeginsInPlace, InPlace, Staged
  <2>2. disk' = disk /\ filemap' = filemap /\ record' = record
    BY <1>2 DEF Quiet, Kept
  <2>3. QED
    BY <2>1, <2>2 DEF InPlace, Staged
<1>3. ASSUME NEW w \in Workers, Looks(w)
      PROVE  Has(n, i)
  <2>1. disk' = disk /\ filemap' = filemap /\ record' = record /\ Alone(w)
    BY <1>3 DEF Looks, Kept
  <2>2. InPlace(w)' => InPlace(w) /\ task'[w].path = task[w].path
    BY <1>3, IdleHasNothing DEF Looks, InPlace, Staged, Advances, Keeps, Ends, At
  <2>3. InPlace(w)' /\ i \in {task'[w].id, task'[w].other} =>
          i \in {task[w].id, task[w].other, disk[task[w].path], filemap[task[w].path]}
    BY <1>3, IdleHasNothing DEF Looks, InPlace, Staged, Advances, Keeps, Ends, At
  <2>4. QED
    BY <2>1, <2>2, <2>3 DEF Alone, InPlace, Staged
<1>4. ASSUME NEW w \in Workers, Rekeys(w)
      PROVE  Has(n, i)
  <2>1. ~Staged(w)' /\ InPlace(w)
    BY <1>4 DEF Rekeys, Advances, Keeps, InPlace, Staged
  <2>2. Exists(i)' /\ record'[i].file = n => Has(n, i)
    BY <1>1, <1>4, <2>1 DEF Rekeys, InPlace
  <2>3. \A v \in Workers : InPlace(v)' /\ task'[v].path = n /\ i \in {task'[v].id, task'[v].other} => Has(n, i)
    BY <1>4, <2>1 DEF Rekeys, Advances, Keeps, InPlace, Staged, Alone
  <2>4. QED
    BY <1>4, <2>2, <2>3 DEF Rekeys
<1>5. ASSUME NEW w \in Workers, Drops(w) \/ Unmaps(w) \/ Unlinks(w)
      PROVE  Has(n, i)
  BY <1>1, <1>5 DEF Drops, Unmaps, Unlinks, Advances, Keeps, InPlace, Staged, Alone
<1>6. ASSUME NEW w \in Workers, Catalogues(w)
      PROVE  Has(n, i)
  <2>1. \A v \in Workers : InPlace(v)' /\ task'[v].path = n /\ i \in {task'[v].id, task'[v].other} =>
           InPlace(v) /\ task[v].path = n /\ i \in {task[v].id, task[v].other}
    BY <1>6 DEF Catalogues, Advances, Keeps, InPlace, Staged, Alone
  <2>2. Staged(w) => task[w].path = Nothing
    BY <1>6, TheDest DEF Catalogues, Advances
  <2>3. Exists(i)' /\ record'[i].file = n => Has(n, i)
    BY <1>1, <1>6, <2>2 DEF Catalogues, Advances, InPlace
  <2>4. QED
    BY <1>6, <2>1, <2>3 DEF Catalogues
<1>7. ASSUME NEW w \in Workers, FixSaves(w) \/ Moves(w) \/ Remaps(w), task[w].id # i \/ task[w].dest # n
      PROVE  Has(n, i)
  <2>1. \A v \in Workers : InPlace(v)' /\ task'[v].path = n /\ i \in {task'[v].id, task'[v].other} =>
           InPlace(v) /\ task[v].path = n /\ i \in {task[v].id, task[v].other}
    BY <1>7 DEF FixSaves, Moves, Remaps, Advances, Ends, Keeps, InPlace, Staged, Alone
  <2>2. QED
    BY <1>1, <1>7, <2>1 DEF FixSaves, Moves, Remaps
<1>8. ASSUME NEW w \in Workers, MapsPath(w)
      PROVE  Has(n, i)
  BY <1>1, <1>8 DEF MapsPath, Ends, InPlace, Staged, Alone
<1>9. CASE (\E s \in Scans : Forgets(s)) \/ Repairs
  BY <1>1, <1>9 DEF Forgets, Repairs, InPlace, Staged
<1>10. QED
  BY <1>2, <1>3, <1>4, <1>5, <1>6, <1>7, <1>8, <1>9, TheKinds DEF Acts

\* UsersAlone: the user puts only fresh bytes in place, and a download of those he
\* has makes no archive of them.
LEMMA UsersAloneStays ==
  ASSUME Calm, CleanStep
  PROVE  UsersAlone'
<1> SUFFICES ASSUME NEW n \in Changing, NEW i \in Contents, Has(n, i)'
             PROVE  /\ \A m \in Names : Has(m, i)' => m = n
                    /\ record'[i] # Nothing => record'[i].file = n
                    /\ \A w \in Workers : Staged(w)' /\ task'[w].id = i =>
                         task'[w].step \in Before \union Deciding
  BY DEF UsersAlone, Exists
<1>0. n \in Names /\ i # Nothing
  BY TheConstants
<1>1. CASE \A k \in Changing : ~Changes(k)
  <2>1. \A w \in Workers : FixSaves(w) \/ Moves(w) \/ Remaps(w) =>
          task[w].dest \notin Changing /\ Staged(w) /\ task[w].step \notin Before \union Deciding
    <3>1. ASSUME NEW w \in Workers, FixSaves(w) \/ Moves(w) \/ Remaps(w)
          PROVE  /\ Staged(w) /\ task[w] # Idle /\ task[w].dest \in Tried(task[w].want)
                 /\ task[w].step \notin Before \union Deciding
      BY <3>1 DEF FixSaves, Moves, Remaps, Advances, Ends, Before, Deciding
    <3>2. QED
      BY <3>1, TheDest
  <2>2. Has(n, i)
    BY <1>0, <1>1, <2>1, HasBefore
  <2>3. /\ \A m \in Names : Has(m, i) => m = n
        /\ Exists(i) => record[i].file = n
        /\ \A w \in Workers : Staged(w) /\ task[w].id = i => task[w].step \in Before \union Deciding
    BY <2>2 DEF Calm, CleanInv, UsersAlone
  <2>4. \A w \in Workers : FixSaves(w) \/ Moves(w) \/ Remaps(w) => task[w].id # i
    BY <2>1, <2>3
  <2>5. \A m \in Names : Has(m, i)' => m = n
    BY <1>1, <2>3, <2>4, HasBefore
  <2>6. ASSUME record'[i] # Nothing
        PROVE  record'[i].file = n
    <3>1. CASE record'[i] = record[i]
      BY <2>3, <2>6, <3>1 DEF Exists
    <3>2. ASSUME NEW w \in Workers, Rekeys(w) \/ Catalogues(w), i = task[w].id
          PROVE  record'[i].file = n
      <4>1. ~Staged(w) /\ task[w] # Idle
        BY <2>2, <3>2 DEF Rekeys, Catalogues, Advances, InPlace
      <4>2. InPlace(w) /\ task[w].path \in Names
        BY <4>1, TheTask DEF Calm
      <4>3. task[w].path = n
        BY <2>3, <3>2, <4>2 DEF Has
      <4>4. QED
        BY <3>2, <4>3 DEF Rekeys, Catalogues
    <3>3. QED
      BY <2>4, <2>6, <3>1, <3>2, RecordBefore DEF Rekeys, Drops
  <2>7. ASSUME NEW w \in Workers, Staged(w)', task'[w].id = i
        PROVE  task'[w].step \in Before \union Deciding
    <3>1. Staged(w) => task[w].id = i
      BY <2>7, StagedBefore, IdleHasNothing DEF BeginsStaged, Staged
    <3>2. ~Catalogues(w)
      <4>1. Catalogues(w) => Staged(w)
        BY <2>7 DEF Catalogues, Advances, Keeps, Staged
      <4>2. QED
        BY <2>2, <3>1, <4>1 DEF Catalogues
    <3>3. QED
      BY <2>3, <2>7, <3>1, <3>2, DecidesOn
  <2>8. QED
    BY <2>5, <2>6, <2>7
<1>2. ASSUME NEW k \in Changing, Changes(k)
      PROVE  /\ \A m \in Names : Has(m, i)' => m = n
             /\ record'[i] # Nothing => record'[i].file = n
             /\ \A w \in Workers : Staged(w)' /\ task'[w].id = i =>
                  task'[w].step \in Before \union Deciding
  <2>1. record' = record /\ task' = task
    BY <1>2 DEF Changes
  <2>2. \A j \in Names : Has(j, i)' => Has(j, i) \/ (j = k /\ i = disk'[k])
    BY <1>2, TheConstants DEF Changes, Has, Exists, InPlace, Staged
  <2>3. CASE i = disk'[k]
    <3>1. Fresh(i)
      BY <1>0, <1>2, <2>3 DEF Changes
    <3>2. \A j \in Names : ~Has(j, i)
      BY <3>1 DEF Fresh, Has
    <3>3. \A j \in Names : Has(j, i)' => j = k
      BY <2>2, <3>2
    <3>4. QED
      BY <1>0, <2>1, <3>1, <3>3 DEF Fresh, Exists
  <2>4. CASE i # disk'[k]
    <3>1. Has(n, i)
      BY <1>0, <2>2, <2>4
    <3>2. QED
      BY <2>1, <2>2, <2>4, <3>1 DEF Calm, CleanInv, UsersAlone, Exists, Staged
  <2>5. QED
    BY <2>3, <2>4
<1>3. QED
  BY <1>1, <1>2

-----------------------------------------------------------------------------
(* A name that is shown stays shown *)

\* What a name has.
LEMMA TheFile ==
  ASSUME IndInv, NEW n \in Names
  PROVE  /\ disk[n] \in Contents \union {Nothing} /\ filemap[n] \in Contents \union {Nothing}
         /\ OnDisk(n) => disk[n] \in Contents
BY DEF IndInv, TypeOK, OnDisk

\* An archive whose bytes are in one file only, and in no other ingest, has that file.
LEMMA SoleFile ==
  ASSUME Calm, watch.mode # "down", NEW n \in Names, OnDisk(n), ~Doubled(n), Exists(disk[n])
  PROVE  record[disk[n]].file = n
<1> DEFINE i == disk[n]
<1>1. i \in Contents /\ record[i].file \in Names \union {Nothing}
  BY TheFile, TheRecord DEF Calm
<1>2. record[i].file # Nothing
  <2>1. SUFFICES ASSUME record[i].file = Nothing
                 PROVE  FALSE
    OBVIOUS
  <2>2. PICK w \in Workers : Placing(w) /\ task[w].id = i
    BY <1>1, <2>1 DEF Calm, CleanInv, UnfiledInHand
  <2>3. task[w].path # n
    BY <2>2, TheDest, TheConstants, IdleHasNothing DEF Placing, Staged
  <2>4. QED
    BY <2>2, <2>3 DEF Doubled
<1>3. record[i].file # n => ~Readable(i)
  BY <1>1, <1>2 DEF Doubled, Readable
<1>4. QED
  BY <1>1, <1>2, <1>3 DEF Calm, CleanInv, UnreadableAlone

\* A name that is shown stays so as long as it has a file, or is the user's.
LEMMA ShownStays ==
  ASSUME Calm, CleanStep, watch.mode # "down", NEW n \in Names, Shown(n), OnDisk(n)' \/ n \in Changing
  PROVE  Shown(n)'
<1>1. ASSUME NEW i \in Contents, Exists(i), record[i].file = n
      PROVE  Shown(n)'
  <2>1. CASE record'[i] = record[i]
    BY <1>1, <2>1 DEF Shown, Exists
  <2>2. ASSUME NEW w \in Workers, Rekeys(w), i \in {task[w].id, task[w].other}
        PROVE  Shown(n)'
    <3>1. Has(n, i)
      BY <1>1 DEF Has
    <3>2. Has(task[w].path, i) /\ task[w].path \in Changing
      BY <2>2 DEF Has, Rekeys
    <3>3. task[w].path = n
      BY <3>1, <3>2 DEF Calm, CleanInv, UsersAlone
    <3>4. task[w].id \in Contents /\ record'[task[w].id] # Nothing /\ record'[task[w].id].file = n
      BY <2>2, <3>3, TheConstants DEF Rekeys, Exists
    <3>5. QED
      BY <3>4 DEF Shown, Exists
  <2>3. ASSUME NEW w \in Workers, Drops(w), i = task[w].other
        PROVE  FALSE
    <3>1. n = task[w].want /\ ~OnDisk(n) /\ disk' = disk
      BY <1>1, <2>3 DEF Drops
    <3>2. n \notin Changing
      BY <2>3, <3>1, TheDest DEF Drops, Advances
    <3>3. QED
      BY <3>1, <3>2 DEF OnDisk
  <2>4. ASSUME NEW w \in Workers, Catalogues(w) \/ FixSaves(w), i = task[w].id
        PROVE  Shown(n)'
    <3>1. record'[i] # Nothing /\ disk' = disk
      BY <2>4 DEF Catalogues, FixSaves
    <3>2. CASE disk[n] = i
      BY <1>1, <3>1, <3>2, TheConstants DEF Shown, OnDisk, Exists
    <3>3. CASE disk[n] # i
      <4>1. record[i].file # Nothing /\ ~Readable(i)
        BY <1>1, <3>3, TheConstants DEF Readable
      <4>2. IF Staged(w) THEN task[w].step \in Undecided(n) ELSE task[w].path = n
        BY <1>1, <2>4, <4>1 DEF Calm, CleanInv, UnreadableAlone
      <4>3. ~Staged(w) /\ Catalogues(w)
        <5>1. ~FixSaves(w)
          BY <4>2 DEF FixSaves, Advances, Undecided, Before, Deciding
        <5>2. Staged(w) /\ Catalogues(w) => n \in Changing
          BY <4>2 DEF Catalogues, Advances, Undecided, Before
        <5>3. Catalogues(w) /\ n \in Changing => ~Staged(w)
          BY <1>1, <2>4 DEF Catalogues, Has
        <5>4. QED
          BY <2>4, <5>1, <5>2, <5>3
      <4>4. record'[i].file = n
        BY <2>4, <4>2, <4>3 DEF Catalogues
      <4>5. QED
        BY <3>1, <4>4 DEF Shown, Exists
    <3>4. QED
      BY <3>2, <3>3
  <2>5. ~Repairs
    BY DEF Repairs
  <2>6. QED
    BY <2>1, <2>2, <2>3, <2>4, <2>5, RecordBefore
<1>2. ASSUME OnDisk(n), Exists(disk[n])
      PROVE  Shown(n)'
  <2> DEFINE i == disk[n]
  <2>1. i \in Contents
    BY <1>2, TheFile DEF Calm
  <2>2. CASE disk'[n] = disk[n]
    <3>1. CASE record'[i] = record[i]
      BY <1>2, <2>2, <3>1 DEF Shown, OnDisk, Exists
    <3>2. ASSUME NEW w \in Workers, Rekeys(w), i = task[w].other
          PROVE  Shown(n)'
      <4>1. Has(n, i) /\ Has(task[w].path, i) /\ task[w].path \in Changing
        BY <3>2 DEF Has, Rekeys
      <4>2. task[w].path = n
        BY <2>1, <4>1 DEF Calm, CleanInv, UsersAlone
      <4>3. task[w].id \in Contents /\ record'[task[w].id] # Nothing /\ record'[task[w].id].file = n
        BY <3>2, <4>2, TheConstants DEF Rekeys, Exists
      <4>4. QED
        BY <4>3 DEF Shown, Exists
    <3>3. ASSUME NEW w \in Workers, Drops(w), i = task[w].other
          PROVE  FALSE
      <4>1. record[i].file # Nothing /\ ~Readable(i) /\ Exists(i)
        BY <2>1, <3>3, TheDest, TheConstants DEF Drops, Readable, OnDisk, Advances
      <4>2. QED
        BY <2>1, <4>1 DEF Calm, CleanInv, UnreadableAlone
    <3>4. ASSUME NEW w \in Workers, Rekeys(w) \/ Catalogues(w) \/ FixSaves(w), i = task[w].id
          PROVE  Shown(n)'
      <4>1. record'[i] # Nothing
        BY <3>4 DEF Rekeys, Catalogues, FixSaves, Exists
      <4>2. QED
        BY <1>2, <2>2, <4>1 DEF Shown, OnDisk, Exists
    <3>5. ~Repairs
      BY DEF Repairs
    <3>6. QED
      BY <2>1, <3>1, <3>2, <3>3, <3>4, <3>5, RecordBefore
  <2>3. ASSUME NEW w \in Workers, Unlinks(w), n = task[w].want
        PROVE  FALSE
    BY <2>3, TheDest DEF Unlinks, Advances, OnDisk
  <2>4. ASSUME NEW w \in Workers, Moves(w), n = task[w].dest
        PROVE  FALSE
    BY <1>2, <2>4 DEF Moves, OnDisk
  <2>5. CASE Changes(n)
    <3>1. record[i].file = n
      BY <1>2, <2>5, SoleFile DEF Changes, Loses
    <3>2. QED
      BY <1>1, <1>2, <2>1, <3>1
  <2>6. QED
    BY <2>2, <2>3, <2>4, <2>5, FileBefore
<1>3. QED
  BY <1>1, <1>2 DEF Shown

-----------------------------------------------------------------------------
(* What workers know of their files *)

\* A download past its reservation keeps others from its name, and from the names
\* tried for it.
LEMMA OneAtItsName ==
  ASSUME Calm, NEW v \in Workers, NEW w \in Workers, v # w,
         task[v] # Idle, Staged(v), ~At(v, "lock"), task[w] # Idle, Staged(w), ~At(w, "lock")
  PROVE  Tried(task[v].want) \cap Tried(task[w].want) = {}
<1>1. task[v].want # task[w].want
  BY OneAtAName DEF Calm, Reserved
<1>2. QED
  BY <1>1, TheDest DEF Calm, NamesApart

\* The file the watcher's loop works at keeps its bytes, but for what the user does.
LEMMA WatcherSeesStays ==
  ASSUME Calm, CleanStep
  PROVE  WatcherSees'
<1> DEFINE n == task[Watcher].path
<1> SUFFICES ASSUME InPlace(Watcher)', task'[Watcher].path \notin Changing
             PROVE  task'[Watcher].id \in {Nothing, disk'[task'[Watcher].path]}
  BY DEF WatcherSees
<1>0. Watcher \in Workers
  BY TheConstants
<1>1. CASE BeginsInPlace(Watcher)
  BY <1>1 DEF BeginsInPlace
<1>2. CASE task'[Watcher] = task[Watcher] /\ InPlace(Watcher)
  <2>1. n \in Names /\ task[Watcher].id \in {Nothing, disk[n]}
    BY <1>0, <1>2, TheTask DEF Calm, CleanInv, WatcherSees, InPlace
  <2>2. ASSUME NEW v \in Workers, Unlinks(v), n = task[v].want
        PROVE  task[Watcher].id = Nothing
    <3>1. v # Watcher /\ Staged(v) /\ ~At(v, "lock") /\ task[v] # Idle
      BY <1>2, <2>2 DEF Unlinks, InPlace, Advances, At
    <3>2. At(Watcher, "lock")
      BY <1>0, <1>2, <2>2, <3>1, OneAtAName, TheConstants DEF Calm, Reserved, InPlace
    <3>3. QED
      BY <1>0, <1>2, <3>2, TheTask DEF Calm, InPlace, At
  <2>3. ASSUME NEW v \in Workers, Moves(v), n = task[v].dest
        PROVE  task[Watcher].id = Nothing
    BY <2>1, <2>3 DEF Moves
  <2>4. n \notin Changing
    BY <1>2
  <2>5. QED
    BY <1>2, <2>1, <2>2, <2>3, <2>4, FileBefore
<1>3. CASE /\ Acts(Watcher) /\ InPlace(Watcher) /\ task'[Watcher].path = n
           /\ task'[Watcher].id \in {task[Watcher].id, disk[n]}
  <2>1. disk' = disk
    BY <1>3 DEF Acts, Looks, Kept, Rekeys, Drops, Unmaps, Catalogues, FixSaves, MapsPath, Remaps,
       Unlinks, Moves, InPlace
  <2>2. QED
    BY <1>3, <2>1 DEF Calm, CleanInv, WatcherSees
<1>4. QED
  BY <1>0, <1>1, <1>2, <1>3, InPlaceBefore

\* A file that a download has moved stays where it is until the download is done.
LEMMA DownloadsSeeStays ==
  ASSUME Calm, CleanStep
  PROVE  DownloadsSee'
<1> SUFFICES ASSUME NEW w \in Workers, Staged(w)', task'[w].step \in {"fix", "fixsave", "remap"}
             PROVE  task'[w].dest \in Tried(task'[w].want) /\ disk'[task'[w].dest] = task'[w].id
  BY DEF DownloadsSee
<1>1. CASE BeginsStaged(w)
  BY <1>1 DEF BeginsStaged
<1>2. CASE task'[w] = task[w] /\ Staged(w)
  <2> DEFINE n == task[w].dest
  <2>1. /\ task[w] # Idle /\ task[w].want \in Wanted /\ n \in Tried(task[w].want) /\ n \in Names
        /\ n \notin Changing /\ disk[n] = task[w].id /\ disk[n] # Nothing
    BY <1>2, IdleHasNothing, TheDest DEF Calm, CleanInv, DownloadsSee, Staged
  <2>2. ASSUME NEW v \in Workers, Unlinks(v), n = task[v].want
        PROVE  FALSE
    <3>1. v # w /\ Staged(v) /\ ~At(v, "lock") /\ task[v] # Idle /\ ~At(w, "lock")
      BY <1>2, <2>2 DEF Unlinks, Advances, At
    <3>2. n \in Tried(task[v].want)
      BY <2>2, <3>1, TheDest
    <3>3. QED
      BY <1>2, <2>1, <3>1, <3>2, OneAtItsName
  <2>3. ASSUME NEW v \in Workers, Moves(v), n = task[v].dest
        PROVE  FALSE
    BY <2>1, <2>3 DEF Moves
  <2>4. QED
    BY <1>2, <2>1, <2>2, <2>3, FileBefore
<1>3. CASE Acts(w) /\ Staged(w) /\ (task'[w].dest # task[w].dest => At(w, "dest"))
  <2>1. CASE Moves(w)
    BY <2>1 DEF Moves, Advances, Keeps
  <2>2. CASE ~Moves(w)
    <3>1. /\ disk' = disk /\ task[w].step \in {"fix", "fixsave"}
          /\ task'[w].want = task[w].want /\ task'[w].id = task[w].id
      BY <1>3, <2>2, IdleHasNothing DEF Acts, Looks, Kept, Rekeys, Drops, Unmaps, Catalogues, FixSaves, MapsPath,
         Remaps, Unlinks, Advances, Ends, Keeps, InPlace
    <3>2. QED
      BY <1>3, <3>1 DEF Calm, CleanInv, DownloadsSee, At
  <2>3. QED
    BY <2>1, <2>2
<1>4. QED
  BY <1>1, <1>2, <1>3, StagedBefore

\* What is hashed is there, but for what the user does.
LEMMA HashedIsThere ==
  ASSUME Calm, NEW w \in Workers, InPlace(w), task[w].id \in Contents
  PROVE  task[w].path \in Changing \/ disk[task[w].path] = task[w].id
<1>1. w \in Scans \union {Watcher} /\ task[w].id # Nothing /\ task[w] # Idle
  BY TheTask, TheConstants DEF Calm, InPlace
<1>2. QED
  BY <1>1 DEF Calm, CleanInv, ScansSee, WatcherSees

\* Bytes in the hands of an ingest of a user's file are to do with no other name,
\* and no download has made an archive of them.
LEMMA UsersHand ==
  ASSUME Calm, NEW w \in Workers, InPlace(w), task[w].path \in Changing, task[w].id \in Contents
  PROVE  /\ \A m \in Names \ {task[w].path} : disk[m] # task[w].id /\ filemap[m] # task[w].id
         /\ \A v \in Workers : task[v].id = task[w].id =>
              IF Staged(v) THEN task[v].step \in Before \union Deciding ELSE task[v].path = task[w].path
<1>1. task[w].path \in Names /\ Has(task[w].path, task[w].id)
  BY TheTask DEF Has, Calm, InPlace
<1>2. /\ \A m \in Names : Has(m, task[w].id) => m = task[w].path
      /\ \A v \in Workers : Staged(v) /\ task[v].id = task[w].id => task[v].step \in Before \union Deciding
  BY <1>1 DEF Calm, CleanInv, UsersAlone
<1>3. ASSUME NEW v \in Workers, task[v].id = task[w].id, ~Staged(v)
      PROVE  task[v].path = task[w].path
  <2>1. task[v] # Idle
    BY <1>3, IdleHasNothing, TheConstants
  <2>2. InPlace(v) /\ task[v].path \in Names
    BY <1>3, <2>1, TheTask DEF Calm
  <2>3. QED
    BY <1>2, <1>3, <2>2 DEF Has
<1>4. QED
  BY <1>2, <1>3 DEF Has

\* The user's change of a file that is the only one with its bytes.
LEMMA LosesAlone ==
  ASSUME Calm, NEW n \in Names, Loses(n), OnDisk(n)
  PROVE  /\ \A m \in Names \ {n} : disk[m] # disk[n]
         /\ \A w \in Workers : task[w].id = disk[n] => ~Staged(w) /\ task[w].path = n
<1>1. \A w \in Workers : Staged(w) => task[w].path # n
  BY TheDest, TheConstants, IdleHasNothing DEF Staged
<1>2. QED
  BY <1>1 DEF Loses, Doubled

\* Bytes that a name has lost, but the filemap still has there, come up nowhere else.
LEMMA OutdatedAloneStays ==
  ASSUME Calm, CleanStep
  PROVE  OutdatedAlone'
<1> SUFFICES ASSUME NEW n \in Names, NEW f, f = filemap'[n], f \notin {Nothing, disk'[n]}
             PROVE  /\ \A m \in Names : disk'[m] # f
                    /\ \A w \in Workers : task'[w].id = f =>
                         IF Staged(w)' THEN task'[w].step \in Before \union Deciding ELSE task'[w].path = n
  BY DEF OutdatedAlone
<1> DEFINE Were ==
      /\ \A m \in Names \ {n} : disk[m] # f
      /\ \A w \in Workers : task[w].id = f =>
           IF Staged(w) THEN task[w].step \in Before \union Deciding ELSE task[w].path = n
<1>1. ASSUME filemap'[n] = filemap[n]
      PROVE  Were
  <2>1. CASE disk[n] # f
    BY <1>1, <2>1 DEF Calm, CleanInv, OutdatedAlone
  <2>2. CASE disk[n] = f
    <3>1. Loses(n) /\ OnDisk(n)
      BY <2>2, FileBefore DEF Unlinks, Moves, Changes, OnDisk
    <3>2. QED
      BY <2>2, <3>1, LosesAlone
  <2>3. QED
    BY <2>1, <2>2
<1>2. ASSUME NEW w \in Workers, MapsPath(w), n = task[w].path
      PROVE  Were
  <2>1. f = task[w].id /\ InPlace(w) /\ f \in Contents /\ disk[n] # f
    BY <1>2 DEF MapsPath
  <2>2. task[w].path \in Changing
    BY <1>2, <2>1, HashedIsThere
  <2>3. QED
    BY <1>2, <2>1, <2>2, UsersHand
<1>3. Were
  <2>1. ASSUME NEW w \in Workers, Remaps(w), n = task[w].dest
        PROVE  FALSE
    BY <2>1 DEF Remaps
  <2>2. ASSUME NEW w \in Workers, Unmaps(w), n = task[w].want
        PROVE  FALSE
    BY <2>2 DEF Unmaps
  <2>3. QED
    BY <1>1, <1>2, <2>1, <2>2, MappingBefore
<1>4. ASSUME NEW m \in Names
      PROVE  disk'[m] # f
  <2>1. CASE disk'[m] = disk[m]
    BY <1>3, <2>1
  <2>2. ASSUME NEW w \in Workers, Moves(w), m = task[w].dest
        PROVE  disk'[m] # f
    <3>1. task[w].id # f
      BY <1>3, <2>2 DEF Moves, Advances, Before, Deciding
    <3>2. QED
      BY <2>2, <3>1 DEF Moves
  <2>3. ASSUME Changes(m)
        PROVE  disk'[m] # f
    BY <2>3 DEF Changes, Fresh
  <2>4. ASSUME NEW w \in Workers, Unlinks(w), m = task[w].want
        PROVE  disk'[m] # f
    BY <2>4 DEF Unlinks
  <2>5. QED
    BY <2>1, <2>2, <2>3, <2>4, FileBefore
<1>5. ASSUME NEW w \in Workers, task'[w].id = f
      PROVE  IF Staged(w)' THEN task'[w].step \in Before \union Deciding ELSE task'[w].path = n
  <2>1. CASE Staged(w)'
    <3>1. Staged(w) => task[w].id = f
      BY <1>5, <2>1, StagedBefore, IdleHasNothing DEF BeginsStaged, Staged
    <3>2. ~Catalogues(w)
      <4>1. Catalogues(w) => filemap' = filemap /\ disk' = disk /\ Staged(w)
        BY <2>1 DEF Catalogues, Advances, Keeps, Staged
      <4>2. QED
        BY <3>1, <4>1 DEF Catalogues
    <3>3. QED
      BY <1>3, <2>1, <3>1, <3>2, DecidesOn
  <2>2. CASE ~Staged(w)'
    <3>1. InPlace(w)'
      BY <1>5, <2>2, IdleHasNothing DEF InPlace
    <3>2. CASE BeginsInPlace(w)
      BY <1>5, <2>2, <3>2 DEF BeginsInPlace
    <3>3. CASE task'[w] = task[w] /\ InPlace(w)
      BY <1>3, <1>5, <2>2, <3>3 DEF InPlace
    <3>4. CASE InPlace(w) /\ task'[w].path = task[w].path /\ task'[w].id \in {task[w].id, disk[task[w].path]}
      <4>1. task[w].path \in Names
        BY <3>4, TheTask DEF Calm, InPlace
      <4>2. QED
        BY <1>3, <1>5, <2>2, <3>4, <4>1 DEF InPlace
    <3>5. QED
      BY <3>1, <3>2, <3>3, <3>4, InPlaceBefore
  <2>3. QED
    BY <2>1, <2>2
<1>6. QED
  BY <1>4, <1>5

\* A record that is there after a step has a file's name or none.
LEMMA TheNextRecord ==
  ASSUME Calm, CleanStep, NEW i \in Contents, Exists(i)'
  PROVE  record'[i].file \in Names \union {Nothing}
<1>1. IndInv'
  BY NextIndInv DEF Calm, CleanStep
<1>2. QED
  BY <1>1 DEF IndInv, TypeOK, Records, Exists

\* Bytes of an archive whose file has lost them come up nowhere else.
LEMMA UnreadableAloneStays ==
  ASSUME Calm, CleanStep
  PROVE  UnreadableAlone'
<1> SUFFICES ASSUME NEW i \in Contents, Exists(i)', NEW n \in Names, record'[i].file = n, disk'[n] # i
             PROVE  /\ \A m \in Names : disk'[m] # i
                    /\ \A w \in Workers : task'[w].id = i =>
                         IF Staged(w)' THEN task'[w].step \in Undecided(n) ELSE task'[w].path = n
  BY TheNextRecord DEF UnreadableAlone, Readable
<1> DEFINE Were ==
      /\ \A m \in Names \ {n} : disk[m] # i
      /\ \A w \in Workers : task[w].id = i =>
           IF Staged(w) THEN task[w].step \in Undecided(n) ELSE task[w].path = n
<1>1. ASSUME record'[i] = record[i]
      PROVE  Were
  <2>1. Exists(i) /\ record[i].file = n
    BY <1>1 DEF Exists
  <2>2. CASE disk[n] # i
    <3>1. record[i].file # Nothing /\ ~Readable(i)
      BY <2>1, <2>2, TheConstants DEF Readable
    <3>2. QED
      BY <2>1, <3>1 DEF Calm, CleanInv, UnreadableAlone
  <2>3. CASE disk[n] = i
    <3>1. Loses(n) /\ OnDisk(n)
      BY <2>3, FileBefore, TheConstants DEF Unlinks, Moves, Changes, OnDisk
    <3>2. QED
      BY <2>3, <3>1, LosesAlone
  <2>4. QED
    BY <2>2, <2>3
<1>2. ASSUME NEW w \in Workers, Rekeys(w) \/ (Catalogues(w) /\ ~Staged(w)), i = task[w].id
      PROVE  Were
  <2>1. InPlace(w) /\ n = task[w].path /\ disk' = disk
    BY <1>2 DEF Rekeys, Catalogues, Advances, InPlace
  <2>2. task[w].path \in Changing
    <3>1. CASE Rekeys(w)
      BY <3>1 DEF Rekeys
    <3>2. CASE Catalogues(w)
      BY <1>2, <2>1, HashedIsThere
    <3>3. QED
      BY <1>2, <3>1, <3>2
  <2>3. QED
    BY <1>2, <2>1, <2>2, UsersHand DEF Undecided
<1>3. Were
  <2>1. ASSUME NEW w \in Workers, FixSaves(w), i = task[w].id
        PROVE  FALSE
    BY <2>1 DEF FixSaves
  <2>2. ASSUME NEW w \in Workers, Catalogues(w), Staged(w), i = task[w].id
        PROVE  FALSE
    BY <2>2, TheDest, TheConstants DEF Catalogues, Advances
  <2>3. ASSUME NEW w \in Workers, Rekeys(w) \/ Drops(w), i = task[w].other
        PROVE  FALSE
    BY <2>3 DEF Rekeys, Drops, Exists
  <2>4. ~(Repairs /\ record'[i] = Nothing)
    BY DEF Exists
  <2>5. QED
    BY <1>1, <1>2, <2>1, <2>2, <2>3, <2>4, RecordBefore
<1>4. ASSUME NEW m \in Names
      PROVE  disk'[m] # i
  <2>1. CASE disk'[m] = disk[m]
    BY <1>3, <2>1
  <2>2. ASSUME NEW w \in Workers, Moves(w), m = task[w].dest
        PROVE  disk'[m] # i
    <3>1. task[w].id # i
      BY <1>3, <2>2 DEF Moves, Advances, Undecided, Before, Deciding
    <3>2. QED
      BY <2>2, <3>1 DEF Moves
  <2>3. ASSUME Changes(m)
        PROVE  disk'[m] # i
    BY <2>3, TheConstants DEF Changes, Fresh, Exists
  <2>4. ASSUME NEW w \in Workers, Unlinks(w), m = task[w].want
        PROVE  disk'[m] # i
    BY <2>4, TheConstants DEF Unlinks
  <2>5. QED
    BY <2>1, <2>2, <2>3, <2>4, FileBefore
<1>5. ASSUME NEW w \in Workers, task'[w].id = i
      PROVE  IF Staged(w)' THEN task'[w].step \in Undecided(n) ELSE task'[w].path = n
  <2>1. CASE Staged(w)'
    <3>1. CASE BeginsStaged(w)
      BY <2>1, <3>1 DEF BeginsStaged, Undecided, Before
    <3>2. CASE task'[w] = task[w] /\ Staged(w)
      BY <1>3, <1>5, <2>1, <3>2
    <3>3. CASE Acts(w) /\ Staged(w) /\ task'[w].id = task[w].id
      <4>1. task[w].step \in Undecided(n)
        BY <1>3, <1>5, <3>3
      <4>2. CASE n \in Changing
        <5>1. ~Catalogues(w)
          BY <1>5, <3>3, TheDest, TheConstants DEF Catalogues, Advances
        <5>2. QED
          BY <2>1, <4>1, <4>2, <5>1, DecidesOn DEF Undecided
      <4>3. CASE n \notin Changing
        <5>1. task[w].step \in Before
          BY <4>1, <4>3 DEF Undecided
        <5>2. task'[w].step \in Before
          BY ZenonT(60), <1>5, <2>1, <3>3, <5>1, IdleHasNothing
             DEF Acts, Looks, Kept, Rekeys, Drops, Unmaps, Catalogues, FixSaves, MapsPath, Remaps, Unlinks, Moves,
                 Advances, Ends, Before, Exists, InPlace, Staged, At
        <5>3. QED
          BY <2>1, <4>3, <5>2 DEF Undecided
      <4>4. QED
        BY <4>2, <4>3
    <3>4. QED
      BY <2>1, <3>1, <3>2, <3>3, StagedBefore
  <2>2. CASE ~Staged(w)'
    <3>1. InPlace(w)'
      BY <1>5, <2>2, IdleHasNothing, TheConstants DEF InPlace
    <3>2. CASE BeginsInPlace(w)
      BY <1>5, <2>2, <3>2, TheConstants DEF BeginsInPlace
    <3>3. CASE task'[w] = task[w] /\ InPlace(w)
      BY <1>3, <1>5, <2>2, <3>3 DEF InPlace
    <3>4. CASE InPlace(w) /\ task'[w].path = task[w].path /\ task'[w].id \in {task[w].id, disk[task[w].path]}
      <4>1. task[w].path \in Names
        BY <3>4, TheTask DEF Calm, InPlace
      <4>2. QED
        BY <1>3, <1>5, <2>2, <3>4, <4>1 DEF InPlace
    <3>5. QED
      BY <3>1, <3>2, <3>3, <3>4, InPlaceBefore
  <2>3. QED
    BY <2>1, <2>2
<1>6. QED
  BY <1>4, <1>5

-----------------------------------------------------------------------------
(* Records and mappings *)

\* A process that is down stays down until it is started.
LEMMA StaysDown ==
  ASSUME Calm, CleanStep, watch.mode = "down"
  PROVE  watch'.mode = "down" \/ Startup
<1>1. /\ \A w \in Workers : task[w] = Idle
      /\ \A s \in Scans : scan[s] = NoScan
  BY DEF Calm, Orderly
<1>2. ASSUME NEW w \in Workers, Ingest(w) \/ FixFails(w) \/ Fail(w)
      PROVE  FALSE
  BY <1>1, <1>2, IdleHasNothing
     DEF Ingest, Reserve, Hash, Lookup, Rekey, Rekeyed, Known, Restore, Collide, Unlink, Drop, Unmap,
         Catalogue, Thumb, MapFile, ChooseDest, Move, Fix, FixSave, FixFails, Remap, Fail, At
<1>3. ASSUME NEW s \in Scans, ScanStep(s)
      PROVE  FALSE
  <2>1. scan[s].phase = "done"
    BY <1>1 DEF NoScan
  <2>2. \A n \in Names : ~TakeFile(s, n)
    BY <2>1 DEF TakeFile
  <2>3. QED
    BY <1>3, <2>1, <2>2 DEF ScanStep, Walk, Keys, Prune, Verify, ForgetDead, EndScan
<1>4. QED
  BY <1>2, <1>3
     DEF CleanStep, Next, StartDownload, TakeEvent, Supervise, SeeFailure, SeeRescan, Recover, RestartWatcher,
         UserChanges, BreakWatch, DropEvents, Reported, Crash, StartupDies, vars

\* The startup leaves no archive without a file.
LEMMA StartupFiles ==
  ASSUME IndInv, Startup, NEW i \in Contents, Exists(i)'
  PROVE  record'[i].file # Nothing
<1>1. RepairStore(Doomed, Doomed, {}) /\ Repairable = {}
  BY NothingIsRepairable DEF Startup, IndInv
<1>2. record'[i] = IF i \in Doomed THEN Nothing ELSE record[i]
  BY <1>1 DEF RepairStore
<1>3. QED
  BY <1>1, <1>2 DEF Exists, Doomed, Zombies

\* A download goes on until it ends, or the process does.
LEMMA DownloadsGoOn ==
  ASSUME Calm, CleanStep, NEW w \in Workers, Staged(w), watch'.mode # "down", task'[w] # task[w]
  PROVE  Acts(w)
<1>1. task[w] # Idle /\ w \notin {Watcher, CatchUp}
  BY IdleHasNothing, TheTask, TheConstants DEF Calm, Staged
<1>2. ~Quiet
  BY <1>1 DEF Quiet, BeginsStaged, BeginsInPlace
<1>3. ~(\E s \in Scans : Forgets(s)) /\ ~Repairs /\ ~(\E m \in Changing : Changes(m))
  BY DEF Forgets, Repairs, Changes
<1>4. ASSUME NEW v \in Workers, Acts(v), v # w
      PROVE  task'[w] = task[w]
  BY <1>4 DEF Acts, Looks, Rekeys, Drops, Unmaps, Catalogues, FixSaves, MapsPath, Remaps,
     Unlinks, Moves, Advances, Ends, Alone
<1>5. QED
  BY <1>2, <1>3, <1>4, TheKinds

\* A record that is written for a name that is not the user's has its bytes.
LEMMA FiledAsItIs ==
  ASSUME Calm, CleanStep, NEW n \in Names \ Changing, NEW i \in Contents,
         Exists(i)', record'[i].file = n, record'[i] # record[i]
  PROVE  disk'[n] = i
<1>1. ASSUME NEW w \in Workers, Rekeys(w), i = task[w].id
      PROVE  FALSE
  BY <1>1 DEF Rekeys
<1>2. ASSUME NEW w \in Workers, Catalogues(w), i = task[w].id
      PROVE  disk'[n] = i
  <2>1. task[w].path = n /\ ~Staged(w) /\ disk' = disk /\ task[w] # Idle
    BY <1>2, TheDest, TheConstants DEF Catalogues, Advances
  <2>2. QED
    BY <1>2, <2>1, HashedIsThere DEF InPlace
<1>3. ASSUME NEW w \in Workers, FixSaves(w), i = task[w].id
      PROVE  disk'[n] = i
  BY <1>3 DEF FixSaves
<1>4. ASSUME NEW w \in Workers, Rekeys(w) \/ Drops(w), i = task[w].other
      PROVE  FALSE
  BY <1>4 DEF Rekeys, Drops, Exists
<1>5. QED
  BY <1>1, <1>2, <1>3, <1>4, RecordBefore DEF Exists

\* RecordsAreTrue: a name that is overwritten is moved to once it has no archive.
LEMMA RecordsAreTrueStay ==
  ASSUME Calm, CleanStep
  PROVE  RecordsAreTrue'
<1> SUFFICES ASSUME NEW n \in Names \ Changing
             PROVE  /\ \A i \in Contents : Exists(i)' /\ record'[i].file = n =>
                         disk'[n] = i \/ (~OnDisk(n)' /\ n \in Wanted)
                    /\ \A i, j \in Contents :
                         Exists(i)' /\ Exists(j)' /\ record'[i].file = n /\ record'[j].file = n => i = j
  BY DEF RecordsAreTrue
<1>1. \A i \in Contents : Exists(i)' /\ record'[i].file = n /\ record'[i] # record[i] => disk'[n] = i
  BY FiledAsItIs
<1>2. ASSUME NEW i \in Contents, Exists(i)', record'[i].file = n
      PROVE  disk'[n] = i \/ (~OnDisk(n)' /\ n \in Wanted)
  <2>1. SUFFICES ASSUME record'[i] = record[i]
                 PROVE  disk'[n] = i \/ (~OnDisk(n)' /\ n \in Wanted)
    BY <1>1, <1>2
  <2>2. Exists(i) /\ record[i].file = n
    BY <1>2, <2>1 DEF Exists
  <2>3. disk[n] = i \/ (~OnDisk(n) /\ n \in Wanted)
    BY <2>2 DEF Calm, CleanInv, RecordsAreTrue
  <2>4. ASSUME NEW w \in Workers, Unlinks(w), n = task[w].want
        PROVE  ~OnDisk(n)' /\ n \in Wanted
    BY <2>4, TheDest DEF Unlinks, Advances, OnDisk
  <2>5. ASSUME NEW w \in Workers, Moves(w), n = task[w].dest
        PROVE  FALSE
    <3>1. disk[n] = Nothing /\ n \in Wanted
      BY <2>3, <2>5, TheConstants DEF Moves
    <3>2. task[w].want = n
      BY <2>5, <3>1, TheDest, TheNames, TriedOnce DEF Moves, Advances, Calm
    <3>3. disk[n] = i
      BY <2>2, <2>5, <3>2 DEF Moves, Advances, Calm, CleanInv, NameIsClear
    <3>4. QED
      BY <3>1, <3>3, TheConstants
  <2>6. QED
    BY <2>3, <2>4, <2>5, FileBefore DEF OnDisk
<1>3. ASSUME NEW i \in Contents, NEW j \in Contents, Exists(i)', Exists(j)', record'[i].file = n, record'[j].file = n
      PROVE  i = j
  <2>1. CASE OnDisk(n)'
    BY <1>2, <1>3, <2>1
  <2>2. CASE ~OnDisk(n)'
    <3>1. record'[i] = record[i] /\ record'[j] = record[j]
      BY <1>1, <1>3, <2>2, TheConstants DEF OnDisk
    <3>2. QED
      BY <1>3, <3>1 DEF Exists, Calm, CleanInv, RecordsAreTrue
  <2>3. QED
    BY <2>1, <2>2
<1>4. QED
  BY <1>2, <1>3

\* What a stale mapping of the next state was: the user's file, or the one overwritten.
LEMMA OutdatedBefore ==
  ASSUME Calm, CleanStep, NEW n \in Names, NEW f, f = filemap'[n], f \notin {Nothing, disk'[n]}
  PROVE  /\ f \in Contents
         /\ \/ filemap[n] = f /\ disk[n] # f
            \/ filemap[n] = f /\ disk[n] = f /\ n \in Wanted /\ disk'[n] = Nothing
               /\ (\E w \in Workers : Unlinks(w) /\ n = task[w].want) /\ Loses(n)
            \/ n \in Changing /\ Has(n, f) /\ record' = record
<1>1. f \in Contents
  <2>1. IndInv'
    BY NextIndInv DEF Calm, CleanStep
  <2>2. QED
    BY <2>1 DEF IndInv, TypeOK
<1>2. ASSUME NEW w \in Workers, MapsPath(w), n = task[w].path
      PROVE  n \in Changing /\ Has(n, f) /\ record' = record
  <2>1. f = task[w].id /\ InPlace(w) /\ f \in Contents /\ disk[n] # f /\ record' = record
    BY <1>2 DEF MapsPath
  <2>2. n \in Changing
    BY <1>2, <2>1, HashedIsThere
  <2>3. QED
    BY <1>2, <2>1, <2>2 DEF Has
<1>3. ASSUME filemap[n] = f, disk[n] = f
      PROVE  \/ n \in Wanted /\ disk'[n] = Nothing
                /\ (\E w \in Workers : Unlinks(w) /\ n = task[w].want) /\ Loses(n)
             \/ n \in Changing /\ Has(n, f) /\ record' = record
  <2>1. ASSUME NEW w \in Workers, Unlinks(w), n = task[w].want
        PROVE  n \in Wanted /\ disk'[n] = Nothing /\ Loses(n)
    BY <2>1, TheDest DEF Unlinks, Advances
  <2>2. CASE n \in Changing /\ Changes(n)
    BY <1>3, <2>2 DEF Changes, Has
  <2>3. QED
    BY <1>3, <2>1, <2>2, FileBefore DEF Moves
<1>4. QED
  BY <1>1, <1>2, <1>3, MappingBefore DEF Unmaps, Remaps

\* MappingsAreTrue: a file is unlinked or changed when no other has its bytes.
LEMMA MappingsAreTrueStay ==
  ASSUME Calm, CleanStep
  PROVE  MappingsAreTrue'
<1> SUFFICES ASSUME NEW n \in Names, NEW f, f = filemap'[n], f \notin {Nothing, disk'[n]}
             PROVE  /\ n \in Changing \union Wanted
                    /\ Exists(f)' => record'[f].file = n /\ (n \in Changing \/ ~OnDisk(n)')
  BY DEF MappingsAreTrue
<1>0. f \in Contents
  BY OutdatedBefore
<1>1. n \in Changing \union Wanted
  BY OutdatedBefore DEF Calm, CleanInv, MappingsAreTrue
<1>2. ASSUME Exists(f)', record'[f] = record[f]
      PROVE  record'[f].file = n /\ (n \in Changing \/ ~OnDisk(n)')
  <2>1. Exists(f)
    BY <1>2 DEF Exists
  <2>2. CASE filemap[n] = f /\ disk[n] # f
    <3>1. record[f].file = n /\ (n \in Changing \/ ~OnDisk(n))
      BY <2>1, <2>2 DEF Calm, CleanInv, MappingsAreTrue
    <3>2. ASSUME NEW w \in Workers, Moves(w), n = task[w].dest, n \notin Changing
          PROVE  FALSE
      <4>1. n \in Wanted /\ task[w].want \in Wanted /\ n \in Tried(n)
        BY <1>1, <3>2, TheDest, TheNames DEF Moves, Advances
      <4>2. task[w].want = n
        BY <3>2, <4>1, TriedOnce DEF Moves, Calm
      <4>3. disk[n] = f
        BY <1>0, <2>1, <3>1, <3>2, <4>2 DEF Moves, Advances, Calm, CleanInv, NameIsClear
      <4>4. QED
        BY <2>2, <4>3
    <3>3. n \in Changing \/ ~OnDisk(n)'
      BY <3>1, <3>2, FileBefore DEF OnDisk, Unlinks
    <3>4. QED
      BY <1>2, <3>1, <3>3
  <2>3. ASSUME filemap[n] = f, disk[n] = f, disk'[n] = Nothing, Loses(n),
               NEW w \in Workers, Unlinks(w), n = task[w].want
        PROVE  record'[f].file = n /\ (n \in Changing \/ ~OnDisk(n)')
    <3>1. watch.mode # "down"
      BY <2>3 DEF Unlinks, Advances, Calm, Orderly
    <3>2. OnDisk(n) /\ ~Doubled(n)
      BY <2>3 DEF OnDisk, Loses
    <3>3. record[f].file = n
      BY <2>1, <2>3, <3>1, <3>2, SoleFile
    <3>4. QED
      BY <1>2, <2>3, <3>3 DEF OnDisk
  <2>4. CASE n \in Changing /\ Has(n, f)
    BY <1>0, <1>2, <2>1, <2>4 DEF Calm, CleanInv, UsersAlone
  <2>5. QED
    BY <2>2, <2>3, <2>4, OutdatedBefore
<1>3. ASSUME Exists(f)', record'[f] # record[f]
      PROVE  record'[f].file = n /\ n \in Changing
  <2>1. filemap[n] = f /\ disk[n] # f /\ disk'[n] = disk[n]
    <3>1. \E w \in Workers : Rekeys(w) \/ Drops(w) \/ Catalogues(w) \/ FixSaves(w)
      BY <1>0, <1>3, RecordBefore DEF Exists
    <3>2. filemap' = filemap /\ disk' = disk
      BY <3>1 DEF Rekeys, Drops, Catalogues, FixSaves
    <3>3. QED
      BY <3>2
  <2>2. \A w \in Workers : task[w].id = f =>
          IF Staged(w) THEN task[w].step \in Before \union Deciding ELSE task[w].path = n
    BY <2>1 DEF Calm, CleanInv, OutdatedAlone
  <2>3. ASSUME NEW w \in Workers, Rekeys(w), f = task[w].id
        PROVE  record'[f].file = n /\ n \in Changing
    BY <2>2, <2>3 DEF Rekeys, InPlace
  <2>4. ASSUME NEW w \in Workers, Catalogues(w), f = task[w].id
        PROVE  record'[f].file = n /\ n \in Changing
    <3>1. ~Staged(w)
      BY <2>1, <2>4 DEF Catalogues
    <3>2. task[w].path = n /\ record'[f].file = n /\ InPlace(w)
      BY <2>2, <2>4, <3>1 DEF Catalogues, Advances, InPlace
    <3>3. QED
      BY <1>0, <2>1, <2>4, <3>2, HashedIsThere
  <2>5. ASSUME NEW w \in Workers, FixSaves(w), f = task[w].id
        PROVE  FALSE
    BY <2>2, <2>5 DEF FixSaves, Advances, Before, Deciding
  <2>6. QED
    BY <1>0, <1>3, <2>3, <2>4, <2>5, RecordBefore DEF Exists, Rekeys, Drops
<1>4. QED
  BY <1>1, <1>2, <1>3

-----------------------------------------------------------------------------
(* What workers have decided *)

\* The steps of a download that has its archive.
LEMMA PlacingBefore ==
  ASSUME Calm, CleanStep, NEW w \in Workers, Acts(w), Staged(w), Staged(w)'
  PROVE  /\ Placing(w)' => Placing(w) \/ Catalogues(w)
         /\ Placing(w) => Placing(w)' \/ FixSaves(w) \/ ~Exists(task[w].id)
<1>1. task'[w].want = task[w].want /\ task'[w].id = task[w].id /\ task[w] # Idle /\ task'[w] # Idle
  BY StagedBefore, IdleHasNothing DEF Staged, BeginsStaged
<1>2. CASE Looks(w)
  BY <1>1, <1>2 DEF Placing, Looks, Advances, Ends, At, InPlace
<1>3. CASE Rekeys(w) \/ Drops(w) \/ Unmaps(w) \/ Unlinks(w) \/ Moves(w) \/ FixSaves(w) \/ Catalogues(w)
  BY <1>1, <1>3 DEF Placing, Rekeys, Drops, Unmaps, Unlinks, Moves, FixSaves, Catalogues, Advances, InPlace
<1>4. CASE MapsPath(w) \/ Remaps(w)
  BY <1>1, <1>4 DEF MapsPath, Remaps, Ends
<1>5. QED
  BY <1>2, <1>3, <1>4 DEF Acts

\* UnfiledInHand: an archive without a file is a download's that goes on.
LEMMA UnfiledInHandStays ==
  ASSUME Calm, CleanStep
  PROVE  UnfiledInHand'
<1>1. ASSUME watch'.mode # "down", NEW i \in Contents, Exists(i)', record'[i].file = Nothing
      PROVE  \E w \in Workers : Placing(w)' /\ task'[w].id = i
  <2>1. watch.mode # "down"
    BY <1>1, StaysDown, StartupFiles DEF Calm
  <2>2. CASE record'[i] = record[i]
    <3>1. PICK w \in Workers : Placing(w) /\ task[w].id = i
      BY <1>1, <2>1, <2>2 DEF Exists, Calm, CleanInv, UnfiledInHand
    <3>2. CASE task'[w] = task[w]
      BY <3>1, <3>2 DEF Placing, Staged
    <3>3. CASE task'[w] # task[w]
      <4>1. Acts(w)
        BY <1>1, <3>1, <3>3, DownloadsGoOn DEF Placing
      <4>2. ~Ends(w, "restore") /\ ~Ends(w, "collide") /\ ~Remaps(w) /\ ~FixSaves(w) /\ ~MapsPath(w)
        <5>1. ~FixSaves(w)
          <6>1. FixSaves(w) => record'[i].file \in Tried(task[w].want)
            BY <3>1 DEF FixSaves
          <6>2. FixSaves(w) => record'[i].file \in Names
            BY <6>1, TheDest, TheNames DEF FixSaves, Advances
          <6>3. QED
            BY <1>1, <6>2, TheConstants
        <5>2. QED
          BY <3>1, <5>1 DEF Placing, Ends, Remaps, MapsPath, InPlace
      <4>3. Staged(w)' /\ task'[w].id = i
        BY <3>1, <4>1, <4>2 DEF Placing, Acts, Looks, Rekeys, Drops, Unmaps, Catalogues, Unlinks, Moves,
           Advances, Keeps, Ends, Staged, InPlace
      <4>4. QED
        BY <1>1, <2>2, <3>1, <4>1, <4>2, <4>3, PlacingBefore DEF Placing, Exists
    <3>4. QED
      BY <3>2, <3>3
  <2>3. ASSUME NEW w \in Workers, Catalogues(w), i = task[w].id
        PROVE  Placing(w)' /\ task'[w].id = i
    <3>1. task[w].path = Nothing /\ task[w] # Idle
      BY <1>1, <2>3 DEF Catalogues, Advances
    <3>2. Staged(w)
      BY <3>1, TheTask, TheConstants DEF Calm
    <3>3. QED
      BY <2>3, <3>2 DEF Catalogues, Advances, Keeps, Placing, Staged, InPlace
  <2>4. ASSUME NEW w \in Workers, Rekeys(w) \/ FixSaves(w), i = task[w].id
        PROVE  FALSE
    <3>1. record'[i].file \in Names
      BY <2>4, TheConstants, TheDest, TheNames DEF Rekeys, FixSaves, Advances
    <3>2. QED
      BY <1>1, <3>1, TheConstants
  <2>5. ASSUME NEW w \in Workers, Rekeys(w) \/ Drops(w), i = task[w].other
        PROVE  FALSE
    BY <1>1, <2>5 DEF Rekeys, Drops, Exists
  <2>6. QED
    BY <1>1, <2>2, <2>3, <2>4, <2>5, RecordBefore DEF Exists
<1>2. ASSUME NEW w \in Workers, Placing(w)'
      PROVE  record'[task'[w].id] # Nothing
  <2>0. Staged(w)'
    BY <1>2 DEF Placing
  <2>1. Staged(w) /\ task'[w].id = task[w].id
    BY <1>2, <2>0, StagedBefore DEF BeginsStaged, Placing
  <2> SUFFICES ASSUME NEW i, i = task[w].id
               PROVE  record'[i] # Nothing
    BY <2>1
  <2>2. Placing(w) \/ Catalogues(w)
    BY <1>2, <2>0, <2>1, StagedBefore, PlacingBefore DEF BeginsStaged, Placing, Staged
  <2>3. i \in Contents /\ i \in Brought /\ task[w] # Idle
    BY <2>1, TheDest, IdleHasNothing DEF Staged
  <2>4. CASE record'[i] = record[i] /\ Placing(w)
    BY <2>1, <2>4 DEF Exists, Calm, CleanInv, UnfiledInHand
  <2>5. ASSUME NEW v \in Workers, Rekeys(v), i = task[v].other
        PROVE  FALSE
    <3>1. task[v].path \in Changing /\ Has(task[v].path, i)
      BY <2>5 DEF Rekeys, Has
    <3>2. task[w].step \in Before \union Deciding
      BY <2>1, <2>3, <3>1 DEF Calm, CleanInv, UsersAlone
    <3>3. ~Catalogues(w)
      BY <2>1, <3>1 DEF Catalogues
    <3>4. QED
      BY <2>2, <3>2, <3>3 DEF Placing, Before, Deciding
  <2>6. ASSUME NEW v \in Workers, Drops(v), i = task[v].other
        PROVE  FALSE
    <3>1. Exists(i) /\ record[i].file # Nothing /\ ~Readable(i)
      BY <2>3, <2>6, TheDest, TheConstants DEF Drops, Advances, Readable, OnDisk
    <3>2. record[i].file \notin Changing
      BY <2>6, TheDest DEF Drops, Advances
    <3>3. task[w].step \in Before
      BY <2>1, <2>3, <3>1, <3>2 DEF Calm, CleanInv, UnreadableAlone, Undecided
    <3>4. QED
      BY <2>2, <3>3 DEF Before, Placing, Catalogues, Advances
  <2>7. ASSUME NEW v \in Workers, Rekeys(v) \/ Catalogues(v) \/ FixSaves(v), i = task[v].id
        PROVE  record'[i] # Nothing
    <3>1. Rekeys(v) => record'[i] # Nothing
      BY <2>7 DEF Rekeys, Exists
    <3>2. QED
      BY <2>7, <3>1 DEF Catalogues, FixSaves, Exists
  <2>8. ~Repairs
    BY <2>3 DEF Repairs, Calm, Orderly
  <2>9. CASE Catalogues(w)
    BY <2>1, <2>9 DEF Catalogues, Exists
  <2>10. QED
    BY <2>1, <2>2, <2>3, <2>4, <2>5, <2>6, <2>7, <2>8, <2>9, RecordBefore
<1>3. QED
  BY <1>1, <1>2 DEF UnfiledInHand, Exists

\* Which task a step needs, after it.
LEMMA TheNextTask ==
  ASSUME Calm, CleanStep, NEW w \in Workers
  PROVE  task'[w].step \in StagedSteps => task'[w] # Idle /\ Staged(w)'
<1>1. TaskFits(w)'
  BY NextIndInv DEF Calm, CleanStep, IndInv, TasksAreSound
<1>2. task'[w].step \in StagedSteps => task'[w] # Idle
  BY IdleHasNothing DEF StagedSteps
<1>3. QED
  BY <1>1, <1>2 DEF TaskFits

\* Nobody touches the wanted name of a download past its reservation.
LEMMA WantedStays ==
  ASSUME Calm, CleanStep, NEW w \in Workers, task[w] # Idle, Staged(w), ~At(w, "lock"), task'[w] = task[w]
  PROVE  disk'[task[w].want] = disk[task[w].want]
<1> DEFINE n == task[w].want
<1>1. n \in Names /\ n \notin Changing /\ n \in Tried(task[w].want)
  BY TheDest
<1>2. ASSUME NEW v \in Workers, Unlinks(v) \/ Moves(v), n \in Tried(task[v].want)
      PROVE  FALSE
  <2>1. task[v] # Idle /\ Staged(v) /\ ~At(v, "lock") /\ task'[v] # task[v]
    BY <1>2 DEF Unlinks, Moves, Advances, At
  <2>2. QED
    BY <1>1, <1>2, <2>1, OneAtItsName
<1>3. \A v \in Workers : Unlinks(v) => task[v].want \in Tried(task[v].want)
  BY TheDest DEF Unlinks, Advances
<1>4. QED
  BY <1>1, <1>2, <1>3, FileBefore DEF Moves

\* NameIsClear: the archive of the wanted name is dropped, or is that of its bytes.
LEMMA NameIsClearStays ==
  ASSUME Calm, CleanStep
  PROVE  NameIsClear'
<1> DEFINE Clear == {"unmap", "catalogue", "thumb", "map", "dest", "move"}
<1> SUFFICES ASSUME NEW w \in Workers, Staged(w)', task'[w].step \in Clear,
                    NEW i \in Contents, Exists(i)', record'[i].file = task'[w].want
             PROVE  disk'[task'[w].want] = i
  BY DEF NameIsClear
<1> DEFINE n == task[w].want
<1>1. Staged(w) /\ task'[w].want = n /\ task[w] # Idle
  BY StagedBefore, IdleHasNothing DEF BeginsStaged, Staged
<1>2. n \in Names \ Changing
  BY <1>1, TheDest
<1>3. CASE record'[i] # record[i]
  BY <1>1, <1>2, <1>3, FiledAsItIs
<1>4. CASE record'[i] = record[i]
  <2>1. Exists(i) /\ record[i].file = n
    BY <1>1, <1>4 DEF Exists
  <2>2. CASE task'[w] = task[w]
    <3>1. disk[n] = i
      BY <1>1, <2>1, <2>2 DEF Calm, CleanInv, NameIsClear
    <3>2. QED
      BY <1>1, <2>2, <3>1, WantedStays DEF At
  <2>3. ASSUME Acts(w)
        PROVE  disk'[n] = i
    <3>1. CASE Drops(w)
      <4>1. task[w].other \in Contents /\ Exists(task[w].other) /\ record[task[w].other].file = n
        BY <3>1 DEF Drops
      <4>2. i = task[w].other
        BY <1>2, <2>1, <4>1 DEF Calm, CleanInv, RecordsAreTrue
      <4>3. QED
        BY <3>1, <4>2 DEF Drops, Exists
    <3>2. CASE Looks(w) /\ Advances(w, "collide", "catalogue")
      <4>1. task[w].id \in Contents /\ Exists(task[w].id) /\ record[task[w].id].file = n
        BY <1>1, <2>1, <3>2, TheDest DEF Looks, Advances, Ends, At
      <4>2. i = task[w].id
        BY <1>2, <2>1, <4>1 DEF Calm, CleanInv, RecordsAreTrue
      <4>3. disk[n] = i
        <5>1. SUFFICES ASSUME disk[n] # i
                       PROVE  FALSE
          OBVIOUS
        <5>2. record[i].file # Nothing /\ ~Readable(i)
          BY <1>2, <2>1, <5>1, TheConstants DEF Readable
        <5>3. task[w].step \in Before
          BY <1>1, <1>2, <2>1, <4>2, <5>2 DEF Calm, CleanInv, UnreadableAlone, Undecided
        <5>4. QED
          BY <3>2, <5>3 DEF Advances, Before
      <4>4. QED
        BY <3>2, <4>3 DEF Looks, Kept
    <3>3. CASE ~Drops(w) /\ ~(Looks(w) /\ Advances(w, "collide", "catalogue"))
      <4>1. task[w].step \in Clear /\ disk' = disk
        BY <1>1, <2>3, <3>3, IdleHasNothing
           DEF Acts, Looks, Kept, Rekeys, Unmaps, Catalogues, FixSaves, MapsPath, Remaps, Unlinks, Moves,
               Advances, Ends, InPlace, At
      <4>2. QED
        BY <1>1, <2>1, <4>1 DEF Calm, CleanInv, NameIsClear
    <3>4. QED
      BY <3>1, <3>2, <3>3
  <2>4. QED
    BY <1>1, <2>2, <2>3, StagedBefore DEF BeginsStaged
<1>5. QED
  BY <1>3, <1>4

\* What is overwritten stays what it is until the download has overwritten it.
LEMMA OverwrittenStays ==
  ASSUME Calm, CleanStep, NEW w \in Workers, task'[w] = task[w], task[w].step \in {"unlink", "drop"}
  PROVE  /\ task[w].other \in Contents /\ record'[task[w].other] # Nothing
         /\ \/ disk'[task[w].want] = task[w].other
            \/ ~OnDisk(task[w].want)' /\ record'[task[w].other].file = task[w].want
<1> DEFINE n == task[w].want
           o == task[w].other
<1>1. task[w] # Idle /\ Staged(w)
  BY TheTask, IdleHasNothing DEF Calm, StagedSteps
<1>2. n \in Names \ Changing /\ n \in Tried(n)
  BY <1>1, TheDest
<1>3. disk'[n] = disk[n]
  BY <1>1, WantedStays DEF At
<1>4. /\ o \in Contents /\ Exists(o)
      /\ disk[n] = o \/ (~OnDisk(n) /\ record[o].file = n)
  BY <1>2, TheConstants DEF Calm, CleanInv, Overwriting, At
<1>5. CASE record'[o] = record[o]
  BY <1>3, <1>4, <1>5 DEF Exists, OnDisk
<1>6. ASSUME NEW v \in Workers, Rekeys(v), o \in {task[v].id, task[v].other}
      PROVE  FALSE
  <2>1. Has(n, o) /\ Has(task[v].path, o) /\ task[v].path \in Changing
    BY <1>2, <1>4, <1>6 DEF Rekeys, Has
  <2>2. n = task[v].path
    BY <1>2, <1>4, <2>1 DEF Calm, CleanInv, UsersAlone
  <2>3. QED
    BY <1>2, <2>1, <2>2
<1>7. ASSUME NEW v \in Workers, Drops(v), o = task[v].other
      PROVE  FALSE
  <2>1. task[v] # Idle /\ Staged(v) /\ ~At(v, "lock") /\ v # w
    BY <1>7 DEF Drops, Advances, At
  <2>2. record[o].file = task[v].want /\ ~OnDisk(task[v].want) /\ task[v].want \in Tried(task[v].want)
        /\ task[v].want \in Names
    BY <1>7, <2>1, TheDest DEF Drops
  <2>3. task[v].want # n
    BY <1>1, <1>2, <2>1, <2>2, OneAtItsName DEF At
  <2>4. record[o].file # Nothing /\ ~Readable(o)
    BY <1>4, <2>2, TheConstants DEF Readable, OnDisk
  <2>5. disk[n] # o
    BY <1>2, <1>4, <2>4 DEF Calm, CleanInv, UnreadableAlone
  <2>6. QED
    BY <1>4, <2>2, <2>3, <2>5
<1>8. ASSUME NEW v \in Workers, Catalogues(v) \/ FixSaves(v), o = task[v].id
      PROVE  record'[o] # Nothing /\ disk[n] = o
  <2>1. record'[o] # Nothing
    BY <1>8 DEF Catalogues, FixSaves
  <2>2. ASSUME disk[n] # o
        PROVE  FALSE
    <3>1. record[o].file = n /\ record[o].file # Nothing /\ ~Readable(o)
      BY <1>2, <1>4, <2>2, TheConstants DEF Readable
    <3>2. IF Staged(v) THEN task[v].step \in Before ELSE task[v].path = n
      BY <1>2, <1>4, <1>8, <3>1 DEF Calm, CleanInv, UnreadableAlone, Undecided
    <3>3. ~Staged(v) /\ task[v] # Idle /\ task[v].path = n
      BY <1>8, <3>2 DEF Catalogues, FixSaves, Advances, Before
    <3>4. QED
      BY <1>2, <1>4, <1>8, <2>2, <3>3, HashedIsThere DEF InPlace
  <2>3. QED
    BY <2>1, <2>2
<1>9. ~Repairs
  BY <1>1 DEF Repairs, Calm, Orderly
<1>10. QED
  BY <1>3, <1>4, <1>5, <1>6, <1>7, <1>8, <1>9, RecordBefore

\* Overwriting: the archive found has the name's bytes, or its file is gone.
LEMMA OverwritingStays ==
  ASSUME Calm, CleanStep
  PROVE  Overwriting'
<1> SUFFICES ASSUME NEW w \in Workers, task'[w].step \in {"unlink", "drop", "unmap"}
             PROVE  /\ task'[w].step # "unmap" => task'[w].other \in Contents /\ record'[task'[w].other] # Nothing
                    /\ task'[w].step = "unlink" =>
                         /\ task'[w].other # task'[w].id
                         /\ \/ disk'[task'[w].want] = task'[w].other
                            \/ disk'[task'[w].want] = Nothing /\ record'[task'[w].other].file = task'[w].want
                    /\ task'[w].step = "drop" => record'[task'[w].other].file = task'[w].want
                    /\ task'[w].step # "unlink" => disk'[task'[w].want] = Nothing
  BY DEF Overwriting, At, Exists, OnDisk
<1>1. Staged(w)' /\ task'[w] # Idle
  BY TheNextTask DEF StagedSteps
<1>2. CASE task'[w] = task[w]
  <2>1. Staged(w) /\ task[w] # Idle /\ ~At(w, "lock")
    BY <1>1, <1>2 DEF Staged, At
  <2>2. disk'[task[w].want] = disk[task[w].want]
    BY <1>2, <2>1, WantedStays
  <2>3. task[w].step \in {"drop", "unmap"} => disk[task[w].want] = Nothing
    BY DEF Calm, CleanInv, Overwriting, OnDisk
  <2>4. task[w].step = "unlink" => task[w].other # task[w].id
    BY DEF Calm, CleanInv, Overwriting, At
  <2>5. task[w].step \in {"unlink", "drop"} =>
          /\ task[w].other \in Contents /\ record'[task[w].other] # Nothing
          /\ \/ disk'[task[w].want] = task[w].other
             \/ disk'[task[w].want] = Nothing /\ record'[task[w].other].file = task[w].want
    BY <1>2, OverwrittenStays DEF OnDisk
  <2>6. QED
    BY <1>2, <2>2, <2>3, <2>4, <2>5, TheConstants
<1>3. ASSUME Acts(w), Staged(w), task[w] # Idle
      PROVE  (Looks(w) /\ At(w, "collide")) \/ Unlinks(w) \/ Drops(w)
  BY <1>1, <1>3, IdleHasNothing
     DEF Acts, Looks, Rekeys, Unmaps, Catalogues, FixSaves, MapsPath, Remaps, Moves, Advances, Ends, InPlace, At
<1>4. ASSUME Looks(w), At(w, "collide"), Staged(w), task[w] # Idle
      PROVE  /\ task'[w].step = "unlink" /\ task'[w].other \in Contents \ {task'[w].id}
             /\ record'[task'[w].other] # Nothing
             /\ \/ disk'[task'[w].want] = task'[w].other
                \/ disk'[task'[w].want] = Nothing /\ record'[task'[w].other].file = task'[w].want
  <2>1. /\ task'[w].step = "unlink" /\ task'[w].want = task[w].want /\ task'[w].id = task[w].id
        /\ task'[w].other \in Contents \ {task[w].id}
        /\ Exists(task'[w].other) /\ record[task'[w].other].file = task[w].want
    BY <1>1, <1>4 DEF Looks, Advances, Ends, Keeps, At
  <2>2. record' = record /\ disk' = disk
    BY <1>4 DEF Looks, Kept
  <2>3. task[w].want \in Names \ Changing
    BY <1>4, TheDest
  <2>4. disk[task[w].want] = task'[w].other \/ ~OnDisk(task[w].want)
    BY <2>1, <2>3 DEF Calm, CleanInv, RecordsAreTrue
  <2>5. QED
    BY <2>1, <2>2, <2>4 DEF Exists, OnDisk
<1>5. ASSUME Unlinks(w), task[w] # Idle
      PROVE  /\ task'[w].step = "drop" /\ task'[w].other \in Contents /\ record'[task'[w].other] # Nothing
             /\ record'[task'[w].other].file = task'[w].want /\ disk'[task'[w].want] = Nothing
  <2> DEFINE o == task[w].other
  <2>1. task'[w].step = "drop" /\ task'[w].want = task[w].want /\ task'[w].other = o /\ At(w, "unlink")
    BY <1>5 DEF Unlinks, Advances, Keeps, At
  <2>2. o \in Contents /\ Exists(o) /\ (disk[task[w].want] = o \/ record[o].file = task[w].want)
    BY <2>1 DEF Calm, CleanInv, Overwriting
  <2>3. disk[task[w].want] = o => record[o].file = task[w].want
    <3>1. watch.mode # "down" /\ task[w].want \in Names
      BY <1>5, TheDest DEF Unlinks, Calm, Orderly
    <3>2. disk[task[w].want] = o => OnDisk(task[w].want) /\ ~Doubled(task[w].want)
      BY <1>5, <2>2, TheConstants DEF Unlinks, Loses, OnDisk
    <3>3. QED
      BY <2>2, <3>1, <3>2, SoleFile
  <2>4. record' = record /\ disk'[task[w].want] = Nothing
    BY <1>5 DEF Unlinks
  <2>5. QED
    BY <2>1, <2>2, <2>3, <2>4 DEF Exists
<1>6. CASE Drops(w)
  BY <1>6 DEF Drops, Advances, Keeps, OnDisk
<1>7. QED
  BY <1>1, <1>2, <1>3, <1>4, <1>5, <1>6, StagedBefore, IdleHasNothing DEF BeginsStaged, Staged

-----------------------------------------------------------------------------
(* How scans, the watcher's events and the supervisor go on *)

OtherScans(s) == \A t \in Scans \ {s} : scan'[t] = scan[t]
InScan(s, from) ==
  /\ scan[s].phase = from /\ OtherScans(s)
  /\ UNCHANGED <<disk, record, events>>

Walks(s) ==
  /\ InScan(s, "walk") /\ UNCHANGED <<filemap, task, watch>>
  /\ scan'[s].phase = "keys" /\ scan'[s].seen = {n \in Names : OnDisk(n)}
ReadsKeys(s) ==
  /\ InScan(s, "keys") /\ UNCHANGED <<filemap, task, watch>>
  /\ scan'[s].phase = "prune" /\ scan'[s].seen = scan[s].seen
  /\ scan'[s].known = {n \in Names : filemap[n] # Nothing}
Prunes(s) ==
  /\ InScan(s, "prune") /\ UNCHANGED <<task, watch>>
  /\ \/ scan'[s].phase = "verify"
     \/ scan'[s].phase = "forget" /\ scan[s].known = {}
  /\ scan'[s].seen = scan[s].seen /\ scan'[s].known = scan[s].known
  /\ \A n \in Names : filemap'[n] = IF n \in scan[s].known \ scan[s].seen THEN Nothing ELSE filemap[n]
Verifies(s) ==
  /\ InScan(s, "verify") /\ UNCHANGED <<filemap, task, watch>>
  /\ scan'[s].phase = "forget"
  /\ scan'[s].seen = scan[s].seen /\ scan'[s].known = scan[s].known
  /\ scan'[s].dead = {n \in Names : filemap[n] # Nothing /\ ~Exists(filemap[n])}
ForgetsTheDead(s) ==
  /\ InScan(s, "forget") /\ UNCHANGED <<task, watch>>
  /\ scan'[s].phase = "ingest" /\ scan'[s].seen = scan[s].seen \ (scan[s].known \ scan[s].dead)
  /\ \A n \in Names : filemap'[n] = IF n \in scan[s].dead THEN Nothing ELSE filemap[n]
TakesFile(s, n) ==
  /\ InScan(s, "ingest") /\ UNCHANGED <<filemap, watch>>
  /\ BeginsInPlace(s) /\ task'[s].step = "hash" /\ task'[s].path = n /\ Alone(s)
  /\ n \in scan[s].seen
  /\ scan'[s].phase = "ingest" /\ scan'[s].seen = scan[s].seen \ {n}
EndsScan(s) ==
  /\ InScan(s, "ingest") /\ UNCHANGED <<filemap, task>>
  /\ task[s] = Idle /\ scan[s].seen = {}
  /\ scan'[s].phase = "done"
  /\ watch'.broken = watch.broken /\ watch'.rescan = watch.rescan
  /\ watch' = watch \/ (s = CatchUp /\ watch'.mode = "watching")
GoesOn(s) ==
  \/ Walks(s) \/ ReadsKeys(s) \/ Prunes(s) \/ Verifies(s) \/ ForgetsTheDead(s)
  \/ (\E n \in Names : TakesFile(s, n)) \/ EndsScan(s)

BeginsDownload(d) == Kept /\ Aside /\ BeginsStaged(d) /\ Alone(d)
TakesEvent(n) ==
  /\ Kept /\ UNCHANGED <<scan, watch>>
  /\ n \in events /\ events' = events \ {n}
  /\ BeginsInPlace(Watcher) /\ task'[Watcher].step = "lock" /\ task'[Watcher].path = n
  /\ Alone(Watcher)

\* The supervisor gives the watcher's loop up, or starts its scan.
SeesFailure ==
  /\ Kept /\ UNCHANGED scan /\ watch'.mode = "recovering" /\ events' = {}
  /\ task'[Watcher] = Idle /\ Alone(Watcher)
Rescans ==
  /\ Kept /\ watch'.mode # "down" /\ events' \in {events, {}}
  /\ scan'[CatchUp].phase = "walk" /\ OtherScans(CatchUp)
  /\ task'[CatchUp] = Idle /\ task'[Watcher] \in {task[Watcher], Idle}
  /\ \A w \in Workers \ {Watcher, CatchUp} : task'[w] = task[w]
Alarms ==
  /\ Kept /\ UNCHANGED <<task, scan>> /\ events' \in {events, {}}
  /\ watch'.mode = watch.mode /\ (watch'.broken \/ watch'.rescan)
Dies ==
  /\ Kept /\ watch'.mode = "down" /\ events' = {}
  /\ \A w \in Workers : task'[w] = Idle
  /\ \A s \in Scans : scan'[s].phase = "done"
StartsUp == Repairs /\ watch'.mode = "watching" /\ scan'[Boot].phase = "walk" /\ OtherScans(Boot)

\* Each step of a scan takes it from one phase to the next, or hands over one file.
LEMMA TheScansGoOn ==
  ASSUME IndInv, NEW s \in Scans, ScanStep(s)
  PROVE  GoesOn(s)
<1>1. s \in Workers /\ scan[s] \in ScanStates
  BY TheConstants DEF IndInv, TypeOK
<1>2. ASSUME NEW c, scan' = [scan EXCEPT ![s] = c]
      PROVE  scan'[s] = c /\ OtherScans(s)
  BY <1>2 DEF OtherScans, IndInv, TypeOK
<1> USE DEF InScan, GoesOn, store
<1>3. CASE Walk(s)
  <2> DEFINE c == [scan[s] EXCEPT !.phase = "keys", !.seen = {n \in Names : OnDisk(n)}]
  <2>1. scan' = [scan EXCEPT ![s] = c]
    BY <1>3 DEF Walk
  <2>2. c.phase = "keys" /\ c.seen = {n \in Names : OnDisk(n)}
    BY <1>1 DEF ScanStates
  <2> HIDE DEF c
  <2>3. QED
    BY <1>2, <1>3, <2>1, <2>2 DEF Walk, Walks
<1>4. CASE Keys(s)
  <2> DEFINE c == [scan[s] EXCEPT !.phase = "prune", !.known = {n \in Names : filemap[n] # Nothing}]
  <2>1. scan' = [scan EXCEPT ![s] = c]
    BY <1>4 DEF Keys
  <2>2. c.phase = "prune" /\ c.seen = scan[s].seen /\ c.known = {n \in Names : filemap[n] # Nothing}
    BY <1>1 DEF ScanStates
  <2> HIDE DEF c
  <2>3. QED
    BY <1>2, <1>4, <2>1, <2>2 DEF Keys, ReadsKeys
<1>5. CASE Prune(s)
  <2> DEFINE p == IF scan[s].known = {} THEN "forget" ELSE "verify"
             c == [scan[s] EXCEPT !.phase = p]
  <2>1. scan' = [scan EXCEPT ![s] = c]
    BY <1>5 DEF Prune
  <2>2. c.phase = p /\ c.seen = scan[s].seen /\ c.known = scan[s].known
    BY <1>1 DEF ScanStates
  <2> HIDE DEF c
  <2>3. \A n \in Names : filemap'[n] = IF n \in scan[s].known \ scan[s].seen THEN Nothing ELSE filemap[n]
    BY <1>5 DEF Prune, Forget
  <2>4. QED
    BY <1>2, <1>5, <2>1, <2>2, <2>3 DEF Prune, Prunes
<1>6. CASE Verify(s)
  <2> DEFINE c == [scan[s] EXCEPT !.phase = "forget",
                                  !.dead = {n \in Names : filemap[n] # Nothing /\ ~Exists(filemap[n])}]
  <2>1. scan' = [scan EXCEPT ![s] = c]
    BY <1>6 DEF Verify
  <2>2. /\ c.phase = "forget" /\ c.seen = scan[s].seen /\ c.known = scan[s].known
        /\ c.dead = {n \in Names : filemap[n] # Nothing /\ ~Exists(filemap[n])}
    BY <1>1 DEF ScanStates
  <2> HIDE DEF c
  <2>3. QED
    BY <1>2, <1>6, <2>1, <2>2 DEF Verify, Verifies
<1>7. CASE ForgetDead(s)
  <2> DEFINE c == [NoScan EXCEPT !.phase = "ingest", !.seen = (scan[s].seen \ (scan[s].known \ scan[s].dead))]
  <2>1. scan' = [scan EXCEPT ![s] = c]
    BY <1>7 DEF ForgetDead
  <2>2. c.phase = "ingest" /\ c.seen = scan[s].seen \ (scan[s].known \ scan[s].dead)
    BY DEF NoScan
  <2> HIDE DEF c
  <2>3. \A n \in Names : filemap'[n] = IF n \in scan[s].dead THEN Nothing ELSE filemap[n]
    BY <1>7 DEF ForgetDead, Forget
  <2>4. QED
    BY <1>2, <1>7, <2>1, <2>2, <2>3 DEF ForgetDead, ForgetsTheDead
<1>8. ASSUME NEW n \in Names, TakeFile(s, n)
      PROVE  TakesFile(s, n)
  <2> DEFINE c == [scan[s] EXCEPT !.seen = @ \ {n}]
             t == [Idle EXCEPT !.step = "hash", !.path = n]
  <2>1. scan' = [scan EXCEPT ![s] = c] /\ task' = [task EXCEPT ![s] = t]
    BY <1>8 DEF TakeFile
  <2>2. c.phase = scan[s].phase /\ c.seen = scan[s].seen \ {n}
    BY <1>1 DEF ScanStates
  <2>3. t.step = "hash" /\ t.path = n /\ t.want = Nothing /\ t.id = Nothing /\ t.other = Nothing
    BY DEF Idle
  <2>4. task[s] = Idle
    BY <1>1, <1>8 DEF TakeFile, IndInv, TasksAreSound, TaskFits
  <2> HIDE DEF c, t
  <2>5. task'[s] = t /\ Alone(s)
    BY <1>1, <2>1 DEF Alone, IndInv, TypeOK
  <2>6. BeginsInPlace(s)
    BY <2>3, <2>4, <2>5, IdleHasNothing DEF BeginsInPlace
  <2>7. QED
    BY <1>2, <1>8, <2>1, <2>2, <2>3, <2>5, <2>6 DEF TakeFile, TakesFile
<1>9. CASE EndScan(s)
  <2>1. task[s] = Idle
    BY <1>1, <1>9 DEF EndScan, IndInv, TasksAreSound, TaskFits
  <2>2. scan'[s].phase = "done" /\ OtherScans(s)
    <3>1. scan' = [scan EXCEPT ![s] = NoScan]
      BY <1>9 DEF EndScan
    <3>2. NoScan.phase = "done"
      BY DEF NoScan
    <3>3. QED
      BY <1>2, <3>1, <3>2
  <2>3. watch'.broken = watch.broken /\ watch'.rescan = watch.rescan
        /\ (watch' = watch \/ (s = CatchUp /\ watch'.mode = "watching"))
    <3>1. watch \in WatchStates
      BY DEF IndInv, TypeOK
    <3>2. [watch EXCEPT !.mode = "watching"].mode = "watching"
          /\ [watch EXCEPT !.mode = "watching"].broken = watch.broken
          /\ [watch EXCEPT !.mode = "watching"].rescan = watch.rescan
      BY <3>1 DEF WatchStates
    <3>3. QED
      BY <1>9, <3>2 DEF EndScan
  <2>4. QED
    BY <1>9, <2>1, <2>2, <2>3 DEF EndScan, EndsScan
<1>10. QED
  BY <1>3, <1>4, <1>5, <1>6, <1>7, <1>8, <1>9 DEF ScanStep

\* A scan that does not run has no task.
LEMMA NoScanNoTask ==
  ASSUME Calm, NEW s \in Scans, scan[s] = NoScan
  PROVE  scan[s].phase = "done" /\ task[s] = Idle
BY DEF NoScan, Calm, CleanInv, ScansSee

\* The steps that begin a task, and the supervisor's.
LEMMA TheBeginnings ==
  ASSUME IndInv
  PROVE  /\ \A d \in Downloads, i \in Brought, n \in Wanted, o \in BOOLEAN :
              StartDownload(d, i, n, o) => BeginsDownload(d)
         /\ \A n \in Names : TakeEvent(n) => TakesEvent(n)
<1>1. \A w \in Workers : At(w, "idle") => task[w] = Idle
  BY DEF IndInv, TasksAreSound, TaskFits
<1>2. ASSUME NEW d \in Downloads, NEW i \in Brought, NEW n \in Wanted, NEW o \in BOOLEAN,
             StartDownload(d, i, n, o)
      PROVE  BeginsDownload(d)
  <2> DEFINE t == [Idle EXCEPT !.step = "lock", !.want = n, !.id = i, !.overwrite = o]
  <2>1. t.step = "lock" /\ t.want = n /\ t.id = i /\ t.path = Nothing /\ t.other = Nothing
    BY DEF Idle
  <2>2. task' = [task EXCEPT ![d] = t] /\ At(d, "idle") /\ Kept /\ Aside /\ d \in Workers
    BY <1>2, TheConstants DEF StartDownload, Kept, Aside, store, Others
  <2> HIDE DEF t
  <2>3. task'[d] = t /\ Alone(d)
    BY <2>2 DEF Alone, IndInv, TypeOK
  <2>4. BeginsStaged(d)
    BY <1>1, <2>1, <2>2, <2>3, IdleHasNothing DEF BeginsStaged
  <2>5. QED
    BY <2>2, <2>3, <2>4 DEF BeginsDownload
<1>3. ASSUME NEW n \in Names, TakeEvent(n)
      PROVE  TakesEvent(n)
  <2> DEFINE t == [Idle EXCEPT !.step = "lock", !.path = n]
  <2>1. t.step = "lock" /\ t.want = Nothing /\ t.id = Nothing /\ t.path = n /\ t.other = Nothing
    BY DEF Idle
  <2>2. task' = [task EXCEPT ![Watcher] = t] /\ Watcher \in Workers
    BY <1>3, TheConstants DEF TakeEvent
  <2> HIDE DEF t
  <2>3. task'[Watcher] = t /\ Alone(Watcher)
    BY <2>2 DEF Alone, IndInv, TypeOK
  <2>4. BeginsInPlace(Watcher)
    BY <1>1, <1>3, <2>1, <2>2, <2>3, IdleHasNothing DEF BeginsInPlace, TakeEvent
  <2>5. QED
    BY <1>3, <2>1, <2>3, <2>4 DEF TakeEvent, TakesEvent, Kept, store
<1>4. QED
  BY <1>2, <1>3

\* The supervisor ends the tasks of the loop and its scan, or starts that scan anew.
LEMMA TheSupervisor ==
  ASSUME Calm, SeeFailure \/ SeeRescan \/ Recover \/ RestartWatcher
  PROVE  SeesFailure \/ Rescans
<1> USE DEF Kept, store
<1>1. IndInv /\ Watcher \in Workers /\ CatchUp \in Scans /\ CatchUp \in Workers /\ Watcher # CatchUp
  BY TheConstants DEF Calm
<1>2. watch \in WatchStates /\ task \in [Workers -> Tasks] /\ scan \in [Scans -> ScanStates]
  BY <1>1 DEF IndInv, TypeOK
<1>3. CASE SeeFailure
  BY <1>1, <1>2, <1>3 DEF SeeFailure, StopIngesting, SeesFailure, Alone
<1>4. StartScan(CatchUp) => scan'[CatchUp].phase = "walk" /\ OtherScans(CatchUp)
  <2>1. [NoScan EXCEPT !.phase = "walk"].phase = "walk"
    BY DEF NoScan
  <2>2. QED
    BY <1>1, <1>2, <2>1 DEF StartScan, OtherScans
<1>5. CASE SeeRescan \/ Recover
  <2>1. task[CatchUp] = Idle
    <3>1. watch.mode \notin {"rescanning", "catchingUp"}
      BY <1>5 DEF SeeRescan, Recover
    <3>2. scan[CatchUp] = NoScan
      BY <3>1 DEF Calm, Orderly
    <3>3. QED
      BY <1>1, <3>2, NoScanNoTask
  <2>2. watch'.mode # "down"
    BY <1>2, <1>5 DEF SeeRescan, Recover, WatchStates
  <2>3. QED
    BY <1>4, <1>5, <2>1, <2>2 DEF SeeRescan, Recover, Rescans
<1>6. CASE RestartWatcher
  <2>1. watch'.mode # "down"
    BY <1>6 DEF RestartWatcher
  <2>2. /\ task'[CatchUp] = Idle /\ task'[Watcher] = Idle
        /\ \A w \in Workers \ {Watcher, CatchUp} : task'[w] = task[w]
    BY <1>1, <1>2, <1>6 DEF RestartWatcher
  <2>3. QED
    BY <1>4, <1>6, <2>1, <2>2 DEF RestartWatcher, Rescans
<1>7. QED
  BY <1>3, <1>5, <1>6

\* A broken watch or dropped event is noted, a crash ends all, a startup begins the scan.
LEMMA TheOutages ==
  ASSUME IndInv
  PROVE  /\ BreakWatch \/ DropEvents => Alarms
         /\ Crash => Dies
         /\ Startup => StartsUp
<1> USE DEF Kept, store
<1>1. watch \in WatchStates /\ scan \in [Scans -> ScanStates] /\ Boot \in Scans
  BY TheConstants DEF IndInv, TypeOK
<1>2. BreakWatch \/ DropEvents => Alarms
  <2>1. /\ [watch EXCEPT !.broken = TRUE].mode = watch.mode /\ [watch EXCEPT !.broken = TRUE].broken
        /\ [watch EXCEPT !.rescan = TRUE].mode = watch.mode /\ [watch EXCEPT !.rescan = TRUE].rescan
    BY <1>1 DEF WatchStates
  <2>2. QED
    BY <2>1 DEF BreakWatch, DropEvents, Alarms
<1>3. Crash => Dies
  BY DEF Crash, Dies, NoScan
<1>4. Startup => StartsUp
  <2>1. [NoScan EXCEPT !.phase = "walk"].phase = "walk"
    BY DEF NoScan
  <2>2. [watch EXCEPT !.mode = "watching"].mode = "watching"
    BY <1>1 DEF WatchStates
  <2>3. StartScan(Boot) => scan'[Boot].phase = "walk" /\ OtherScans(Boot)
    BY <1>1, <2>1 DEF StartScan, OtherScans
  <2>4. Startup => Repairs
    BY TheRepairs
  <2>5. QED
    BY <2>2, <2>3, <2>4 DEF Startup, StartsUp
<1>5. QED
  BY <1>2, <1>3, <1>4

\* Every step, by what it does to scans, events and the supervisor.
LEMMA TheCourse ==
  ASSUME Calm, CleanStep
  PROVE  \/ \E w \in Workers : Acts(w)
         \/ \E n \in Changing : Changes(n)
         \/ \E s \in Scans : GoesOn(s)
         \/ \E d \in Downloads : BeginsDownload(d)
         \/ \E n \in Names : TakesEvent(n)
         \/ SeesFailure \/ Rescans \/ Alarms \/ Dies \/ StartsUp
         \/ Repairs /\ UNCHANGED <<scan, watch>>
         \/ Kept /\ Aside /\ task' = task
<1>1. IndInv /\ \A w \in Workers : ~FixFails(w) /\ ~Fail(w)
  BY CleanBefore DEF Calm
<1>2. [Next]_vars
  BY DEF CleanStep
<1>3. CASE UNCHANGED vars
  BY <1>3 DEF vars, Kept, Aside
<1>4. CASE \E w \in Workers : Ingest(w)
  BY <1>4, IngestActs
<1>5. CASE \E s \in Scans : ScanStep(s)
  BY <1>1, <1>5, TheScansGoOn
<1>6. CASE \/ \E d \in Downloads, i \in Brought, n \in Wanted, o \in BOOLEAN : StartDownload(d, i, n, o)
           \/ \E n \in Names : TakeEvent(n)
  BY <1>1, <1>6, TheBeginnings
<1>7. CASE Supervise \/ RestartWatcher
  BY <1>7, TheSupervisor DEF Supervise
<1>8. CASE BreakWatch \/ DropEvents \/ Crash \/ Startup
  BY <1>1, <1>8, TheOutages
<1>9. ASSUME NEW n \in UserNames, NEW c \in UserContents \union {Nothing}, UserChanges(n, c)
      PROVE  n \in Changing /\ Changes(n)
  BY <1>1, <1>9, TheUserChanges
<1>10. ASSUME NEW dropped \in SUBSET Contents, NEW unmapped \in SUBSET dropped, StartupDies(dropped, unmapped)
       PROVE  Repairs /\ UNCHANGED <<scan, watch>>
  BY <1>1, <1>10, TheRepairs DEF StartupDies
<1>11. QED
  BY <1>1, <1>2, <1>3, <1>4, <1>5, <1>6, <1>7, <1>8, <1>9, <1>10 DEF Next

-----------------------------------------------------------------------------
(* What scans know *)

\* What a scan and its task were before.
LEMMA ScanBefore ==
  ASSUME Calm, CleanStep, NEW s \in Scans
  PROVE  \/ scan'[s] = scan[s] /\ (task'[s] = task[s] \/ Acts(s))
         \/ GoesOn(s)
         \/ /\ scan'[s].phase \in {"done", "walk"} /\ task'[s] = Idle
            /\ scan'[s].phase = "walk" \/ watch'.mode = "down"
<1>1. s \in Workers /\ s # Watcher /\ s \in {Boot, CatchUp} /\ Boot # CatchUp /\ s \notin Downloads
  BY TheConstants DEF Scans
<1>2. CASE \E w \in Workers : Acts(w)
  <2>1. \A w \in Workers : Acts(w) => scan' = scan /\ Alone(w)
    BY ZenonT(60) DEF Acts, Looks, Aside, Rekeys, Drops, Unmaps, Catalogues, FixSaves, MapsPath, Remaps, Unlinks, Moves,
       Advances, Ends
  <2>2. QED
    BY <1>1, <1>2, <2>1 DEF Alone
<1>3. CASE (\E n \in Changing : Changes(n)) \/ Alarms \/ (Kept /\ Aside /\ task' = task)
           \/ (Repairs /\ UNCHANGED <<scan, watch>>)
  BY <1>3 DEF Changes, Alarms, Repairs, Aside
<1>4. ASSUME NEW t \in Scans, GoesOn(t), t # s
      PROVE  scan'[s] = scan[s] /\ task'[s] = task[s]
  BY <1>1, <1>4 DEF GoesOn, Walks, ReadsKeys, Prunes, Verifies, ForgetsTheDead, TakesFile, EndsScan, InScan,
     OtherScans, Alone
<1>5. ASSUME NEW d \in Downloads, BeginsDownload(d)
      PROVE  scan'[s] = scan[s] /\ task'[s] = task[s]
  BY <1>1, <1>5 DEF BeginsDownload, Aside, Alone
<1>6. CASE (\E n \in Names : TakesEvent(n)) \/ SeesFailure
  BY <1>1, <1>6 DEF TakesEvent, SeesFailure, Alone
<1>7. CASE Rescans \/ Dies
  BY <1>1, <1>7 DEF Rescans, Dies, OtherScans
<1>8. CASE StartsUp
  <2>1. task' = task /\ task[s] = Idle
    BY <1>1, <1>8 DEF StartsUp, Repairs, Calm, Orderly
  <2>2. QED
    BY <1>1, <1>8, <2>1 DEF StartsUp, OtherScans
<1>9. QED
  BY <1>2, <1>3, <1>4, <1>5, <1>6, <1>7, <1>8, TheCourse

\* No file goes away under a scan.
LEMMA NothingLostUnderScans ==
  ASSUME Calm, CleanStep, NEW s \in Scans, scan[s].phase # "done", NEW n \in Names
  PROVE  /\ OnDisk(n) => disk'[n] = disk[n]
         /\ filemap[n] # Nothing => disk'[n] = disk[n] \/ \E w \in Workers : Moves(w) /\ n = task[w].dest
<1>1. scan[s] # NoScan
  BY DEF NoScan
<1>2. QED
  BY <1>1, FileBefore DEF Unlinks, Changes, Loses, Moves, OnDisk

\* A worker that finds a file in place looks at it only.
LEMMA InPlaceLeavesFiles ==
  ASSUME NEW w \in Workers, Acts(w), InPlace(w)
  PROVE  disk' = disk
BY DEF Acts, Looks, Kept, Rekeys, Drops, Unmaps, Catalogues, FixSaves, MapsPath, Remaps, Unlinks, Moves, InPlace

\* ScansSee: what a scan has seen is still there when its task is at it.
LEMMA ScansSeeStays ==
  ASSUME Calm, CleanStep
  PROVE  ScansSee'
<1> SUFFICES ASSUME NEW s \in Scans
             PROVE  /\ scan'[s].phase \notin {"done", "walk"} => \A n \in scan'[s].seen : disk'[n] # Nothing
                    /\ task'[s] # Idle => /\ scan'[s].phase = "ingest"
                                          /\ disk'[task'[s].path] # Nothing
                                          /\ task'[s].id \in {Nothing, disk'[task'[s].path]}
  BY DEF ScansSee, OnDisk
<1>1. s \in Workers /\ scan[s].seen \subseteq Names
  BY TheConstants DEF Calm, IndInv, TypeOK, ScanStates
<1>2. /\ scan[s].phase \notin {"done", "walk"} => \A n \in scan[s].seen : disk[n] # Nothing
      /\ task[s] # Idle => /\ scan[s].phase = "ingest"
                           /\ disk[task[s].path] # Nothing
                           /\ task[s].id \in {Nothing, disk[task[s].path]}
  BY DEF Calm, CleanInv, ScansSee, OnDisk
<1>3. scan[s].phase # "done" => \A n \in Names : disk[n] # Nothing => disk'[n] = disk[n]
  BY NothingLostUnderScans DEF OnDisk
<1>4. task[s] # Idle => InPlace(s) /\ task[s].path \in Names
  BY <1>1, TheTask, TheConstants DEF Calm
<1>5. CASE scan'[s] = scan[s] /\ task'[s] = task[s]
  BY <1>1, <1>2, <1>3, <1>4, <1>5
<1>6. CASE scan'[s] = scan[s] /\ Acts(s)
  <2>1. task[s] # Idle
    BY <1>6 DEF Acts, Looks, Rekeys, Drops, Unmaps, Catalogues, FixSaves, MapsPath, Remaps, Unlinks, Moves,
       Advances, Ends
  <2>2. disk' = disk
    BY <1>1, <1>4, <1>6, <2>1, InPlaceLeavesFiles
  <2>3. ASSUME task'[s] # Idle
        PROVE  task'[s].path = task[s].path /\ task'[s].id \in {task[s].id, disk[task[s].path]}
    BY <1>4, <1>6, <2>1, <2>3
       DEF Acts, Looks, Rekeys, Drops, Unmaps, Catalogues, FixSaves, MapsPath, Remaps, Unlinks, Moves,
           Advances, Ends, Keeps, InPlace, At
  <2>4. QED
    BY <1>1, <1>2, <1>6, <2>1, <2>2, <2>3
<1>7. CASE GoesOn(s)
  <2>1. CASE Walks(s)
    BY <1>2, <2>1 DEF Walks, InScan, OnDisk
  <2>2. CASE ReadsKeys(s) \/ Prunes(s) \/ Verifies(s) \/ ForgetsTheDead(s) \/ EndsScan(s)
    BY <1>2, <2>2 DEF ReadsKeys, Prunes, Verifies, ForgetsTheDead, EndsScan, InScan
  <2>3. ASSUME NEW n \in Names, TakesFile(s, n)
        PROVE  /\ scan'[s].phase = "ingest" /\ task'[s].id = Nothing /\ disk'[task'[s].path] # Nothing
               /\ \A m \in scan'[s].seen : disk'[m] # Nothing
    BY <1>2, <2>3 DEF TakesFile, InScan, BeginsInPlace
  <2>4. QED
    BY <1>7, <2>1, <2>2, <2>3 DEF GoesOn
<1>8. CASE scan'[s].phase \in {"done", "walk"} /\ task'[s] = Idle
  BY <1>8
<1>9. QED
  BY <1>5, <1>6, <1>7, <1>8, ScanBefore

-----------------------------------------------------------------------------
(* What is mapped is shown *)

\* A name is shown when its mapping is written, or a file is moved to it.
LEMMA MappedIsShown ==
  ASSUME Calm, CleanStep, NEW n \in Names, filemap'[n] # Nothing, filemap'[n] # filemap[n]
  PROVE  Shown(n)' /\ disk'[n] = disk[n]
<1>1. ASSUME NEW w \in Workers, MapsPath(w), n = task[w].path
      PROVE  Shown(n) /\ record' = record /\ disk' = disk
  BY <1>1 DEF MapsPath, Ends, Calm, CleanInv, DoneAreShown
<1>2. ASSUME NEW w \in Workers, Remaps(w), n = task[w].dest
      PROVE  Shown(n) /\ record' = record /\ disk' = disk
  BY <1>2 DEF Remaps, Ends, At, Calm, CleanInv, DoneAreShown
<1>3. Shown(n) /\ record' = record /\ disk' = disk
  BY <1>1, <1>2, MappingBefore DEF Unmaps
<1>4. QED
  BY <1>3 DEF Shown, OnDisk, Exists

\* A file that a download moves has its archive's bytes, so it is shown at once.
LEMMA MovedIsShown ==
  ASSUME Calm, CleanStep, NEW n \in Names, NEW w \in Workers, Moves(w), n = task[w].dest
  PROVE  Shown(n)'
<1>1. Placing(w) /\ task[w].id \in Contents /\ task[w].id # Nothing
  BY TheDest DEF Moves, Advances, Placing
<1>2. Exists(task[w].id)
  BY <1>1 DEF Calm, CleanInv, UnfiledInHand
<1>3. disk'[n] = task[w].id /\ record' = record
  BY DEF Moves
<1>4. QED
  BY <1>1, <1>2, <1>3 DEF Shown, OnDisk, Exists

\* A file that is not in the filemap, or shown, stays so.
LEMMA UnmappedOrShownStays ==
  ASSUME Calm, CleanStep, watch.mode # "down", NEW n \in Names, filemap[n] = Nothing \/ Shown(n),
         disk'[n] # Nothing
  PROVE  filemap'[n] = Nothing \/ Shown(n)'
BY MappedIsShown, ShownStays DEF OnDisk

\* What a scan sees, or has come too late for, is shown if it is in the filemap.
LEMMA LateAreShownStay ==
  ASSUME Calm, CleanStep
  PROVE  LateAreShown'
<1> DEFINE Late == {"keys", "prune", "verify", "forget"}
<1> SUFFICES ASSUME NEW s \in Scans, NEW n \in Names, scan'[s].phase \in Late, OnDisk(n)', n \notin scan'[s].seen
             PROVE  filemap'[n] = Nothing \/ Shown(n)'
  BY DEF LateAreShown
<1>1. disk'[n] # Nothing
  BY DEF OnDisk
<1>2. ASSUME Walks(s)
      PROVE  FALSE
  BY <1>1, <1>2 DEF Walks, InScan, OnDisk
<1>3. scan[s].phase \in Late /\ n \notin scan[s].seen
  BY <1>2, ScanBefore DEF GoesOn, ReadsKeys, Prunes, Verifies, ForgetsTheDead, TakesFile, EndsScan, InScan
<1>4. watch.mode # "down"
  BY <1>3 DEF Calm, Orderly, NoScan
<1>5. CASE OnDisk(n)
  BY <1>1, <1>3, <1>4, <1>5, UnmappedOrShownStays DEF Calm, CleanInv, LateAreShown
<1>6. CASE ~OnDisk(n) /\ filemap[n] = Nothing
  BY <1>1, <1>4, <1>6, UnmappedOrShownStays
<1>7. CASE ~OnDisk(n) /\ filemap[n] # Nothing
  <2>1. \E w \in Workers : Moves(w) /\ n = task[w].dest
    BY <1>1, <1>3, <1>7, NothingLostUnderScans DEF OnDisk
  <2>2. QED
    BY <2>1, MovedIsShown
<1>8. QED
  BY <1>5, <1>6, <1>7

\* What a scan will hand over was seen, unless its mapping is gone.
LEMMA ScanDueBefore ==
  ASSUME Calm, CleanStep, NEW n \in Names, ScanDue(n)'
  PROVE  /\ OnDisk(n)'
         /\ (ScanDue(n) /\ watch.mode # "down") \/ filemap'[n] = Nothing
<1>1. PICK s \in Scans :
        \/ scan'[s].phase \in {"prune", "verify", "forget"} /\ n \in scan'[s].seen \ scan'[s].known
        \/ scan'[s].phase = "ingest" /\ n \in scan'[s].seen
        \/ InPlace(s)' /\ task'[s].path = n /\ task'[s].step \in Looking
  BY DEF ScanDue, InPlace, Staged
<1>2. s \in Workers
  BY TheConstants
<1>3. OnDisk(n)'
  BY <1>1, ScansSeeStays DEF ScansSee, InPlace
<1>4. ASSUME scan'[s] = scan[s], task'[s] = task[s]
      PROVE  ScanDue(n)
  BY <1>1, <1>4 DEF ScanDue, InPlace, Staged
<1>5. ASSUME scan'[s] = scan[s], Acts(s)
      PROVE  ScanDue(n)
  <2>1. InPlace(s)' => InPlace(s) /\ task'[s].path = task[s].path /\ (task'[s].step \in Looking => task[s].step \in Looking)
    BY <1>5, IdleHasNothing
       DEF Acts, Looks, Rekeys, Drops, Unmaps, Catalogues, FixSaves, MapsPath, Remaps, Unlinks, Moves,
           Advances, Ends, Keeps, InPlace, Staged, At, Looking
  <2>2. QED
    BY <1>1, <1>5, <2>1 DEF ScanDue
<1>6. ASSUME GoesOn(s)
      PROVE  ScanDue(n) \/ filemap'[n] = Nothing
  <2>1. CASE Walks(s) \/ EndsScan(s)
    BY <1>1, <2>1 DEF Walks, EndsScan, InScan, ScanDue, InPlace, Staged
  <2>2. CASE ReadsKeys(s)
    BY <1>1, <2>2 DEF ReadsKeys, InScan, ScanDue, InPlace, Staged
  <2>3. CASE Prunes(s) \/ Verifies(s)
    BY <1>1, <2>3 DEF Prunes, Verifies, InScan, ScanDue, InPlace, Staged
  <2>4. CASE ForgetsTheDead(s)
    BY <1>1, <2>4 DEF ForgetsTheDead, InScan, ScanDue, InPlace, Staged
  <2>5. ASSUME NEW m \in Names, TakesFile(s, m)
        PROVE  ScanDue(n)
    BY <1>1, <2>5 DEF TakesFile, InScan, ScanDue
  <2>6. QED
    BY <1>6, <2>1, <2>2, <2>3, <2>4, <2>5 DEF GoesOn
<1>7. scan'[s].phase \in {"done", "walk"} /\ task'[s] = Idle => FALSE
  BY <1>1 DEF InPlace
<1>8. ScanDue(n) => watch.mode # "down"
  BY TheConstants DEF ScanDue, InPlace, Calm, Orderly, NoScan
<1>9. QED
  BY <1>3, <1>4, <1>5, <1>6, <1>7, <1>8, ScanBefore

\* Files a scan will look up are not in the filemap, or are shown, until it does.
LEMMA ScanDueAreShownStay ==
  ASSUME Calm, CleanStep
  PROVE  ScanDueAreShown'
<1>1. ASSUME NEW n \in Names, ScanDue(n)', ScanDue(n), watch.mode # "down"
      PROVE  filemap'[n] = Nothing \/ Shown(n)'
  BY <1>1, ScanDueBefore, UnmappedOrShownStays DEF OnDisk, Calm, CleanInv, ScanDueAreShown
<1>2. QED
  BY <1>1, ScanDueBefore DEF ScanDueAreShown

\* What the watcher's loop will look up was reported, or is moved or changed now.
LEMMA DueBefore ==
  ASSUME Calm, CleanStep, NEW n \in Names, Due(n)'
  PROVE  \/ Due(n) /\ watch.mode # "down"
         \/ \E w \in Workers : Moves(w) /\ n = task[w].dest
         \/ n \in Changing /\ Changes(n) /\ disk'[n] # Nothing
<1>0. Watcher \in Workers /\ Watcher \notin Downloads
  BY TheConstants
<1>1. ASSUME n \in events', n \notin events
      PROVE  \/ \E w \in Workers : Moves(w) /\ n = task[w].dest
             \/ n \in Changing /\ Changes(n) /\ disk'[n] # Nothing
  <2>1. CASE \E w \in Workers : Acts(w)
    <3>1. PICK w \in Workers : Acts(w)
      BY <2>1
    <3>2. ~Moves(w) => events' = events
      BY <3>1 DEF Acts, Looks, Aside, Rekeys, Drops, Unmaps, Catalogues, FixSaves, MapsPath, Remaps, Unlinks
    <3>3. Moves(w) => events' = events \/ events' = events \union {task[w].dest}
      BY DEF Moves
    <3>4. QED
      BY <1>1, <3>2, <3>3
  <2>2. CASE \E m \in Changing : Changes(m)
    BY ZenonT(60), <1>1, <2>2 DEF Changes
  <2>3. CASE (\E s \in Scans : GoesOn(s)) \/ (\E m \in Names : TakesEvent(m))
    BY <1>1, <2>3 DEF GoesOn, Walks, ReadsKeys, Prunes, Verifies, ForgetsTheDead, TakesFile, EndsScan, InScan,
       TakesEvent
  <2>4. QED
    BY <1>1, <2>1, <2>2, <2>3, TheCourse
       DEF BeginsDownload, Aside, SeesFailure, Rescans, Alarms, Dies, StartsUp, Repairs
<1>2. ASSUME InPlace(Watcher)', task'[Watcher].path = n, task'[Watcher].step \in Looking
      PROVE  Due(n)
  <2>1. CASE task'[Watcher] = task[Watcher]
    BY <1>2, <2>1 DEF Due, InPlace, Staged
  <2>2. CASE Acts(Watcher)
    BY <1>2, <2>2, IdleHasNothing
       DEF Acts, Looks, Rekeys, Drops, Unmaps, Catalogues, FixSaves, MapsPath, Remaps, Unlinks, Moves,
           Advances, Ends, Keeps, InPlace, Staged, At, Looking, Due
  <2>3. CASE \E w \in Workers \ {Watcher} : Acts(w)
    <3>1. \A w \in Workers : Acts(w) => Alone(w)
      BY ZenonT(60) DEF Acts, Looks, Rekeys, Drops, Unmaps, Catalogues, FixSaves, MapsPath, Remaps, Unlinks, Moves,
         Advances, Ends
    <3>2. QED
      BY <1>0, <2>1, <2>3, <3>1 DEF Alone
  <2>4. CASE \E m \in Names : TakesEvent(m)
    BY <1>2, <2>4 DEF TakesEvent, Due
  <2>5. CASE \E s \in Scans : GoesOn(s)
    <3>1. task'[Watcher] = task[Watcher]
      BY <1>0, <2>5, TheConstants
         DEF GoesOn, Walks, ReadsKeys, Prunes, Verifies, ForgetsTheDead, TakesFile, EndsScan, InScan, Alone
    <3>2. QED
      BY <2>1, <3>1
  <2>6. CASE \E d \in Downloads : BeginsDownload(d)
    BY <1>0, <2>1, <2>6 DEF BeginsDownload, Alone
  <2>7. CASE SeesFailure \/ Rescans \/ Dies
    BY <1>0, <1>2, <2>1, <2>7 DEF SeesFailure, Rescans, Dies, InPlace
  <2>8. CASE (\E m \in Changing : Changes(m)) \/ Alarms \/ StartsUp \/ Repairs \/ task' = task
    BY <2>1, <2>8 DEF Changes, Alarms, StartsUp, Repairs
  <2>9. QED
    BY <2>2, <2>3, <2>4, <2>5, <2>6, <2>7, <2>8, TheCourse
<1>3. Due(n) => watch.mode # "down"
  BY <1>0 DEF Due, InPlace, Calm, Orderly
<1>4. QED
  BY <1>1, <1>2, <1>3 DEF Due, InPlace, Staged

\* DueAreShown: bytes that come to a name are not in the filemap yet, or a download's.
LEMMA DueAreShownStay ==
  ASSUME Calm, CleanStep
  PROVE  DueAreShown'
<1> SUFFICES ASSUME NEW n \in Names, Due(n)', disk'[n] # Nothing, filemap'[n] = disk'[n]
             PROVE  Shown(n)'
  BY DEF DueAreShown, OnDisk
<1>1. CASE filemap'[n] # filemap[n]
  BY <1>1, MappedIsShown
<1>2. CASE \E w \in Workers : Moves(w) /\ n = task[w].dest
  BY <1>2, MovedIsShown
<1>3. ASSUME filemap'[n] = filemap[n], Changes(n)
      PROVE  FALSE
  BY <1>3 DEF Changes, Fresh
<1>4. ASSUME filemap'[n] = filemap[n], disk'[n] = disk[n], Due(n), watch.mode # "down"
      PROVE  Shown(n)'
  <2>1. Shown(n)
    BY <1>4 DEF Calm, CleanInv, DueAreShown, OnDisk
  <2>2. QED
    BY <1>4, <2>1, ShownStays DEF OnDisk
<1>5. \A w \in Workers : ~(Unlinks(w) /\ n = task[w].want)
  BY DEF Unlinks
<1>6. QED
  BY <1>1, <1>2, <1>3, <1>4, <1>5, DueBefore, FileBefore

\* DueAreMapped: an event comes while a download holds the name, and will unmap it
\* or map it again.
LEMMA DueAreMappedStay ==
  ASSUME Calm, CleanStep, Orderly'
  PROVE  DueAreMapped'
<1> DEFINE Holds(w, n) ==
      /\ Staged(w) /\ task[w].want = n
      /\ \/ task[w].step \in {"drop", "unmap"}
         \/ task[w].step \in {"fix", "fixsave", "remap"} /\ task[w].dest = n
<1> SUFFICES ASSUME NEW n \in Names \ Changing, NEW f, f = filemap'[n], f \notin {Nothing, disk'[n]}
             PROVE  (Due(n)' => \E w \in Workers : Holds(w, n)') /\ ~ScanDue(n)'
  BY DEF DueAreMapped
<1>1. filemap[n] = f
  BY OutdatedBefore
<1>2. CASE disk[n] = f
  <2>1. PICK w \in Workers : Unlinks(w) /\ n = task[w].want /\ disk'[n] = Nothing
    BY <1>2, OutdatedBefore
  <2>2. ~ScanDue(n)'
    BY <2>1, ScanDueBefore DEF OnDisk
  <2>3. Holds(w, n)'
    BY <2>1, TheNextTask DEF Unlinks, Advances, Keeps, StagedSteps
  <2>4. QED
    BY <2>2, <2>3
<1>3. CASE disk[n] # f
  <2>1. (Due(n) => \E w \in Workers : Holds(w, n)) /\ ~ScanDue(n)
    BY <1>1, <1>3 DEF Calm, CleanInv, DueAreMapped
  <2>2. ~ScanDue(n)'
    BY <2>1, ScanDueBefore
  <2>3. ASSUME Due(n)', Due(n)
        PROVE  \E w \in Workers : Holds(w, n)'
    <3>1. PICK w \in Workers : Holds(w, n)
      BY <2>1, <2>3
    <3>2. watch'.mode # "down"
      BY <2>3, TheConstants DEF Orderly, Due, InPlace
    <3>3. CASE task'[w] = task[w]
      BY <3>1, <3>3 DEF Staged
    <3>4. CASE task'[w] # task[w]
      <4>1. Acts(w) /\ ~Unmaps(w) /\ ~Remaps(w)
        <5>1. ~Unmaps(w)
          BY <3>1 DEF Unmaps
        <5>2. ~Remaps(w)
          BY <1>1, <3>1 DEF Remaps, Ends
        <5>3. QED
          BY <3>1, <3>2, <3>4, <5>1, <5>2, DownloadsGoOn
      <4>2. CASE Drops(w)
        BY <3>1, <4>2, TheNextTask DEF Drops, Advances, Keeps, StagedSteps
      <4>3. CASE FixSaves(w)
        BY <3>1, <4>3, TheNextTask DEF FixSaves, Advances, Keeps, StagedSteps
      <4>4. CASE Looks(w)
        <5>1. /\ task'[w].step \in {"fixsave", "remap"} /\ task'[w].want = task[w].want
              /\ task'[w].dest = task[w].dest /\ task[w].dest = n
          BY <3>1, <4>4 DEF Looks, Advances, Ends, Keeps, InPlace, At
        <5>2. QED
          BY <3>1, <5>1, TheNextTask DEF StagedSteps
      <4>5. QED
        BY <3>1, <4>1, <4>2, <4>3, <4>4 DEF Acts, Rekeys, Catalogues, MapsPath, Unlinks, Moves, Advances, Ends, InPlace
    <3>5. QED
      BY <3>3, <3>4
  <2>4. ASSUME NEW w \in Workers, Moves(w), n = task[w].dest
        PROVE  Holds(w, n)'
    <3>1. task'[w].step = "fix" /\ task'[w].dest = n /\ task'[w].want = task[w].want /\ Staged(w)'
      BY <2>4, TheNextTask DEF Moves, Advances, Keeps, StagedSteps
    <3>2. task[w].want = n
      <4>1. n \in Wanted
        BY <1>1, <1>3 DEF Calm, CleanInv, MappingsAreTrue
      <4>2. task[w].want \in Wanted /\ n \in Tried(task[w].want) /\ n \in Tried(n)
        BY <2>4, <4>1, TheDest, TheNames DEF Moves, Advances
      <4>3. QED
        BY <4>1, <4>2, TriedOnce DEF Calm
    <3>3. QED
      BY <3>1, <3>2
  <2>5. QED
    BY <2>2, <2>3, <2>4, DueBefore
<1>4. QED
  BY <1>2, <1>3

\* UsersAreRekeyed: what a file had before is in the filemap only for the user's.
LEMMA UsersAreRekeyedStay ==
  ASSUME Calm, CleanStep
  PROVE  UsersAreRekeyed'
<1> SUFFICES ASSUME NEW w \in Workers, InPlace(w)', task'[w].step \in {"rekey", "rekeyed"}
             PROVE  task'[w].path \in Changing /\ task'[w].id # task'[w].other
  BY DEF UsersAreRekeyed
<1>1. CASE task'[w] = task[w] /\ InPlace(w)
  BY <1>1 DEF Calm, CleanInv, UsersAreRekeyed
<1>2. CASE BeginsInPlace(w)
  BY <1>2 DEF BeginsInPlace
<1>3. ASSUME Looks(w), InPlace(w)
      PROVE  task'[w].path \in Changing /\ task'[w].id # task'[w].other
  <2> DEFINE n == task[w].path
  <2>1. /\ At(w, "lookup") /\ filemap[n] \notin {Nothing, task[w].id}
        /\ task'[w].other = filemap[n] /\ Keeps(w)
    BY <1>3 DEF Looks, Advances, Ends, InPlace, At
  <2>2. task[w].id \in Contents /\ n \in Names /\ w \in Scans \union {Watcher} /\ task[w] # Idle
    BY <1>3, <2>1, TheTask DEF Calm, InPlace, At
  <2>3. SUFFICES ASSUME n \notin Changing
                 PROVE  FALSE
    BY <2>1 DEF Keeps
  <2>4. disk[n] = task[w].id
    BY <1>3, <2>2, <2>3, HashedIsThere
  <2>5. w \notin Scans
    BY <1>3, <2>1, <2>2, <2>3, <2>4 DEF Calm, CleanInv, DueAreMapped, ScanDue, Looking, At
  <2>6. PICK v \in Workers : Staged(v) /\ task[v].want = n /\ task[v].step # "lock"
    BY <1>3, <2>1, <2>2, <2>3, <2>4, <2>5 DEF Calm, CleanInv, DueAreMapped, Due, Looking, At
  <2>7. v # w /\ task[v] # Idle
    BY <1>3, <2>6, IdleHasNothing DEF InPlace, Staged
  <2>8. QED
    BY <1>3, <2>1, <2>2, <2>5, <2>6, <2>7, OneAtAName DEF Calm, Reserved, InPlace, At
<1>4. CASE Rekeys(w)
  BY <1>4 DEF Rekeys, Advances, Keeps
<1>5. ASSUME Acts(w), InPlace(w), ~Looks(w), ~Rekeys(w)
      PROVE  FALSE
  BY <1>5, IdleHasNothing DEF Acts, Drops, Unmaps, Catalogues, FixSaves, MapsPath, Remaps, Unlinks, Moves,
     Advances, Ends, InPlace
<1>6. QED
  BY <1>1, <1>2, <1>3, <1>4, <1>5, InPlaceBefore

\* DoneAreShown: who has found or written an archive leaves its name shown.
LEMMA DoneAreShownStay ==
  ASSUME Calm, CleanStep
  PROVE  DoneAreShown'
<1> USE DEF Shown, OnDisk, Exists
<1>1. ASSUME NEW w \in Workers, InPlace(w)', task'[w].step \in {"restore", "thumb", "map", "rekeyed"},
             NEW n, n = task'[w].path
      PROVE  Shown(n)'
  <2>1. InPlace(w) /\ task[w].path = n /\ n \in Names /\ task[w] # Idle /\ watch.mode # "down"
    <3>1. InPlace(w) /\ task[w].path = n
      BY <1>1, InPlaceBefore DEF BeginsInPlace
    <3>2. QED
      BY <3>1, TheTask DEF Calm, InPlace, Orderly
  <2>2. CASE task'[w] = task[w]
    <3>1. Shown(n) /\ task[w].id \in Contents /\ task[w].id # Nothing
      BY <1>1, <2>1, <2>2, TheTask, TheConstants DEF Calm, CleanInv, DoneAreShown
    <3>2. n \in Changing \/ disk'[n] = task[w].id
      <4>1. task'[w].path = n /\ task'[w].id = task[w].id /\ task'[w] # Idle
        BY <1>1, <2>1, <2>2
      <4>2. w \in Scans \union {Watcher}
        BY <2>1, TheTask DEF Calm, InPlace
      <4>3. w \in Scans => task'[w].id \in {Nothing, disk'[task'[w].path]}
        BY <4>1, ScansSeeStays DEF ScansSee
      <4>4. w = Watcher /\ n \notin Changing => task'[w].id \in {Nothing, disk'[task'[w].path]}
        BY <1>1, <4>1, WatcherSeesStays DEF WatcherSees
      <4>5. QED
        BY <3>1, <4>1, <4>2, <4>3, <4>4
    <3>3. Shown(n)'
      BY <2>1, <3>1, <3>2, ShownStays
    <3>4. QED
      BY <2>1, <3>3
  <2>3. CASE Looks(w) /\ Advances(w, "known", "restore")
    <3>1. task[w].id \in Contents /\ Exists(task[w].id) /\ record' = record /\ disk' = disk
      BY <2>1, <2>3, TheTask DEF Looks, Kept, Advances, Ends, At, Calm
    <3>2. n \in Changing => record[task[w].id].file = n
      BY <2>1, <3>1 DEF Has, Calm, CleanInv, UsersAlone
    <3>3. n \in Changing \/ disk[n] = task[w].id
      BY <2>1, <3>1, HashedIsThere
    <3>4. Shown(n)
      BY <3>1, <3>2, <3>3, TheConstants
    <3>5. QED
      BY <2>1, <3>1, <3>4
  <2>4. CASE Looks(w) /\ Advances(w, "thumb", "map")
    <3>1. Shown(n) /\ record' = record /\ disk' = disk
      BY <2>1, <2>4 DEF Looks, Kept, Advances, Calm, CleanInv, DoneAreShown
    <3>2. QED
      BY <2>1, <3>1
  <2>5. CASE Catalogues(w) \/ Rekeys(w)
    <3>1. task[w].id \in Contents
      BY <2>1, <2>5, TheTask DEF Catalogues, Rekeys, Advances, Calm, At
    <3>2. record'[task[w].id] # Nothing /\ record'[task[w].id].file = n
      BY <2>1, <2>5 DEF Catalogues, Rekeys
    <3>3. QED
      BY <2>1, <3>1, <3>2
  <2>6. ASSUME Acts(w)
        PROVE  \/ Looks(w) /\ (Advances(w, "known", "restore") \/ Advances(w, "thumb", "map"))
               \/ Catalogues(w) \/ Rekeys(w)
    BY <1>1, <2>1, <2>6, IdleHasNothing
       DEF Acts, Looks, Drops, Unmaps, FixSaves, MapsPath, Remaps, Unlinks, Moves, Advances, Ends, InPlace, At
  <2>7. QED
    BY <1>1, <2>1, <2>2, <2>3, <2>4, <2>5, <2>6, InPlaceBefore DEF BeginsInPlace
<1>2. ASSUME NEW w \in Workers, task'[w].step = "remap", NEW n, n = task'[w].dest
      PROVE  Shown(n)'
  <2>1. Staged(w)' /\ task'[w] # Idle
    BY <1>2, TheNextTask DEF StagedSteps
  <2>2. disk'[n] = task'[w].id /\ n \in Tried(task'[w].want)
    BY <1>2, <2>1, DownloadsSeeStays DEF DownloadsSee
  <2>3. CASE task'[w] = task[w]
    <3>1. task[w].dest = n /\ Shown(n) /\ Staged(w) /\ task[w] # Idle /\ watch.mode # "down"
      BY <1>2, <2>1, <2>3 DEF Calm, CleanInv, DoneAreShown, At, Staged, Orderly
    <3>2. n \in Names /\ task[w].id # Nothing
      BY <2>2, <2>3, <3>1, TheDest
    <3>3. QED
      BY <2>2, <2>3, <3>1, <3>2, ShownStays
  <2>4. CASE FixSaves(w)
    <3>1. task[w].id \in Contents /\ n = task[w].dest
      BY <1>2, <2>4, TheDest DEF FixSaves, Advances
    <3>2. record'[task[w].id] # Nothing /\ record'[task[w].id].file = task[w].dest
      BY <2>4 DEF FixSaves
    <3>3. QED
      BY <3>1, <3>2
  <2>5. ASSUME Acts(w), ~FixSaves(w)
        PROVE  FALSE
    <3>1. Placing(w) /\ ~Exists(task[w].id)
      BY <1>2, <2>5, IdleHasNothing
         DEF Acts, Looks, Rekeys, Drops, Unmaps, Catalogues, MapsPath, Remaps, Unlinks, Moves, Advances, Ends,
             InPlace, Placing, At
    <3>2. QED
      BY <3>1 DEF Calm, CleanInv, UnfiledInHand
  <2>6. QED
    BY <1>2, <2>1, <2>3, <2>4, <2>5, StagedBefore DEF BeginsStaged, Staged
<1>3. QED
  BY <1>1, <1>2 DEF DoneAreShown, At, InPlace, Staged

-----------------------------------------------------------------------------
(* Every file is in somebody's hands *)

\* A worker that has a file gives it an archive, or finds one.
LEMMA TendsOn ==
  ASSUME Calm, CleanStep, NEW w \in Workers, NEW n \in Names, disk[n] # Nothing, Tends(w, n), Acts(w)
  PROVE  Tends(w, n)' \/ Shown(n) \/ Shown(n)'
<1>1. InPlace(w) /\ task[w].path = n /\ task[w] # Idle /\ w \in Scans \union {Watcher}
  BY TheTask DEF Tends, InPlace, Calm
<1>2. disk' = disk
  BY <1>1, InPlaceLeavesFiles
<1>3. task[w].step \notin {"lock", "hash"} => task[w].id = disk[n] /\ task[w].id \in Contents
  BY <1>1, TheTask DEF Tends, Calm
<1>4. ASSUME filemap[n] = task[w].id, At(w, "lookup")
      PROVE  Shown(n)
  <2>1. w = Watcher => Due(n)
    BY <1>1, <1>4 DEF Due, Looking, At
  <2>2. w \in Scans => ScanDue(n)
    BY <1>1, <1>4 DEF ScanDue, Looking, At
  <2>3. filemap[n] = disk[n]
    BY <1>3, <1>4 DEF At
  <2>4. QED
    BY <1>1, <2>1, <2>2, <2>3 DEF Calm, CleanInv, DueAreShown, ScanDueAreShown, OnDisk
<1>5. ASSUME Exists(task[w].id), At(w, "known")
      PROVE  Shown(n)
  BY <1>3, <1>5 DEF Shown, OnDisk, At
<1>6. ASSUME Looks(w)
      PROVE  Tends(w, n)' \/ Shown(n)
  <2>1. Ends(w, "lookup") \/ Advances(w, "known", "restore") => Shown(n)
    BY <1>1, <1>3, <1>4, <1>5, <1>6 DEF Looks, Ends, Advances, InPlace, At
  <2>2. ~(Ends(w, "lookup") \/ Advances(w, "known", "restore")) => Tends(w, n)'
    BY <1>1, <1>2, <1>3, <1>6 DEF Looks, Ends, Advances, Keeps, Tends, InPlace, Staged, OnDisk, At
  <2>3. QED
    BY <2>1, <2>2
<1>7. ASSUME Rekeys(w) \/ Catalogues(w)
      PROVE  Shown(n)'
  <2>1. record'[task[w].id] # Nothing /\ record'[task[w].id].file = n /\ task[w].id \in Contents
    BY <1>1, <1>3, <1>7 DEF Rekeys, Catalogues, Advances, Exists
  <2>2. QED
    BY <2>1 DEF Shown, Exists
<1>8. QED
  BY <1>1, <1>6, <1>7
     DEF Acts, Drops, Unmaps, FixSaves, MapsPath, Remaps, Unlinks, Moves, Ends, Tends, InPlace, At

\* A scan's mapping of a file that is there does not get lost, but for one that the
\* other scan forgets, and hands on.
LEMMA MappingKept ==
  ASSUME Calm, CleanStep, watch.mode # "down", NEW n \in Names, disk[n] # Nothing, filemap[n] # Nothing
  PROVE  \/ filemap'[n] # Nothing \/ Shown(n)
         \/ \E t \in Scans : ForgetsTheDead(t) /\ n \in scan'[t].seen
<1>1. ASSUME NEW t \in Scans, Prune(t) \/ ForgetDead(t)
      PROVE  Prunes(t) \/ ForgetsTheDead(t)
  <2>1. GoesOn(t)
    BY <1>1, TheScansGoOn DEF ScanStep, Calm
  <2>2. scan[t].phase \in {"prune", "forget"}
    BY <1>1 DEF Prune, ForgetDead
  <2>3. QED
    BY <1>1, <2>1, <2>2 DEF GoesOn, Walks, ReadsKeys, Verifies, TakesFile, EndsScan, InScan
<1>2. ASSUME NEW t \in Scans, Prunes(t) \/ ForgetsTheDead(t), filemap'[n] = Nothing
      PROVE  Shown(n) \/ (ForgetsTheDead(t) /\ n \in scan'[t].seen)
  <2>1. n \notin scan[t].seen => Shown(n)
    BY <1>2 DEF Prunes, ForgetsTheDead, InScan, Calm, CleanInv, LateAreShown, OnDisk
  <2>2. n \in scan[t].seen => ForgetsTheDead(t) /\ n \in scan'[t].seen
    BY <1>2 DEF Prunes, ForgetsTheDead
  <2>3. QED
    BY <2>1, <2>2
<1>3. \A w \in Workers : Unmaps(w) => task[w].want # n
  BY DEF Unmaps, OnDisk
<1>4. \A w \in Workers : Remaps(w) => disk[task[w].dest] = filemap'[task[w].dest]
  BY DEF Remaps
<1>5. \A w \in Workers : MapsPath(w) => filemap'[task[w].path] # Nothing
  BY TheConstants DEF MapsPath
<1>6. QED
  BY <1>1, <1>2, <1>3, <1>4, <1>5, MappingBefore DEF Repairs

\* What a scan has in hand it hands over, unless it is shown, or the process dies.
LEMMA HandsOn ==
  ASSUME Calm, CleanStep, NEW s \in Scans, NEW n \in Names, disk[n] # Nothing, Hands(s, n)
  PROVE  \/ \E t \in Scans : Hands(t, n)'
         \/ \E w \in Workers : Tends(w, n)'
         \/ Shown(n) \/ watch'.mode = "down"
<1>1. scan[s].phase # "done" /\ watch.mode # "down"
  BY DEF Hands, Calm, Orderly, NoScan
<1>2. filemap[n] # Nothing =>
        \/ filemap'[n] # Nothing \/ Shown(n)
        \/ \E t \in Scans : Hands(t, n)'
  BY <1>1, MappingKept DEF ForgetsTheDead, Hands
<1>3. CASE scan'[s] = scan[s]
  BY <1>2, <1>3 DEF Hands
<1>4. CASE Walks(s) \/ ReadsKeys(s)
  BY <1>4 DEF Walks, ReadsKeys, InScan, Hands, OnDisk
<1>5. CASE Prunes(s)
  BY <1>2, <1>5 DEF Prunes, InScan, Hands
<1>6. CASE Verifies(s)
  <2>1. n \in scan[s].seen /\ (n \notin scan[s].known \/ filemap[n] # Nothing)
    BY <1>6 DEF Verifies, InScan, Hands
  <2>2. CASE n \notin scan[s].known \/ ~Exists(filemap[n])
    BY <1>6, <2>1, <2>2 DEF Verifies, Hands
  <2>3. CASE filemap[n] # Nothing /\ Exists(filemap[n])
    <3>1. filemap[n] \in Contents
      BY <2>3, TheFile DEF Calm
    <3>2. filemap[n] = disk[n] \/ record[filemap[n]].file = n
      BY <2>3 DEF Calm, CleanInv, MappingsAreTrue
    <3>3. QED
      BY <2>3, <3>1, <3>2 DEF Shown, OnDisk
  <2>4. QED
    BY <2>1, <2>2, <2>3
<1>7. CASE ForgetsTheDead(s)
  BY <1>7 DEF ForgetsTheDead, InScan, Hands
<1>8. ASSUME NEW m \in Names, TakesFile(s, m)
      PROVE  Hands(s, n)' \/ Tends(s, n)'
  <2>1. n \in scan[s].seen
    BY <1>8 DEF TakesFile, InScan, Hands
  <2>2. CASE m # n
    BY <1>8, <2>1, <2>2 DEF TakesFile, Hands
  <2>3. CASE m = n
    BY <1>8, <2>3 DEF TakesFile, BeginsInPlace, Tends, InPlace, Staged
  <2>4. QED
    BY <2>2, <2>3
<1>9. ~EndsScan(s)
  BY DEF EndsScan, InScan, Hands
<1>10. CASE scan'[s].phase = "walk"
  BY <1>10 DEF Hands
<1>11. QED
  BY <1>3, <1>4, <1>5, <1>6, <1>7, <1>8, <1>9, <1>10, ScanBefore, TheConstants DEF GoesOn

\* The supervisor does not forget that it has to scan.
LEMMA AlarmsOn ==
  ASSUME Calm, CleanStep, Alarmed, watch'.mode # "down"
  PROVE  Alarmed' \/ \E s \in Scans : scan'[s].phase = "walk"
<1>1. CASE watch' = watch
  BY <1>1 DEF Alarmed
<1>2. ASSUME NEW s \in Scans, EndsScan(s)
      PROVE  Alarmed'
  <2>1. scan[s] # NoScan
    BY <1>2 DEF EndsScan, InScan, NoScan
  <2>2. s = CatchUp => watch.mode # "recovering"
    BY <2>1 DEF Calm, Orderly
  <2>3. QED
    BY <1>2, <2>2 DEF EndsScan, Alarmed
<1>3. CASE \E s \in Scans : GoesOn(s)
  BY <1>1, <1>2, <1>3 DEF GoesOn, Walks, ReadsKeys, Prunes, Verifies, ForgetsTheDead, TakesFile
<1>4. CASE SeesFailure \/ Alarms \/ Rescans \/ Dies
  BY <1>4, TheConstants DEF SeesFailure, Alarms, Rescans, Dies, Alarmed
<1>5. CASE StartsUp
  BY <1>5, TheConstants DEF StartsUp
<1>6. QED
  BY <1>1, <1>3, <1>4, <1>5, TheCourse
     DEF Acts, Looks, Aside, Rekeys, Drops, Unmaps, Catalogues, FixSaves, MapsPath, Remaps, Unlinks, Moves,
         Changes, BeginsDownload, TakesEvent

\* FilesInHand: a file passes from the watch to a worker or a scan, from a scan to
\* its task, and from a task to an archive.
LEMMA FilesInHandStays ==
  ASSUME Calm, CleanStep
  PROVE  FilesInHand'
<1> DEFINE Hand(n) ==
      \/ Shown(n) \/ Alarmed \/ n \in events
      \/ \E w \in Workers : Tends(w, n)
      \/ \E s \in Scans : Hands(s, n)
<1> SUFFICES ASSUME watch'.mode # "down", NEW n \in Names, disk'[n] # Nothing
             PROVE  Hand(n)'
  BY DEF FilesInHand, OnDisk
<1>1. \A s \in Scans : scan'[s].phase = "walk" => Hand(n)'
  BY DEF Hands
<1>2. CASE watch.mode = "down"
  <2>1. StartsUp
    BY <1>2, StaysDown, TheOutages DEF Calm
  <2>2. QED
    BY <1>1, <2>1, TheConstants DEF StartsUp
<1>3. CASE watch.mode # "down" /\ Shown(n)
  BY <1>3, ShownStays DEF OnDisk
<1>4. ASSUME watch.mode # "down", disk'[n] # disk[n]
      PROVE  Hand(n)'
  <2>1. CASE \E w \in Workers : Moves(w) /\ n = task[w].dest
    BY <2>1, MovedIsShown
  <2>2. CASE Changes(n)
    <3>1. CASE Reported
      BY <2>2, <3>1 DEF Changes
    <3>2. CASE ~Reported
      <4>1. watch.mode \in Modes /\ watch' = watch
        BY <2>2 DEF Changes, Calm, IndInv, TypeOK, WatchStates
      <4>2. Alarmed'
        BY <1>4, <3>2, <4>1 DEF Reported, Alarmed, Modes
      <4>3. QED
        BY <4>2
    <3>3. QED
      BY <3>1, <3>2
  <2>3. QED
    BY <1>4, <2>1, <2>2, FileBefore DEF Unlinks
<1>5. ASSUME watch.mode # "down", ~Shown(n), disk'[n] = disk[n]
      PROVE  Hand(n)'
  <2>1. Alarmed \/ n \in events \/ (\E w \in Workers : Tends(w, n)) \/ (\E s \in Scans : Hands(s, n))
    BY <1>5 DEF Calm, CleanInv, FilesInHand, OnDisk
  <2>2. CASE Alarmed
    BY <1>1, <2>2, AlarmsOn
  <2>3. CASE \E s \in Scans : Hands(s, n)
    BY <1>5, <2>3, HandsOn
  <2>4. CASE SeesFailure \/ Rescans \/ Alarms \/ Dies \/ StartsUp \/ Repairs
    BY <1>1, <1>5, <2>4, TheConstants
       DEF SeesFailure, Rescans, Alarms, Dies, StartsUp, Repairs, Alarmed
  <2>5. ASSUME n \in events
        PROVE  Hand(n)'
    <3>1. CASE \E w \in Workers : Acts(w)
      BY <2>5, <3>1 DEF Acts, Looks, Aside, Rekeys, Drops, Unmaps, Catalogues, FixSaves, MapsPath, Remaps,
         Unlinks, Moves
    <3>2. ASSUME NEW m \in Names, TakesEvent(m)
          PROVE  n \in events' \/ Tends(Watcher, n)'
      BY <2>5, <3>2 DEF TakesEvent, BeginsInPlace, Tends, InPlace, Staged
    <3>3. CASE \E s \in Scans : GoesOn(s)
      BY <2>5, <3>3 DEF GoesOn, Walks, ReadsKeys, Prunes, Verifies, ForgetsTheDead, TakesFile, EndsScan, InScan
    <3>4. CASE (\E m \in Changing : Changes(m)) \/ (\E d \in Downloads : BeginsDownload(d)) \/ Aside
      BY <2>5, <3>4 DEF Changes, BeginsDownload, Aside
    <3>5. QED
      BY <2>4, <3>1, <3>2, <3>3, <3>4, TheCourse, TheConstants
  <2>6. ASSUME NEW w \in Workers, Tends(w, n)
        PROVE  Hand(n)'
    <3>1. CASE task'[w] = task[w]
      <4>1. Tends(w, n)'
        BY <1>5, <2>6, <3>1 DEF Tends, InPlace, Staged
      <4>2. QED
        BY <4>1
    <3>2. CASE Acts(w)
      BY <1>5, <2>6, <3>2, TendsOn
    <3>3. task[w] # Idle
      BY <2>6 DEF Tends, InPlace
    <3>4. ASSUME NEW v \in Workers, Acts(v), v # w
          PROVE  task'[w] = task[w]
      BY <3>4 DEF Acts, Looks, Rekeys, Drops, Unmaps, Catalogues, FixSaves, MapsPath, Remaps,
         Unlinks, Moves, Advances, Ends, Alone
    <3>5. ASSUME NEW s \in Scans, GoesOn(s)
          PROVE  task'[w] = task[w]
      BY <3>3, <3>5
         DEF GoesOn, Walks, ReadsKeys, Prunes, Verifies, ForgetsTheDead, TakesFile, EndsScan, InScan,
             BeginsInPlace, Alone
    <3>6. CASE (\E m \in Names : TakesEvent(m)) \/ (\E d \in Downloads : BeginsDownload(d))
      BY <3>1, <3>3, <3>6 DEF TakesEvent, BeginsDownload, BeginsInPlace, BeginsStaged, Alone
    <3>7. CASE (\E m \in Changing : Changes(m)) \/ task' = task
      BY <3>1, <3>7 DEF Changes
    <3>8. QED
      BY <2>4, <3>1, <3>2, <3>4, <3>5, <3>6, <3>7, TheCourse
  <2>7. QED
    BY <2>1, <2>2, <2>3, <2>5, <2>6
<1>6. QED
  BY <1>2, <1>3, <1>4, <1>5

-----------------------------------------------------------------------------
(* What holds of every step, also of those that are refused *)

\* A worker's step leaves it idle, or with the same file in hand.
LEMMA WorkersGoOn ==
  ASSUME IndInv, TasksBegin, NEW w \in Workers, Ingest(w) \/ FixFails(w) \/ Fail(w)
  PROVE  /\ task[w] # Idle /\ UNCHANGED <<watch, scan>> /\ Alone(w)
         /\ \/ task'[w] = Idle
            \/ /\ task'[w].path = task[w].path /\ task'[w].want = task[w].want
               /\ Staged(w) => task'[w].id = task[w].id
               /\ \/ task'[w].step \notin {"lock", "hash"}
                  \/ At(w, "lock") /\ task'[w].id = task[w].id /\ task'[w].other = task[w].other
<1> DEFINE Late == Steps \ {"idle", "lock", "hash"}
<1>1. ASSUME Looks(w)
      PROVE  /\ task[w] # Idle /\ UNCHANGED <<watch, scan>> /\ Alone(w)
             /\ \/ task'[w] = Idle
                \/ /\ task'[w].path = task[w].path /\ task'[w].want = task[w].want
                   /\ Staged(w) => task'[w].id = task[w].id
                   /\ \/ task'[w].step \notin {"lock", "hash"}
                      \/ At(w, "lock") /\ task'[w].id = task[w].id /\ task'[w].other = task[w].other
  BY <1>1 DEF Looks, Aside, Advances, Ends, Keeps, InPlace, At
<1>2. ASSUME NEW from \in Late, NEW to \in Late, Advances(w, from, to), UNCHANGED <<watch, scan>>
      PROVE  /\ task[w] # Idle /\ UNCHANGED <<watch, scan>> /\ Alone(w)
             /\ task'[w].path = task[w].path /\ task'[w].want = task[w].want
             /\ task'[w].id = task[w].id /\ task'[w].step \notin {"lock", "hash"}
  BY <1>2 DEF Advances, Keeps
<1>3. ASSUME NEW from \in Steps \ {"idle"}, Ends(w, from)
      PROVE  task[w] # Idle /\ task'[w] = Idle /\ Alone(w)
  BY <1>3 DEF Ends
<1>4. UNCHANGED <<watch, scan>>
  BY DEF Ingest, Reserve, Hash, Lookup, Rekey, Rekeyed, Known, Restore, Collide, Unlink, Drop, Unmap,
     Catalogue, Thumb, MapFile, ChooseDest, Move, Fix, FixSave, FixFails, Remap, Fail, Others
<1>5. CASE Rekeyed(w) \/ Restore(w) \/ Remap(w) \/ Fail(w) \/ (MapFile(w) /\ ~Staged(w))
  <2>1. Leave(w) /\ task[w].step \in Steps \ {"idle"}
    BY <1>5, TheFields DEF Rekeyed, Restore, Remap, Fail, MapFile, At, Steps
  <2>2. Ends(w, task[w].step)
    BY <2>1, LeaveDoes DEF At
  <2>3. QED
    BY <1>3, <1>4, <2>1, <2>2
<1>6. CASE \/ Rekey(w) \/ Unlink(w) \/ Drop(w) \/ Unmap(w) \/ Catalogue(w) \/ Thumb(w)
           \/ Move(w) \/ FixSave(w) \/ FixFails(w)
  <2>1. task[w].step \in Late /\ \E to \in Late : Goto(w, to)
    BY <1>6 DEF Rekey, Unlink, Drop, Unmap, Catalogue, Thumb, Move, FixSave, FixFails, At, Steps
  <2>2. \E to \in Late : Advances(w, task[w].step, to)
    BY <2>1, GotoDoes DEF At
  <2>3. QED
    BY <1>2, <1>4, <2>1, <2>2
<1>7. QED
  BY <1>1, <1>5, <1>6, LooksFirst, LooksOn DEF Ingest

\* A process that is down stays down until it is started, and the supervisor scans
\* in two of its modes only.
LEMMA OrderlyStays ==
  ASSUME IndInv, Orderly, TasksBegin, [Next]_vars
  PROVE  Orderly'
<1>0. Boot # CatchUp /\ Boot \in Scans /\ CatchUp \in Scans
  BY TheConstants
<1>1. CASE UNCHANGED vars
  BY <1>1 DEF vars, Orderly
<1>2. ASSUME NEW w \in Workers, Ingest(w) \/ FixFails(w) \/ Fail(w)
      PROVE  Orderly'
  BY <1>2, WorkersGoOn DEF Orderly
<1>3. ASSUME NEW s \in Scans, ScanStep(s)
      PROVE  Orderly'
  <2>1. GoesOn(s) /\ scan[s] # NoScan
    BY <1>3, TheScansGoOn DEF GoesOn, Walks, ReadsKeys, Prunes, Verifies, ForgetsTheDead, TakesFile, EndsScan,
       InScan, NoScan
  <2>2. watch.mode # "down" /\ (s = CatchUp => watch.mode \in {"rescanning", "catchingUp"})
    BY <2>1 DEF Orderly
  <2>3. CASE EndScan(s)
    <3>1. scan'[s] = NoScan /\ OtherScans(s)
      BY <2>3 DEF EndScan, OtherScans, IndInv, TypeOK
    <3>2. (s = CatchUp => watch'.mode = "watching") /\ (s # CatchUp => watch' = watch)
      BY <2>3 DEF EndScan, IndInv, TypeOK, WatchStates
    <3>3. QED
      BY <1>0, <2>2, <3>1, <3>2 DEF Orderly, OtherScans
  <2>4. CASE Walks(s) \/ ReadsKeys(s) \/ Prunes(s) \/ Verifies(s) \/ ForgetsTheDead(s)
             \/ \E n \in Names : TakesFile(s, n)
    <3>1. watch' = watch /\ OtherScans(s)
      BY <2>4 DEF Walks, ReadsKeys, Prunes, Verifies, ForgetsTheDead, TakesFile, InScan
    <3>2. QED
      BY <1>0, <2>2, <3>1 DEF Orderly, OtherScans
  <2>5. EndsScan(s) => EndScan(s)
    <3>1. EndsScan(s) => scan[s].phase = "ingest" /\ scan'[s].phase = "done"
      BY DEF EndsScan, InScan
    <3>2. ASSUME NEW n \in Names, TakeFile(s, n)
          PROVE  scan'[s].phase = scan[s].phase
      BY <3>2 DEF TakeFile, IndInv, TypeOK, ScanStates
    <3>3. QED
      BY <1>3, <3>1, <3>2 DEF ScanStep, Walk, Keys, Prune, Verify, ForgetDead
  <2>6. QED
    BY <2>1, <2>3, <2>4, <2>5 DEF GoesOn
<1>4. CASE \/ \E d \in Downloads, i \in Brought, n \in Wanted, o \in BOOLEAN : StartDownload(d, i, n, o)
           \/ \E n \in Names : TakeEvent(n)
  BY <1>4 DEF StartDownload, TakeEvent, Orderly, Others
<1>5. CASE Supervise \/ RestartWatcher
  <2>1. watch \in WatchStates
    BY DEF IndInv, TypeOK
  <2>2. CASE SeeFailure
    BY <2>2 DEF SeeFailure, Orderly
  <2>3. CASE SeeRescan \/ Recover \/ RestartWatcher
    <3>1. [watch EXCEPT !.mode = "rescanning", !.rescan = FALSE].mode = "rescanning"
          /\ [watch EXCEPT !.mode = "catchingUp"].mode = "catchingUp"
      BY <2>1 DEF WatchStates
    <3>2. watch'.mode \in {"rescanning", "catchingUp"}
      <4>1. CASE SeeRescan
        BY <3>1, <4>1 DEF SeeRescan
      <4>2. CASE Recover
        BY <3>1, <4>2 DEF Recover
      <4>3. CASE RestartWatcher
        BY <4>3 DEF RestartWatcher
      <4>4. QED
        BY <2>3, <4>1, <4>2, <4>3
    <3>3. watch'.mode # "down"
      BY <3>2
    <3>4. QED
      BY <3>2, <3>3 DEF Orderly
  <2>4. QED
    BY <1>5, <2>2, <2>3 DEF Supervise
<1>6. CASE \E n \in UserNames, c \in UserContents \union {Nothing} : UserChanges(n, c)
  BY <1>6 DEF UserChanges, Reported, Orderly
<1>7. CASE BreakWatch \/ DropEvents
  <2>1. watch'.mode = watch.mode /\ watch.mode # "down" /\ scan' = scan
    BY <1>7 DEF BreakWatch, DropEvents, Reported, IndInv, TypeOK, WatchStates
  <2>2. QED
    BY <2>1 DEF Orderly
<1>8. CASE Crash
  BY <1>0, <1>8 DEF Crash, Orderly
<1>9. CASE Startup
  <2>1. watch'.mode = "watching" /\ scan'[CatchUp] = scan[CatchUp]
    BY <1>0, <1>9 DEF Startup, StartScan, IndInv, TypeOK, WatchStates
  <2>2. scan[CatchUp] = NoScan
    BY <1>0, <1>9 DEF Startup, Orderly
  <2>3. QED
    BY <2>1, <2>2 DEF Orderly
<1>10. ASSUME NEW dropped \in SUBSET Contents, NEW unmapped \in SUBSET dropped, StartupDies(dropped, unmapped)
       PROVE  Orderly'
  BY <1>10 DEF StartupDies, Orderly
<1>11. QED
  BY <1>1, <1>2, <1>3, <1>4, <1>5, <1>6, <1>7, <1>8, <1>9, <1>10 DEF Next

\* Every task begins with what its worker has to begin with.
LEMMA TasksBeginStays ==
  ASSUME IndInv, TasksBegin, [Next]_vars
  PROVE  TasksBegin'
<1> DEFINE Fine(t, w) ==
      /\ t.want # Nothing => t.id \in Brought /\ t.path = Nothing
      /\ t # Idle /\ t.want = Nothing => w \in Scans \union {Watcher}
      /\ t # Idle /\ t.want = Nothing /\ t.step \in {"lock", "hash"} => t.id = Nothing /\ t.other = Nothing
<1>1. \A w \in Workers : Fine(task[w], w)
  BY DEF TasksBegin, InPlace, Staged
<1>2. SUFFICES ASSUME NEW u \in Workers
               PROVE  Fine(task'[u], u)
  BY DEF TasksBegin, InPlace, Staged
<1>3. Fine(Idle, u)
  BY IdleHasNothing
<1>4. CASE task'[u] = task[u]
  BY <1>1, <1>4
<1>5. CASE Quiet
  <2>1. BeginsStaged(u) => Fine(task'[u], u)
    BY TheConstants DEF BeginsStaged
  <2>2. BeginsInPlace(u) => Fine(task'[u], u)
    BY DEF BeginsInPlace
  <2>3. QED
    BY <1>3, <1>4, <1>5, <2>1, <2>2 DEF Quiet
<1>6. ASSUME NEW w \in Workers, Ingest(w) \/ FixFails(w) \/ Fail(w)
      PROVE  Fine(task'[u], u)
  <2>1. CASE u # w
    BY <1>4, <1>6, <2>1, WorkersGoOn DEF Alone
  <2>2. CASE u = w /\ task'[w] # Idle
    <3>1. /\ task[w] # Idle /\ task'[w].path = task[w].path /\ task'[w].want = task[w].want
          /\ task[w].want # Nothing => task'[w].id = task[w].id
          /\ \/ task'[w].step \notin {"lock", "hash"}
             \/ task[w].step = "lock" /\ task'[w].id = task[w].id /\ task'[w].other = task[w].other
      BY <1>6, <2>2, WorkersGoOn DEF Staged, At
    <3>2. Fine(task[w], w)
      BY <1>1
    <3>3. QED
      BY <2>2, <3>1, <3>2
  <2>3. QED
    BY <1>3, <2>1, <2>2
<1>7. ASSUME NEW s \in Scans, ScanStep(s)
      PROVE  Quiet \/ task' = task
  <2>1. CASE \E n \in Names : TakeFile(s, n)
    BY <2>1, TheStarts
  <2>2. CASE Walk(s) \/ Keys(s) \/ Verify(s) \/ EndScan(s)
    BY <2>2, TheSignals
  <2>3. CASE Prune(s) \/ ForgetDead(s)
    BY <2>3 DEF Prune, ForgetDead
  <2>4. QED
    BY <1>7, <2>1, <2>2, <2>3 DEF ScanStep
<1>8. CASE \/ \E d \in Downloads, i \in Brought, n \in Wanted, o \in BOOLEAN : StartDownload(d, i, n, o)
           \/ \E n \in Names : TakeEvent(n)
  BY <1>5, <1>8, TheStarts
<1>9. CASE Supervise \/ RestartWatcher \/ BreakWatch \/ DropEvents \/ Crash \/ UNCHANGED vars
  BY <1>5, <1>9, TheSignals
<1>10. CASE \/ \E n \in UserNames, c \in UserContents \union {Nothing} : UserChanges(n, c)
            \/ Startup
            \/ \E dropped \in SUBSET Contents : \E unmapped \in SUBSET dropped :
                 StartupDies(dropped, unmapped)
  <2>1. task' = task
    BY <1>10 DEF UserChanges, Startup, StartupDies
  <2>2. QED
    BY <1>4, <2>1
<1>11. QED
  BY <1>4, <1>5, <1>6, <1>7, <1>8, <1>9, <1>10 DEF Next

-----------------------------------------------------------------------------
(* The invariant, and what it says of a library at rest *)

\* Each part of CleanInv stays true in a clean step.
LEMMA CleanInvStays ==
  ASSUME Calm, CleanStep, Orderly'
  PROVE  CleanInv'
BY ScansSeeStays, WatcherSeesStays, DownloadsSeeStays, UsersAloneStays,
   OutdatedAloneStays, UnreadableAloneStays, RecordsAreTrueStay, MappingsAreTrueStay,
   UnfiledInHandStays, OverwritingStays, NameIsClearStays, DueAreMappedStay, UsersAreRekeyedStay,
   DueAreShownStay, ScanDueAreShownStay, LateAreShownStay, DoneAreShownStay, FilesInHandStays
   DEF CleanInv

\* At first there are files of the user's and nothing else.
LEMMA InitRestInv == Init => RestInv
<1> SUFFICES ASSUME Init
             PROVE  RestInv
  OBVIOUS
<1>1. IndInv
  BY InitIndInv
<1>2. /\ \A w \in Workers : task[w] = Idle
      /\ \A s \in Scans : scan[s] = NoScan /\ scan[s].phase = "done"
      /\ \A n \in Names : filemap[n] = Nothing /\ disk[n] \in UserContents \union {Nothing}
      /\ \A i \in Contents : ~Exists(i)
      /\ watch.mode = "down" /\ events = {}
  BY DEF Init, NoScan, Exists
<1>3. \A w \in Workers : ~Staged(w) /\ ~InPlace(w) /\ task[w].step = "idle" /\ task[w].id = Nothing
  BY <1>2, IdleHasNothing DEF Staged, InPlace
<1>4. ChosenNamesAreFree /\ Orderly /\ TasksBegin
  BY <1>2, <1>3, TheConstants DEF ChosenNamesAreFree, Orderly, TasksBegin, At
<1>5. ScansSee /\ WatcherSees /\ DownloadsSee
  <2>1. \A s \in Scans : s \in Workers
    BY TheConstants DEF Workers
  <2>2. Watcher \in Workers
    BY DEF Workers
  <2>3. ScansSee
    BY <1>2, <2>1 DEF ScansSee
  <2>4. WatcherSees
    BY <1>3, <2>2 DEF WatcherSees
  <2>5. DownloadsSee
    BY <1>3 DEF DownloadsSee
  <2>6. QED
    BY <2>3, <2>4, <2>5
<1>6. UsersAlone
  <2> SUFFICES ASSUME NEW i \in Contents, NEW n \in Changing, Has(n, i)
               PROVE  \A m \in Names : Has(m, i) => m = n
    BY <1>2, <1>3 DEF UsersAlone
  <2>1. i # Nothing /\ n \in Names
    BY TheConstants
  <2>2. \A m \in Names : Has(m, i) => disk[m] = i
    BY <1>2, <1>3, <2>1 DEF Has
  <2>3. QED
    BY <2>1, <2>2 DEF Init, OnDisk
<1>8. OutdatedAlone /\ UnreadableAlone /\ RecordsAreTrue /\ MappingsAreTrue /\ DueAreMapped
  <2>1. OutdatedAlone
    BY <1>2 DEF OutdatedAlone
  <2>2. UnreadableAlone
    BY <1>2 DEF UnreadableAlone
  <2>3. RecordsAreTrue
    BY <1>2 DEF RecordsAreTrue
  <2>4. MappingsAreTrue
    BY <1>2 DEF MappingsAreTrue
  <2>5. DueAreMapped
    BY <1>2 DEF DueAreMapped
  <2>6. QED
    BY <2>1, <2>2, <2>3, <2>4, <2>5
<1>9. UnfiledInHand /\ Overwriting /\ NameIsClear /\ UsersAreRekeyed
  BY <1>2, <1>3 DEF UnfiledInHand, Placing, Overwriting, NameIsClear, UsersAreRekeyed, At
<1>10. DueAreShown /\ ScanDueAreShown /\ LateAreShown /\ DoneAreShown
  BY <1>2, <1>3 DEF DueAreShown, OnDisk, ScanDueAreShown, LateAreShown, DoneAreShown, At
<1>11. FilesInHand
  BY <1>2 DEF FilesInHand
<1>12. QED
  BY <1>1, <1>4, <1>5, <1>6, <1>8, <1>9, <1>10, <1>11 DEF RestInv, CleanInv

\* The inductive step, whatever has happened before.
LEMMA NextRestInv ==
  ASSUME NamesApart, RestInv, [Next]_vars
  PROVE  RestInv'
<1>1. IndInv' /\ ChosenNamesAreFree' /\ Orderly' /\ TasksBegin'
  BY NextIndInv, ChosenStaysFree, OrderlyStays, TasksBeginStays DEF RestInv
<1>2. ASSUME Clean'
      PROVE  CleanInv'
  <2>1. CleanStep
    BY <1>2 DEF CleanStep
  <2>2. Clean
    BY <2>1, CleanBefore DEF RestInv
  <2>3. Calm
    BY <2>2 DEF RestInv, Calm
  <2>4. QED
    BY <1>1, <2>1, <2>3, CleanInvStays
<1>3. QED
  BY <1>1, <1>2 DEF RestInv

\* At rest nobody has a file in hand: each is shown, by an archive that has its file.
LEMMA RestServes ==
  ASSUME RestInv
  PROVE  RestingFilesAreServed
<1> SUFFICES ASSUME AtRest, errors = 0, ~raced, NEW n \in Names, OnDisk(n)
             PROVE  Served(n)
  BY DEF RestingFilesAreServed
<1>1. IndInv /\ CleanInv
  BY DEF RestInv, Clean
<1>2. /\ \A w \in Workers : task[w] = Idle
      /\ \A s \in Scans : scan[s].phase = "done"
      /\ watch.mode = "watching" /\ ~watch.broken /\ ~watch.rescan /\ events = {}
  BY <1>1 DEF AtRest, NoScan, IndInv, TasksAreSound, TaskFits
<1>3. Shown(n)
  BY <1>1, <1>2 DEF CleanInv, FilesInHand, Alarmed, Tends, InPlace, Hands
<1>4. ASSUME Exists(disk[n])
      PROVE  Readable(disk[n])
  <2>1. disk[n] \in Contents
    BY <1>1, TheFile
  <2>2. record[disk[n]].file # Nothing
    BY <1>1, <1>2, <1>4, <2>1, IdleHasNothing DEF CleanInv, UnfiledInHand, Placing, Staged
  <2>3. QED
    BY <1>1, <1>4, <2>1, <2>2 DEF CleanInv, UnreadableAlone
<1>5. QED
  BY <1>3, <1>4 DEF Shown, Served

\* What holds of a library between any two steps.
LEMMA SpecRestInv ==
  ASSUME NamesApart
  PROVE  Spec => []RestInv
<1>1. Init => RestInv
  BY InitRestInv
<1>2. RestInv /\ [Next]_vars => RestInv'
  BY NextRestInv
<1>3. QED
  BY <1>1, <1>2, PTL DEF Spec

\* Once downloads, watcher, scans and repair have come to rest, no file is without
\* an archive (pipeline.rs, full_scan.rs, handle.rs, main.rs): for any downloads,
\* names and contents, any number of ingests, changes and outages.
THEOREM AlwaysRestingFilesAreServed ==
  ASSUME NamesApart
  PROVE  Spec => []RestingFilesAreServed
<1>1. RestInv => RestingFilesAreServed
  BY RestServes
<1>2. QED
  BY <1>1, SpecRestInv, PTL

\* At no time, whatever is under way, have two archives one file that the user does
\* not change, and such a file has its archive's bytes or is gone to be replaced:
\* the overwrite policy takes any archive it finds by file name (pipeline.rs:342-368).
\* And a mapping to bytes that its name has lost leads to no archive or to that of
\* this name, the one a rekey may move (pipeline.rs:296-320).
THEOREM AlwaysRecordsAreTrue ==
  ASSUME NamesApart
  PROVE  Spec => [](errors = 0 /\ ~raced => RecordsAreTrue /\ MappingsAreTrue)
<1>1. RestInv => (errors = 0 /\ ~raced => RecordsAreTrue /\ MappingsAreTrue)
  BY DEF RestInv, Clean, CleanInv
<1>2. QED
  BY <1>1, SpecRestInv, PTL
=============================================================================

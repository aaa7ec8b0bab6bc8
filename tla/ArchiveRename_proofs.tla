------------------------ MODULE ArchiveRename_proofs ------------------------
(***************************************************************************)
(* ArchiveRename for any archives, names and requests, any number of        *)
(* renames, refusals and crashes: the invariant IndInv is inductive, and     *)
(* every step changes at most one archive's name, in one go, as ArchiveNames *)
(* says.  Nothing is assumed of what users ask for: archives whose renames   *)
(* cross are in the set `crossed', which the properties except.              *)
(***************************************************************************)
EXTENDS ArchiveRename, TLAPS

\* A handler that goes on changes its own step and nothing else of the tasks.
LEMMA GotoTask ==
  ASSUME TypeOK, NEW r \in Requests, NEW st \in Steps, Goto(r, st)
  PROVE  /\ task' \in [Requests -> Tasks]
         /\ task'[r].step = st
         /\ task'[r].id = task[r].id /\ task'[r].old = task[r].old /\ task'[r].new = task[r].new
         /\ \A q \in Requests : q # r => task'[q] = task[q]
BY DEF TypeOK, Tasks, Goto

\* A handler that leaves is idle and holds nothing, the others go on.
LEMMA LeaveTask ==
  ASSUME TypeOK, NEW r \in Requests, Leave(r)
  PROVE  /\ task' \in [Requests -> Tasks] /\ holders' \in [Names -> SUBSET Requests]
         /\ task'[r].step = "idle"
         /\ \A q \in Requests : q # r => task'[q] = task[q]
BY DEF TypeOK, Tasks, Steps, Leave, Idle

\* Startup that goes on changes its own step and nothing else of it.
LEMMA BootGotoBoot ==
  ASSUME TypeOK, NEW st \in BootSteps, BootGoto(st)
  PROVE  boot' \in Boots /\ boot'.step = st /\ boot'.id = boot.id /\ boot'.left = boot.left
BY DEF TypeOK, Boots, BootGoto

\* The invariant holds at first.
LEMMA InitIndInv == Init => IndInv
<1> SUFFICES ASSUME Init PROVE IndInv
  OBVIOUS
<1> USE NamesAssumption DEF Init
<1>1. PICK at \in [Archives -> Names] :
        /\ \A i, j \in Archives : at[i] = at[j] => i = j
        /\ disk = [n \in Names |-> IF \E i \in Archives : at[i] = n
                                   THEN CHOOSE i \in Archives : at[i] = n ELSE Nothing]
        /\ record = [i \in Archives |-> [file |-> at[i], name |-> Stem[at[i]]]]
  OBVIOUS
<1>2. \A i \in Archives : disk[at[i]] = i
  BY <1>1
<1>3. record \in [Archives -> Records] /\ \A i \in Archives : record[i].file = at[i]
  BY <1>1 DEF Records, Stems
<1>4. disk \in [Names -> Archives \union {Nothing}]
  BY <1>1
<1>5. TypeOK
  <2>1. task \in [Requests -> Tasks] /\ boot \in Boots
    BY DEF Idle, Tasks, Steps, Running, Boots, BootSteps
  <2>2. holders \in [Names -> SUBSET Requests]
    BY DEF Locks!Init
  <2>3. QED
    BY <1>3, <1>4, <2>1, <2>2 DEF TypeOK
<1>6. EveryFileIsFound
  BY <1>1, <1>2, <1>3 DEF EveryFileIsFound, View, Exists
<1>7. RequestsKnow /\ RequestsApart
  BY DEF RequestsKnow, RequestsApart, Claims, Busy, Idle
<1>8. JournalTrue /\ StartupKnows
  BY DEF JournalTrue, StartupKnows, Running
<1>9. QED
  BY <1>5, <1>6, <1>7, <1>8 DEF IndInv

-----------------------------------------------------------------------------
(* What a step of a request leaves to the others *)

\* A step changes the request's own task and archive, and the files at names it
\* claims, which it takes from names it claims.
OwnStep(r) ==
  /\ UNCHANGED <<boot, crossed>>
  /\ \A q \in Requests : q # r => task'[q] = task[q]
  /\ task'[r].step # "idle" =>
       /\ task'[r].id = task[r].id /\ task'[r].old = task[r].old /\ task'[r].new = task[r].new
       /\ task'[r].step \in BeforeMove => task[r].step \in BeforeMove
  /\ \A i \in Archives : i # task[r].id =>
       record'[i] = record[i] /\ journal'[i] = journal[i] /\ (i \in exposed' <=> i \in exposed)
  /\ \A n \in Names : disk'[n] # disk[n] =>
       /\ Claims(r, n)
       /\ disk'[n] = Nothing \/ \E m \in Names : Claims(r, m) /\ disk[m] = disk'[n]
  /\ journal'[task[r].id] \in {Nothing, journal[task[r].id]}
       \/ journal'[task[r].id].new = task[r].new

\* What is to be shown of the request's own archive, unless it is crossed.
OwnArchive(r, i) ==
  i \notin crossed =>
    /\ task'[r].step # "idle" => RequestKnows(r)'
    /\ i \notin exposed' => View(i)' # Nothing /\ disk'[View(i)'] = i
    /\ journal'[i] # Nothing => disk'[journal'[i].new] \in {Nothing, i}

\* What the invariant says of a request at work.
LEMMA AtWork ==
  ASSUME IndInv, NEW r \in Requests, Busy(r)
  PROVE  /\ TypeOK /\ Up /\ task[r].id \in Archives
         /\ task[r].old \in Names /\ task[r].new \in Names /\ task[r].old # task[r].new
         /\ task[r].id \notin crossed => RequestKnows(r)
         /\ \A q \in Requests : Busy(q) /\ q # r /\ task[q].id = task[r].id =>
              task[r].id \in crossed
         /\ \A i \in Archives, n \in Names :
              Claims(r, n) /\ Stake(i, n) /\ i # task[r].id => {i, task[r].id} \subseteq crossed
BY DEF IndInv, RequestsKnow, RequestsApart

\* A file that an archive has a stake in stays, if one of the two is not crossed.
LEMMA StakesStay ==
  ASSUME IndInv, NEW r \in Requests, Busy(r), OwnStep(r),
         NEW i \in Archives, i # task[r].id, i \notin crossed \/ task[r].id \notin crossed,
         NEW n \in Names, Stake(i, n)
  PROVE  disk'[n] = disk[n] /\ ~Claims(r, n)
BY AtWork DEF OwnStep

\* Such an archive is shown where it was.
LEMMA ViewsStay ==
  ASSUME IndInv, NEW r \in Requests, Busy(r), OwnStep(r),
         NEW i \in Archives, i # task[r].id, i \notin crossed \/ task[r].id \notin crossed
  PROVE  View(i)' = View(i)
<1>1. record'[i] = record[i] /\ journal'[i] = journal[i]
  BY DEF OwnStep
<1>2. CASE journal[i] = Nothing
  BY <1>1, <1>2 DEF View, Exists
<1>3. CASE journal[i] # Nothing
  <2>1. journal[i].new \in Names /\ Stake(i, journal[i].new)
    BY <1>3, AtWork DEF TypeOK, Entries, Stake
  <2>2. disk'[journal[i].new] = disk[journal[i].new]
    BY <2>1, StakesStay
  <2>3. QED
    BY <1>1, <2>2 DEF View, Exists, OnDisk
<1>4. QED
  BY <1>2, <1>3

\* Requests stay apart: a step claims nothing new.
LEMMA ApartStays ==
  ASSUME IndInv, NEW r \in Requests, Busy(r), OwnStep(r)
  PROVE  RequestsApart'
<1>1. PICK id : id = task[r].id
  OBVIOUS
<1>2. TypeOK /\ id \in Archives /\ task[r].new \in Names /\ RequestsApart /\ crossed' = crossed
  BY <1>1, AtWork DEF IndInv, OwnStep
<1>3. \A q \in Requests : Busy(q)' => Busy(q) /\ task'[q].id = task[q].id
  BY DEF OwnStep, Busy
<1>4. ASSUME NEW q \in Requests, NEW n \in Names, Claims(q, n)'
      PROVE  Claims(q, n)
  <2>1. CASE q = r
    BY <1>4, <2>1 DEF OwnStep, Claims, Busy
  <2>2. CASE q # r
    <3>1. task'[q] = task[q]
      BY <2>2 DEF OwnStep
    <3>2. QED
      BY <1>4, <3>1 DEF Claims, Busy
  <2>3. QED
    BY <2>1, <2>2
<1>5. ASSUME NEW i \in Archives, NEW n \in Names, Stake(i, n)', ~Stake(i, n)
      PROVE  Claims(r, n) /\ (i = id \/ {i, id} \subseteq crossed)
  <2>1. CASE disk'[n] = i
    <3>1. disk'[n] # disk[n] /\ i # Nothing
      BY <1>5, <2>1, NamesAssumption DEF Stake
    <3>2. PICK m \in Names : Claims(r, n) /\ Claims(r, m) /\ disk[m] = i
      BY <2>1, <3>1 DEF OwnStep
    <3>3. Stake(i, m)
      BY <3>2 DEF Stake
    <3>4. QED
      BY <1>1, <3>2, <3>3, AtWork
  <2>2. CASE journal'[i] # Nothing /\ journal'[i].new = n
    <3>1. journal'[i] # journal[i]
      BY <1>5, <2>2 DEF Stake
    <3>2. i = id /\ n = task[r].new
      BY <1>1, <2>2, <3>1 DEF OwnStep
    <3>3. QED
      BY <3>2 DEF Claims
  <2>3. CASE \E q \in Requests : task'[q].id = i /\ Claims(q, n)'
    <3>1. PICK q \in Requests : task'[q].id = i /\ Claims(q, n)'
      BY <2>3
    <3>2. Claims(q, n) /\ task[q].id = i
      BY <1>3, <1>4, <3>1 DEF Claims
    <3>3. QED
      BY <1>5, <3>2 DEF Stake
  <2>4. QED
    BY <1>5, <2>1, <2>2, <2>3 DEF Stake
<1>6. ASSUME NEW i \in Archives, NEW q \in Requests, NEW n \in Names,
             Claims(q, n)', Stake(i, n)', i # task'[q].id
      PROVE  {i, task'[q].id} \subseteq crossed
  <2>1. Claims(q, n) /\ Busy(q) /\ task'[q].id = task[q].id
    BY <1>3, <1>4, <1>6 DEF Claims
  <2>2. CASE Stake(i, n)
    BY <1>2, <1>6, <2>1, <2>2 DEF RequestsApart
  <2>3. CASE ~Stake(i, n)
    <3>1. Claims(r, n) /\ (i = id \/ {i, id} \subseteq crossed)
      BY <1>5, <1>6, <2>3
    <3>2. Stake(id, n)
      BY <1>1, <3>1 DEF Stake
    <3>3. id = task[q].id \/ {id, task[q].id} \subseteq crossed
      BY <1>2, <2>1, <3>2 DEF RequestsApart
    <3>4. QED
      BY <1>6, <2>1, <3>1, <3>3
  <2>4. QED
    BY <2>2, <2>3
<1>7. ASSUME NEW q \in Requests, NEW s \in Requests, Busy(q)', Busy(s)', q # s,
             task'[q].id = task'[s].id
      PROVE  task'[q].id \in crossed
  BY <1>2, <1>3, <1>7 DEF RequestsApart
<1>8. QED
  BY <1>2, <1>6, <1>7 DEF RequestsApart

\* The other requests know what they knew.
LEMMA OthersKnow ==
  ASSUME IndInv, NEW r \in Requests, Busy(r), OwnStep(r),
         NEW q \in Requests, q # r, Busy(q)', task'[q].id \notin crossed
  PROVE  RequestKnows(q)'
<1>1. PICK t : t = task[q] /\ t = task'[q]
  BY DEF OwnStep
<1>2. /\ Busy(q) /\ RequestKnows(q) /\ t.id \in Archives /\ t.id # task[r].id /\ t.id \notin crossed
      /\ t.old \in Names /\ t.new \in Names /\ TypeOK
  BY <1>1, AtWork DEF Busy
<1>3. /\ record'[t.id] = record[t.id] /\ journal'[t.id] = journal[t.id]
      /\ t.id \in exposed' <=> t.id \in exposed
  BY <1>2 DEF OwnStep
<1>4. disk'[t.new] = disk[t.new]
  <2>1. Stake(t.id, t.new)
    BY <1>1, <1>2 DEF Stake, Claims
  <2>2. QED
    BY <1>2, <2>1, StakesStay
<1>5. t.step \in BeforeMove => disk'[t.old] = disk[t.old]
  <2>1. t.step \in BeforeMove => Stake(t.id, t.old)
    BY <1>1, <1>2 DEF Stake, Claims
  <2>2. QED
    BY <1>2, <2>1, StakesStay
<1>6. QED
  BY <1>1, <1>2, <1>3, <1>4, <1>5 DEF RequestKnows, Exists, OnDisk

\* A step that changes its own things only is sound if its own archive is well.
LEMMA OwnStepIndInv ==
  ASSUME IndInv, TypeOK', NEW r \in Requests, Busy(r), OwnStep(r),
         NEW id, id = task[r].id, OwnArchive(r, id)
  PROVE  IndInv'
<1> USE NamesAssumption
<1>1. id = task[r].id
  OBVIOUS
<1>2. TypeOK /\ Up /\ id \in Archives
  BY <1>1, AtWork
<1>3. UNCHANGED <<boot, crossed>>
  BY DEF OwnStep
<1>4. EveryFileIsFound'
  <2> SUFFICES ASSUME NEW i \in Archives \ (exposed' \union crossed)
               PROVE  View(i)' # Nothing /\ disk'[View(i)'] = i
    BY <1>3 DEF EveryFileIsFound
  <2>1. CASE i = id
    BY <1>1, <2>1 DEF OwnArchive
  <2>2. CASE i # id
    <3>1. View(i)' = View(i) /\ i \notin exposed
      BY <1>1, <2>2, ViewsStay DEF OwnStep
    <3>2. View(i) # Nothing /\ disk[View(i)] = i /\ View(i) \in Names
      BY <1>2, <3>1 DEF IndInv, EveryFileIsFound, View, TypeOK, Entries, Records, Exists
    <3>3. Stake(i, View(i))
      BY <3>2 DEF Stake
    <3>4. disk'[View(i)] = disk[View(i)]
      BY <1>1, <2>2, <3>2, <3>3, StakesStay
    <3>5. QED
      BY <3>1, <3>2, <3>4
  <2>3. QED
    BY <2>1, <2>2
<1>5. RequestsKnow'
  <2> SUFFICES ASSUME NEW q \in Requests, Busy(q)'
               PROVE  /\ Up' /\ task'[q].id \in Archives
                      /\ task'[q].old \in Names /\ task'[q].new \in Names
                      /\ task'[q].old # task'[q].new
                      /\ task'[q].id \notin crossed => RequestKnows(q)'
    BY <1>3 DEF RequestsKnow
  <2>1. Up'
    BY <1>2, <1>3 DEF Up
  <2>2. CASE q = r
    <3>1. task'[r].step # "idle"
      BY <2>2 DEF Busy
    <3>2. QED
      BY <2>1, <2>2, <3>1, AtWork DEF OwnStep, OwnArchive
  <2>3. CASE q # r
    <3>1. Busy(q) /\ task'[q] = task[q]
      BY <2>3 DEF OwnStep, Busy
    <3>2. QED
      BY <2>1, <2>3, <3>1, AtWork, OthersKnow
  <2>4. QED
    BY <2>2, <2>3
<1>6. RequestsApart'
  BY ApartStays
<1>7. JournalTrue'
  <2> SUFFICES ASSUME NEW i \in Archives \ crossed, journal'[i] # Nothing
               PROVE  disk'[journal'[i].new] \in {Nothing, i}
    BY <1>3 DEF JournalTrue
  <2>1. CASE i = id
    BY <1>1, <2>1 DEF OwnArchive
  <2>2. CASE i # id
    <3>1. journal'[i] = journal[i] /\ journal[i].new \in Names /\ Stake(i, journal[i].new)
      BY <1>1, <1>2, <2>2 DEF OwnStep, TypeOK, Entries, Stake
    <3>2. disk'[journal[i].new] = disk[journal[i].new]
      BY <1>1, <2>2, <3>1, StakesStay
    <3>3. QED
      BY <3>1, <3>2 DEF IndInv, JournalTrue
  <2>3. QED
    BY <2>1, <2>2
<1>8. StartupKnows'
  BY <1>2, <1>3 DEF IndInv, StartupKnows, Up
<1>9. QED
  BY <1>4, <1>5, <1>6, <1>7, <1>8 DEF IndInv

-----------------------------------------------------------------------------
(* The handler's steps *)

\* A handler that goes on, or leaves, and touches no file, record or entry.
LEMMA QuietStep ==
  ASSUME IndInv, TypeOK', NEW r \in Requests, Busy(r),
         UNCHANGED <<disk, record, journal, boot, crossed, exposed>>,
         \/ Leave(r)
         \/ \E st \in Steps : /\ Goto(r, st)
                              /\ \/ st \in BeforeMove \ {"move"} /\ task[r].step \in BeforeMove
                                 \/ st \in AfterSave /\ task[r].step \in AfterSave
                              /\ st \in {"old", "new", "check", "journal"} =>
                                   task[r].step \in {"old", "new", "check", "journal"}
  PROVE  OwnStep(r) /\ IndInv'
<1>1. PICK id : id = task[r].id
  OBVIOUS
<1>2. TypeOK /\ id \in Archives
  BY <1>1, AtWork
<1>3. OwnArchive(r, id) /\ OwnStep(r)
  <2>1. id \notin crossed /\ id \notin exposed => View(id)' # Nothing /\ disk'[View(id)'] = id
    BY <1>2 DEF IndInv, EveryFileIsFound, View, Exists, OnDisk
  <2>2. id \notin crossed /\ journal'[id] # Nothing => disk'[journal'[id].new] \in {Nothing, id}
    BY <1>2 DEF IndInv, JournalTrue
  <2>3. CASE Leave(r)
    <3>1. task'[r].step = "idle" /\ \A q \in Requests : q # r => task'[q] = task[q]
      BY <1>2, <2>3, LeaveTask
    <3>2. QED
      BY <2>1, <2>2, <3>1 DEF OwnArchive, OwnStep
  <2>4. ASSUME NEW st \in Steps, Goto(r, st),
               \/ st \in BeforeMove \ {"move"} /\ task[r].step \in BeforeMove
               \/ st \in AfterSave /\ task[r].step \in AfterSave,
               st \in {"old", "new", "check", "journal"} =>
                 task[r].step \in {"old", "new", "check", "journal"}
        PROVE  OwnArchive(r, id) /\ OwnStep(r)
    <3>1. /\ task'[r].step = st /\ st # "idle" /\ st \notin {"move", "save"}
          /\ task'[r].id = task[r].id /\ task'[r].old = task[r].old /\ task'[r].new = task[r].new
          /\ \A q \in Requests : q # r => task'[q] = task[q]
      BY <1>2, <2>4, GotoTask DEF BeforeMove, AfterSave
    <3>2. OwnStep(r)
      BY <2>4, <3>1 DEF OwnStep, BeforeMove, AfterSave
    <3>3. id \notin crossed => RequestKnows(r)'
      <4>1. id \notin crossed => RequestKnows(r)
        BY <1>1, AtWork
      <4>2. QED
        BY <1>1, <2>4, <3>1, <4>1 DEF RequestKnows, Exists, OnDisk, BeforeMove, AfterSave
    <3>4. QED
      BY <2>1, <2>2, <3>2, <3>3 DEF OwnArchive
  <2>5. QED
    BY <2>3, <2>4
<1>4. QED
  BY <1>1, <1>3, OwnStepIndInv

\* The steps of a handler that leave disk, record and journal alone.
LEMMA QuietIndInv ==
  ASSUME IndInv, NEW r \in Requests,
         \/ ReserveOld(r) \/ ReserveNew(r) \/ Check(r) \/ MoveRefused(r) \/ SaveRefused(r)
         \/ Unmap(r) \/ MapNew(r) \/ RefusedUnseen(r) \/ Disconnect(r)
  PROVE  Busy(r) /\ OwnStep(r) /\ IndInv' /\ UNCHANGED <<disk, record, journal, exposed>>
<1> USE NamesAssumption
<1>0. Busy(r)
  BY DEF Busy, At, ReserveOld, ReserveNew, Check, MoveRefused, SaveRefused, Unmap, MapNew,
         RefusedUnseen, Disconnect
<1>1. TypeOK /\ task[r].id \in Archives /\ task[r].old \in Names /\ task[r].new \in Names
  BY <1>0, AtWork
<1>k. UNCHANGED <<disk, record, journal, boot, crossed, exposed>>
  BY DEF store, counters, ReserveOld, ReserveNew, Check, MoveRefused, SaveRefused, Unmap,
         MapNew, RefusedUnseen, Disconnect
<1>2. CASE ReserveOld(r)
  <2>1. Goto(r, "new") /\ task[r].step = "old" /\ TypeOK'
    BY <1>1, <1>2, GotoTask DEF ReserveOld, At, TypeOK, Locks!Take, store, counters, Steps
  <2>2. QED
    BY <1>0, <1>k, <2>1, QuietStep DEF Steps, BeforeMove
<1>3. CASE ReserveNew(r)
  <2>1. Goto(r, "check") /\ task[r].step = "new" /\ TypeOK'
    BY <1>1, <1>3, GotoTask DEF ReserveNew, At, TypeOK, Locks!Take, store, counters, Steps
  <2>2. QED
    BY <1>0, <1>k, <2>1, QuietStep DEF Steps, BeforeMove
<1>4. CASE Check(r) /\ Leave(r)
  <2>1. TypeOK'
    BY <1>1, <1>4, LeaveTask DEF Check, TypeOK, store, counters
  <2>2. QED
    BY <1>0, <1>k, <1>4, <2>1, QuietStep
<1>5. CASE Check(r) /\ Goto(r, "journal") /\ UNCHANGED holders
  <2>1. task[r].step = "check" /\ TypeOK'
    BY <1>1, <1>5, GotoTask DEF Check, At, TypeOK, store, counters, Steps
  <2>2. QED
    BY <1>0, <1>k, <1>5, <2>1, QuietStep DEF Steps, BeforeMove
<1>6. CASE MoveRefused(r)
  <2>1. Goto(r, "undo") /\ task[r].step = "move" /\ TypeOK'
    BY <1>1, <1>6, GotoTask DEF MoveRefused, At, TypeOK, store, Steps
  <2>2. QED
    BY <1>0, <1>k, <2>1, QuietStep DEF Steps, BeforeMove
<1>7. CASE SaveRefused(r) \/ Disconnect(r)
  <2>1. Leave(r) /\ TypeOK'
    BY <1>1, <1>7, LeaveTask DEF SaveRefused, Disconnect, TypeOK, store
  <2>2. QED
    BY <1>0, <1>k, <2>1, QuietStep
<1>8. CASE Unmap(r)
  <2>1. Goto(r, "map") /\ task[r].step = "unmap" /\ TypeOK'
    BY <1>1, <1>8, GotoTask DEF Unmap, At, Map, TypeOK, counters, Steps
  <2>2. QED
    BY <1>0, <1>k, <2>1, QuietStep DEF Steps, AfterSave
<1>9. CASE MapNew(r)
  <2>1. Goto(r, "clear") /\ task[r].step = "map" /\ TypeOK'
    BY <1>1, <1>9, GotoTask DEF MapNew, At, Map, TypeOK, counters, Steps
  <2>2. QED
    BY <1>0, <1>k, <2>1, QuietStep DEF Steps, AfterSave
<1>10. CASE RefusedUnseen(r)
  <2>1. CASE Leave(r)
    <3>1. TypeOK'
      BY <1>1, <1>10, <2>1, LeaveTask DEF RefusedUnseen, TypeOK, store
    <3>2. QED
      BY <1>0, <1>k, <2>1, <3>1, QuietStep
  <2>2. ASSUME NEW st \in {"map", "clear"}, Goto(r, st), UNCHANGED holders,
               task[r].step \in {"unmap", "map"}
        PROVE  OwnStep(r) /\ IndInv'
    <3>1. st \in Steps
      BY DEF Steps
    <3>2. TypeOK'
      BY <1>1, <1>10, <2>2, <3>1, GotoTask DEF RefusedUnseen, TypeOK, store
    <3>3. QED
      BY <1>0, <1>k, <2>2, <3>1, <3>2, QuietStep DEF AfterSave, BeforeMove
  <2>3. QED
    BY <1>0, <1>k, <1>10, <2>1, <2>2 DEF RefusedUnseen
<1>11. QED
  BY <1>0, <1>k, <1>2, <1>3, <1>4, <1>5, <1>6, <1>7, <1>8, <1>9, <1>10 DEF Check

\* The entry is written, or refused, before the file moves.
LEMMA JournalIndInv ==
  ASSUME IndInv, NEW r \in Requests, Journal(r) \/ JournalRefused(r)
  PROVE  Busy(r) /\ OwnStep(r) /\ IndInv'
<1> USE NamesAssumption DEF Journal, JournalRefused, counters, store
<1>0. Busy(r) /\ task[r].step = "journal" /\ Goto(r, "move")
  BY DEF Busy, At
<1>1. PICK id : id = task[r].id
  OBVIOUS
<1>2. /\ TypeOK /\ id \in Archives /\ task[r].old \in Names /\ task[r].new \in Names
      /\ id \notin crossed => RequestKnows(r)
  BY <1>0, <1>1, AtWork
<1>3. PICK entry \in Entries : entry = [old |-> task[r].old, new |-> task[r].new]
  BY <1>2 DEF Entries
<1>4. /\ task' \in [Requests -> Tasks] /\ task'[r].step = "move"
      /\ task'[r].id = id /\ task'[r].old = task[r].old /\ task'[r].new = task[r].new
      /\ \A q \in Requests : q # r => task'[q] = task[q]
  BY <1>0, <1>1, <1>2, GotoTask DEF Steps
<1>5. entry.old = task[r].old /\ entry.new = task[r].new /\ entry # Nothing
  BY <1>3
<1>6. /\ \A i \in Archives : i # id =>
            journal'[i] = journal[i] /\ (i \in exposed' <=> i \in exposed)
      /\ \/ journal'[id] = entry /\ exposed' = exposed
         \/ journal'[id] = journal[id] /\ id \in exposed'
      /\ UNCHANGED <<disk, record, boot, crossed>>
  BY <1>1, <1>2, <1>3 DEF TypeOK
<1>7. TypeOK'
  BY <1>1, <1>2, <1>3, <1>4 DEF TypeOK
<1>8. OwnStep(r)
  BY <1>0, <1>1, <1>2, <1>4, <1>5, <1>6 DEF OwnStep, BeforeMove
<1>9. OwnArchive(r, id)
  <2> SUFFICES ASSUME id \notin crossed
               PROVE  /\ RequestKnows(r)'
                      /\ id \notin exposed' => View(id)' # Nothing /\ disk'[View(id)'] = id
                      /\ journal'[id] # Nothing => disk'[journal'[id].new] \in {Nothing, id}
    BY DEF OwnArchive
  <2>1. /\ journal[id] = Nothing /\ ~OnDisk(task[r].new) /\ disk[task[r].old] = id
        /\ record[id].file = task[r].old /\ Exists(id)
    BY <1>0, <1>1, <1>2 DEF RequestKnows, BeforeMove
  <2>2. RequestKnows(r)'
    BY <1>1, <1>3, <1>4, <1>5, <1>6, <2>1
       DEF RequestKnows, Exists, OnDisk, BeforeMove, AfterSave
  <2>3. disk'[task[r].new] = Nothing
    BY <1>6, <2>1 DEF OnDisk
  <2>4. View(id)' = record[id].file
    BY <1>5, <1>6, <2>1, <2>3 DEF View, Exists, OnDisk
  <2>5. QED
    BY <1>2, <1>5, <1>6, <2>1, <2>2, <2>3, <2>4
<1>10. QED
  BY <1>0, <1>1, <1>7, <1>8, <1>9, OwnStepIndInv

\* What a move does with the directory.
LEMMA MoveStep ==
  ASSUME IndInv, NEW r \in Requests, Move(r), NEW id, NEW old, NEW new,
         id = task[r].id, old = task[r].old, new = task[r].new
  PROVE  /\ TypeOK /\ TypeOK' /\ Busy(r) /\ OwnStep(r) /\ task[r].step = "move"
         /\ id \in Archives /\ old \in Names /\ new \in Names /\ old # new
         /\ UNCHANGED <<record, filemap, journal, exposed, doubtful>>
         /\ task' \in [Requests -> Tasks]
         /\ task'[r].id = id /\ task'[r].old = old /\ task'[r].new = new
         /\ id \notin crossed =>
              /\ RequestKnows(r)
              /\ disk[old] = id /\ disk[new] = Nothing /\ record[id].file = old
              /\ disk'[old] = Nothing /\ disk'[new] = id
              /\ \A n \in Names \ {old, new} : disk'[n] = disk[n]
              /\ task'[r].step = "save"
         /\ task'[r].step \in {"save", "undo"}
<1> USE NamesAssumption DEF Move
<1>1. Busy(r) /\ task[r].step = "move"
  BY DEF At, Busy
<1>2. /\ TypeOK /\ id \in Archives /\ old \in Names /\ new \in Names /\ old # new
      /\ id \notin crossed => RequestKnows(r)
  BY <1>1, AtWork
<1>3. PICK st \in {"save", "undo"} : Goto(r, st) /\ (st = "save" <=> OnDisk(old))
  OBVIOUS
<1>4. /\ task' \in [Requests -> Tasks] /\ task'[r].step = st
      /\ task'[r].id = id /\ task'[r].old = old /\ task'[r].new = new
      /\ \A q \in Requests : q # r => task'[q] = task[q]
  BY <1>2, <1>3, GotoTask DEF Steps
<1>5. disk' \in [Names -> Archives \union {Nothing}]
  BY <1>2 DEF TypeOK
<1>6. TypeOK'
  BY <1>2, <1>4, <1>5 DEF TypeOK, counters
<1>7. \/ disk' = disk
      \/ /\ disk'[old] = Nothing /\ disk'[new] = disk[old]
         /\ \A n \in Names \ {old, new} : disk'[n] = disk[n]
  BY <1>2 DEF TypeOK
<1>8. Claims(r, old) /\ Claims(r, new)
  BY <1>1 DEF Claims, BeforeMove
<1>9. OwnStep(r)
  <2>1. \A n \in Names : disk'[n] # disk[n] =>
          /\ Claims(r, n)
          /\ disk'[n] = Nothing \/ \E m \in Names : Claims(r, m) /\ disk[m] = disk'[n]
    BY <1>2, <1>7, <1>8
  <2>2. QED
    BY <1>1, <1>4, <2>1 DEF OwnStep, BeforeMove
<1>10. id \notin crossed =>
         /\ disk[old] = id /\ disk[new] = Nothing /\ record[id].file = old
         /\ disk'[old] = Nothing /\ disk'[new] = id
         /\ \A n \in Names \ {old, new} : disk'[n] = disk[n]
         /\ task'[r].step = "save"
  <2> SUFFICES ASSUME id \notin crossed
               PROVE  /\ disk[old] = id /\ disk[new] = Nothing /\ record[id].file = old
                      /\ disk'[old] = Nothing /\ disk'[new] = id
                      /\ \A n \in Names \ {old, new} : disk'[n] = disk[n]
                      /\ task'[r].step = "save"
    OBVIOUS
  <2>1. disk[old] = id /\ disk[new] = Nothing /\ record[id].file = old /\ OnDisk(old)
    BY <1>1, <1>2 DEF RequestKnows, BeforeMove, OnDisk
  <2>2. disk' = [disk EXCEPT ![old] = Nothing, ![new] = disk[old]]
    BY <2>1
  <2>3. QED
    BY <1>2, <1>3, <1>4, <2>1, <2>2 DEF TypeOK
<1>11. QED
  BY <1>1, <1>2, <1>3, <1>4, <1>6, <1>9, <1>10

\* The file moves.
LEMMA MoveIndInv ==
  ASSUME IndInv, NEW r \in Requests, Move(r)
  PROVE  IndInv'
<1>1. PICK id, old, new : id = task[r].id /\ old = task[r].old /\ new = task[r].new
  OBVIOUS
<1>2. OwnArchive(r, id)
  <2> SUFFICES ASSUME id \notin crossed
               PROVE  /\ RequestKnows(r)'
                      /\ id \notin exposed' => View(id)' # Nothing /\ disk'[View(id)'] = id
                      /\ journal'[id] # Nothing => disk'[journal'[id].new] \in {Nothing, id}
    BY DEF OwnArchive
  <2>1. /\ RequestKnows(r) /\ task[r].step = "move" /\ task'[r].step = "save"
        /\ task'[r].id = id /\ task'[r].old = old /\ task'[r].new = new
        /\ disk'[old] = Nothing /\ disk'[new] = id /\ id \in Archives
        /\ UNCHANGED <<record, journal, exposed>>
    BY <1>1, MoveStep
  <2>2. RequestKnows(r)'
    BY <1>1, <2>1 DEF RequestKnows, Exists, OnDisk, BeforeMove, AfterSave
  <2>3. /\ Exists(id) /\ journal[id] \in {Nothing, [old |-> old, new |-> new]}
        /\ journal[id] = Nothing => id \in exposed
    BY <1>1, <2>1 DEF RequestKnows
  <2>4. id \notin exposed => View(id)' = new
    BY <2>1, <2>3, NamesAssumption DEF View, Exists, OnDisk
  <2>5. QED
    BY <1>1, <2>1, <2>2, <2>3, <2>4, MoveStep, NamesAssumption
<1>3. QED
  BY <1>1, <1>2, MoveStep, OwnStepIndInv

\* The file never moved: the entry is taken back.  The archive has been renamed, saved
\* and mapped: the entry is done with.
LEMMA TakeBackIndInv ==
  ASSUME IndInv, NEW r \in Requests, Undo(r) \/ Clear(r), NEW id, id = task[r].id
  PROVE  /\ Busy(r) /\ OwnStep(r) /\ IndInv' /\ id \in Archives
         /\ id \notin crossed => View(id)' = View(id)
<1> USE NamesAssumption DEF Undo, Clear, counters
<1>0. Busy(r) /\ Leave(r) /\ task[r].step \in {"undo", "clear"}
  BY DEF Busy, At
<1>1. TypeOK /\ id \in Archives /\ (id \notin crossed => RequestKnows(r))
  BY <1>0, AtWork
<1>2. /\ task' \in [Requests -> Tasks] /\ holders' \in [Names -> SUBSET Requests]
      /\ task'[r].step = "idle" /\ \A q \in Requests : q # r => task'[q] = task[q]
  BY <1>0, <1>1, LeaveTask
<1>3. /\ journal' \in [Archives -> Entries \union {Nothing}]
      /\ journal'[id] = Nothing /\ \A i \in Archives : i # id => journal'[i] = journal[i]
      /\ UNCHANGED <<disk, record, boot, crossed>>
      /\ exposed' \subseteq exposed /\ \A i \in Archives : i # id /\ i \in exposed => i \in exposed'
  BY <1>1 DEF TypeOK
<1>4. TypeOK'
  BY <1>1, <1>2, <1>3 DEF TypeOK
<1>5. OwnStep(r)
  BY <1>2, <1>3 DEF OwnStep
<1>6. ASSUME id \notin crossed
      PROVE  View(id)' = View(id) /\ disk[View(id)] = id /\ View(id) # Nothing
  <2>1. /\ disk[record[id].file] = id /\ record[id].file \in Names /\ Exists(id)
        /\ \/ ~OnDisk(task[r].new) \/ record[id].file = task[r].new
        /\ journal[id] \in {Nothing, [old |-> task[r].old, new |-> task[r].new]}
    BY <1>0, <1>1, <1>6, AtWork DEF RequestKnows, BeforeMove, AfterSave
  <2>2. View(id) = record[id].file /\ View(id)' = record[id].file
    BY <1>3, <2>1 DEF View, Exists
  <2>3. QED
    BY <2>1, <2>2
<1>7. OwnArchive(r, id)
  BY <1>2, <1>3, <1>6 DEF OwnArchive
<1>8. QED
  BY <1>0, <1>1, <1>4, <1>5, <1>6, <1>7, OwnStepIndInv

\* The record follows the file.
LEMMA SaveIndInv ==
  ASSUME IndInv, NEW r \in Requests, Save(r), NEW id, NEW new, id = task[r].id, new = task[r].new
  PROVE  /\ Busy(r) /\ OwnStep(r) /\ IndInv' /\ id \in Archives /\ new \in Names
         /\ id \notin crossed => View(id)' = new /\ RequestKnows(r)
<1> USE NamesAssumption DEF Save, counters
<1>0. Busy(r) /\ Goto(r, "unmap") /\ task[r].step = "save"
  BY DEF Busy, At
<1>1. TypeOK /\ id \in Archives /\ new \in Names /\ (id \notin crossed => RequestKnows(r))
  BY <1>0, AtWork
<1>2. /\ task' \in [Requests -> Tasks] /\ task'[r].step = "unmap"
      /\ task'[r].id = id /\ task'[r].old = task[r].old /\ task'[r].new = new
      /\ \A q \in Requests : q # r => task'[q] = task[q]
  BY <1>0, <1>1, GotoTask DEF Steps
<1>3. PICK saved \in Records : saved = [file |-> new, name |-> Stem[new]]
  BY <1>1 DEF Records, Stems
<1>4. /\ record'[id] = saved /\ saved.file = new /\ saved # Nothing
      /\ \A i \in Archives : i # id => record'[i] = record[i]
      /\ record' \in [Archives -> Records \union {Nothing}]
      /\ UNCHANGED <<disk, journal, boot, crossed>>
      /\ exposed' = exposed \ {id}
  BY <1>1, <1>3 DEF TypeOK
<1>5. TypeOK'
  BY <1>1, <1>2, <1>4 DEF TypeOK
<1>6. OwnStep(r)
  BY <1>2, <1>4 DEF OwnStep, BeforeMove
<1>7. ASSUME id \notin crossed
      PROVE  View(id)' = new /\ disk[new] = id /\ RequestKnows(r)'
             /\ (journal[id] # Nothing => journal[id].new = new)
  <2>1. /\ journal[id] \in {Nothing, [old |-> task[r].old, new |-> new]} /\ disk[new] = id
    BY <1>0, <1>1, <1>7 DEF RequestKnows
  <2>2. Exists(id)' /\ record'[id].file = new /\ journal'[id] = journal[id]
    BY <1>4 DEF Exists
  <2>3. View(id)' = new
    BY <2>1, <2>2 DEF View
  <2>4. RequestKnows(r)'
    BY <1>2, <1>4, <2>1, <2>2 DEF RequestKnows, BeforeMove, AfterSave
  <2>5. QED
    BY <2>1, <2>3, <2>4
<1>8. OwnArchive(r, id)
  BY <1>1, <1>4, <1>7 DEF OwnArchive
<1>9. QED
  BY <1>0, <1>1, <1>5, <1>6, <1>7, <1>8, OwnStepIndInv

\* A rename begins: whatever it crosses is crossed from then on.
LEMMA StartRenameIndInv ==
  ASSUME IndInv, NEW r \in Requests, NEW i \in Archives, NEW n \in Names, StartRename(r, i, n)
  PROVE  /\ IndInv' /\ crossed \subseteq crossed' /\ crossed' \subseteq Archives
         /\ \A j \in Archives : View(j)' = View(j)
<1> USE NamesAssumption DEF StartRename
<1>0. TypeOK /\ EveryFileIsFound /\ RequestsKnow /\ RequestsApart /\ task[r].step = "idle" /\ Up
  BY DEF IndInv, At
<1>1. UNCHANGED <<disk, record, journal, boot, exposed>>
  BY DEF store
<1>2. PICK old \in Names : old = record[i].file /\ old # n /\ Exists(i)
  BY <1>0 DEF TypeOK, Records, Exists
<1>3. PICK new \in Tasks : new = [step |-> "old", id |-> i, old |-> old, new |-> n]
  BY DEF Tasks, Steps
<1>4. task'[r] = new /\ \A q \in Requests : q # r => task'[q] = task[q]
  BY <1>0, <1>2, <1>3 DEF TypeOK
<1>5. new.step = "old" /\ new.id = i /\ new.old = old /\ new.new = n
  BY <1>3
<1>6. /\ crossed \subseteq crossed' /\ crossed' \subseteq Archives
      /\ Careful(i, n) \/ {i} \union Others(i, n) \subseteq crossed'
      /\ Others(i, n) # {} => {i} \union Others(i, n) \subseteq crossed'
  BY <1>0 DEF TypeOK, Others, Careful
<1>7. TypeOK'
  <2>1. task' = [task EXCEPT ![r] = new]
    BY <1>2, <1>3
  <2>2. task' \in [Requests -> Tasks]
    BY <1>0, <2>1 DEF TypeOK
  <2>3. renames' \in 0..MaxRenames
    BY <1>0 DEF TypeOK
  <2>4. QED
    BY <1>0, <1>6, <2>2, <2>3 DEF TypeOK, store
<1>8. \A j \in Archives : View(j)' = View(j)
  BY <1>1 DEF View, Exists, OnDisk
<1>9. EveryFileIsFound'
  BY <1>0, <1>1, <1>6, <1>8 DEF EveryFileIsFound
<1>10. JournalTrue' /\ StartupKnows'
  BY <1>0, <1>1, <1>6 DEF IndInv, JournalTrue, StartupKnows, Up
<1>11. RequestsKnow'
  <2> SUFFICES ASSUME NEW q \in Requests, Busy(q)'
               PROVE  /\ Up' /\ task'[q].id \in Archives
                      /\ task'[q].old \in Names /\ task'[q].new \in Names
                      /\ task'[q].old # task'[q].new
                      /\ task'[q].id \notin crossed' => RequestKnows(q)'
    BY DEF RequestsKnow
  <2>1. Up'
    BY <1>0, <1>1 DEF Up
  <2>2. CASE q # r
    <3>1. Busy(q) /\ task'[q] = task[q]
      BY <1>4, <2>2 DEF Busy
    <3>2. RequestKnows(q) => RequestKnows(q)'
      BY <1>1, <3>1 DEF RequestKnows, Exists, OnDisk
    <3>3. QED
      BY <1>0, <1>6, <2>1, <3>1, <3>2 DEF RequestsKnow
  <2>3. CASE q = r
    <3>1. ASSUME i \notin crossed'
          PROVE  RequestKnows(r)'
      <4>1. Careful(i, n) /\ i \notin crossed
        BY <1>6, <3>1
      <4>2. journal[i] = Nothing /\ i \notin exposed /\ ~OnDisk(n)
        BY <4>1 DEF Careful
      <4>3. View(i) = old /\ disk[old] = i
        BY <1>0, <1>2, <4>1, <4>2 DEF EveryFileIsFound, View
      <4>4. QED
        BY <1>1, <1>2, <1>4, <1>5, <4>2, <4>3
           DEF RequestKnows, Exists, OnDisk, BeforeMove, AfterSave
    <3>2. QED
      BY <1>2, <1>4, <1>5, <2>1, <2>3, <3>1
  <2>4. QED
    BY <2>2, <2>3
<1>12. RequestsApart'
  <2>1. ASSUME NEW q \in Requests, NEW s \in Requests, Busy(q)', Busy(s)', q # s,
               task'[q].id = task'[s].id
        PROVE  task'[q].id \in crossed'
    <3>1. CASE q # r /\ s # r
      BY <1>0, <1>4, <1>6, <2>1, <3>1 DEF RequestsApart, Busy
    <3>2. CASE q = r \/ s = r
      <4>1. PICK p \in Requests : task[p].id = i
        BY <1>4, <1>5, <2>1, <3>2
      <4>2. i \in crossed'
        BY <1>6, <4>1 DEF Careful
      <4>3. QED
        BY <1>4, <1>5, <2>1, <3>2, <4>2
    <3>3. QED
      BY <3>1, <3>2
  <2>2. \A q \in Requests, m \in Names : q # r => (Claims(q, m)' <=> Claims(q, m))
    BY <1>4 DEF Claims, Busy
  <2>3. \A m \in Names : Claims(r, m)' => m \in {old, n}
    BY <1>4, <1>5 DEF Claims
  <2>4. ASSUME NEW j \in Archives, NEW m \in Names, Stake(j, m)'
        PROVE  Stake(j, m) \/ (j = i /\ m \in {old, n})
    <3>1. CASE \E q \in Requests : task'[q].id = j /\ Claims(q, m)'
      <4>1. PICK q \in Requests : task'[q].id = j /\ Claims(q, m)'
        BY <3>1
      <4>2. QED
        BY <1>4, <1>5, <2>2, <2>3, <4>1 DEF Stake
    <3>2. CASE disk'[m] = j \/ (journal'[j] # Nothing /\ journal'[j].new = m)
      BY <1>1, <3>2 DEF Stake
    <3>3. QED
      BY <2>4, <3>1, <3>2 DEF Stake
  <2>5. \A j \in Archives, m \in {old, n} : Stake(j, m) /\ j # i => {i, j} \subseteq crossed'
    BY <1>2, <1>6 DEF Others
  <2>6. ASSUME NEW j \in Archives, NEW q \in Requests, NEW m \in Names,
               Claims(q, m)', Stake(j, m)', j # task'[q].id
        PROVE  {j, task'[q].id} \subseteq crossed'
    <3>1. CASE q = r
      BY <1>4, <1>5, <2>3, <2>4, <2>5, <2>6, <3>1
    <3>2. CASE q # r
      <4>1. Claims(q, m) /\ Busy(q) /\ task'[q].id = task[q].id
        BY <1>4, <2>2, <2>6, <3>2 DEF Claims
      <4>2. CASE Stake(j, m)
        BY <1>0, <1>6, <2>6, <4>1, <4>2 DEF RequestsApart
      <4>3. CASE j = i /\ m \in {old, n}
        <5>1. task[q].id \in Archives /\ Stake(task[q].id, m)
          BY <1>0, <4>1 DEF RequestsKnow, Stake
        <5>2. QED
          BY <2>5, <2>6, <4>1, <4>3, <5>1
      <4>4. QED
        BY <2>4, <2>6, <4>2, <4>3
    <3>3. QED
      BY <3>1, <3>2
  <2>7. QED
    BY <2>1, <2>6 DEF RequestsApart
<1>13. QED
  BY <1>6, <1>7, <1>8, <1>9, <1>10, <1>11, <1>12 DEF IndInv

-----------------------------------------------------------------------------
(* Crash and startup *)

\* While the process is down or starting no request is at work.
LEMMA NobodyAtWork ==
  ASSUME IndInv, ~Up
  PROVE  \A q \in Requests : ~Busy(q)
BY DEF IndInv, RequestsKnow

\* Nothing is known of requests where none is at work.
LEMMA NobodyKnows ==
  ASSUME \A q \in Requests : ~Busy(q)'
  PROVE  RequestsKnow' /\ RequestsApart'
BY DEF RequestsKnow, RequestsApart, Claims

\* A crash leaves what is on disk and in Redis.
LEMMA CrashIndInv ==
  ASSUME IndInv, Crash
  PROVE  IndInv'
<1> USE NamesAssumption DEF Crash, store
<1>1. TypeOK'
  BY DEF IndInv, TypeOK, Running, Boots, BootSteps, Idle, Tasks, Steps
<1>2. boot'.step = "down" /\ boot'.left = {}
  BY DEF Running
<1>3. EveryFileIsFound' /\ JournalTrue'
  BY DEF IndInv, EveryFileIsFound, View, Exists, OnDisk, JournalTrue
<1>4. StartupKnows'
  BY <1>2 DEF StartupKnows
<1>5. RequestsKnow' /\ RequestsApart'
  BY NobodyKnows DEF Busy, Idle
<1>6. QED
  BY <1>1, <1>3, <1>4, <1>5 DEF IndInv

\* Startup changes neither files nor requests.
LEMMA StartupKeeps ==
  ASSUME IndInv, ~Up, UNCHANGED <<task, disk, journal, crossed>>
  PROVE  RequestsKnow' /\ RequestsApart' /\ JournalTrue'
<1>1. RequestsKnow' /\ RequestsApart'
  BY NobodyAtWork, NobodyKnows DEF Busy
<1>2. JournalTrue'
  BY DEF IndInv, JournalTrue
<1>3. QED
  BY <1>1, <1>2

\* The steps of startup that change neither record nor journal.
StartupQuiet ==
  \/ Begin \/ (\E i \in Archives : Resolve(i)) \/ ResolveUnmap \/ ResolveMap \/ Resolved
  \/ BeginRefused \/ (\E i \in Archives : ResolveUnread(i)) \/ ResolveRefused
  \/ ResolveRefusedUnseen

\* They show every archive where it was.
LEMMA StartupQuietIndInv ==
  ASSUME IndInv, StartupQuiet
  PROVE  /\ IndInv' /\ \A i \in Archives : View(i)' = View(i)
         /\ exposed \subseteq exposed' /\ crossed' = crossed
<1> USE NamesAssumption
           DEF Begin, Resolve, ResolveUnmap, ResolveMap, Resolved, BeginRefused, ResolveUnread,
               ResolveRefused, ResolveRefusedUnseen, BootAt
<1>0. /\ TypeOK /\ EveryFileIsFound /\ StartupKnows /\ ~Up
      /\ UNCHANGED <<task, disk, journal, record, holders, crossed>> /\ exposed \subseteq exposed'
  BY DEF IndInv, Up, store, StartupQuiet
<1>1. RequestsKnow' /\ RequestsApart' /\ JournalTrue'
  BY <1>0, StartupKeeps
<1>2. \A i \in Archives : View(i)' = View(i)
  BY <1>0 DEF View, Exists, OnDisk
<1>3. EveryFileIsFound'
  BY <1>0, <1>2 DEF EveryFileIsFound
<1>4. \A i \in Archives : Applied(i)' <=> Applied(i)
  BY <1>0 DEF Applied, Exists, OnDisk
<1>5. TypeOK' /\ StartupKnows'
  <2>1. CASE Begin
    <3>1. TypeOK'
      BY <1>0, <2>1 DEF TypeOK, Boots, BootSteps, store, counters
    <3>2. StartupKnows'
      BY <1>0, <2>1 DEF StartupKnows
    <3>3. QED
      BY <3>1, <3>2
  <2>2. ASSUME NEW i \in Archives, Resolve(i)
        PROVE  TypeOK' /\ StartupKnows'
    <3>1. PICK st \in {"save", "clear"} :
            /\ boot' = [step |-> st, id |-> i, left |-> boot.left \ {i}]
            /\ st = "save" <=> OnDisk(journal[i].new) /\ Exists(i)
      BY <2>2
    <3>2. boot'.step = st /\ boot'.id = i /\ boot'.left = boot.left \ {i} /\ exposed' = exposed
      BY <2>2, <3>1
    <3>3. TypeOK'
      BY <1>0, <2>2, <3>1 DEF TypeOK, Boots, BootSteps, store, counters
    <3>4. st = "clear" => Applied(i)
      BY <3>1 DEF Applied
    <3>5. StartupKnows'
      BY <1>0, <1>4, <2>2, <3>1, <3>2, <3>4 DEF StartupKnows, Entry, Exists, OnDisk, TypeOK, Boots
    <3>6. QED
      BY <3>3, <3>5
  <2>3. ASSUME NEW st \in BootSteps, BootGoto(st),
               \/ ResolveUnmap \/ ResolveMap \/ Resolved \/ ResolveRefused \/ ResolveRefusedUnseen
        PROVE  TypeOK' /\ StartupKnows'
    <3>1. boot' \in Boots /\ boot'.step = st /\ boot'.id = boot.id /\ boot'.left = boot.left
      BY <1>0, <2>3, BootGotoBoot
    <3>2. boot.step \notin {"resolve", "repair"} => boot.id \in Archives /\ Entry \in Entries
      BY <1>0, <2>3 DEF StartupKnows, Entry, TypeOK
    <3>3. filemap' \in [Names -> Archives \union {Nothing}] /\ doubtful' \subseteq Names
      BY <1>0, <2>3, <3>2 DEF TypeOK, Map, Entries, store
    <3>4. TypeOK'
      BY <1>0, <2>3, <3>1, <3>2, <3>3 DEF TypeOK, counters
    <3>5. boot.step \in {"unmap", "map"} => Applied(boot.id)
      BY <1>0 DEF StartupKnows, Applied, Entry
    <3>6. StartupKnows'
      <4>1. CASE ResolveUnmap
        <5>1. boot'.step = "map" /\ boot.step = "unmap" /\ exposed' = exposed
          BY <1>0, <4>1, BootGotoBoot DEF BootSteps
        <5>2. QED
          BY <1>0, <1>4, <3>1, <5>1 DEF StartupKnows, Entry, Exists, OnDisk
      <4>2. CASE ResolveMap
        <5>1. boot'.step = "clear" /\ boot.step = "map" /\ exposed' = exposed
          BY <1>0, <4>2, BootGotoBoot DEF BootSteps
        <5>2. QED
          BY <1>0, <1>4, <3>1, <3>5, <5>1 DEF StartupKnows, Entry, Exists, OnDisk
      <4>3. CASE Resolved
        <5>1. boot'.step = "repair" /\ boot.step = "resolve" /\ boot.left = {} /\ exposed' = exposed
          BY <1>0, <4>3, BootGotoBoot DEF BootSteps
        <5>2. QED
          BY <1>0, <1>4, <3>1, <5>1 DEF StartupKnows
      <4>4. CASE ResolveRefused
        <5>1. /\ boot'.step = "resolve" /\ boot.step = "save"
              /\ exposed' = exposed \union {boot.id}
          BY <1>0, <4>4, BootGotoBoot DEF BootSteps
        <5>2. QED
          BY <1>0, <1>4, <3>1, <5>1 DEF StartupKnows
      <4>5. CASE ResolveRefusedUnseen
        <5>1. /\ boot.step = "unmap" => boot'.step = "map"
              /\ boot.step = "map" => boot'.step = "clear"
              /\ boot.step = "clear" => boot'.step = "resolve"
              /\ boot.step \in {"unmap", "map", "clear"} /\ exposed' = exposed
          BY <1>0, <4>5, BootGotoBoot DEF BootSteps
        <5>2. QED
          BY <1>0, <1>4, <3>1, <3>5, <5>1 DEF StartupKnows, Entry, Exists, OnDisk
      <4>6. QED
        BY <2>3, <4>1, <4>2, <4>3, <4>4, <4>5
    <3>7. QED
      BY <3>4, <3>6
  <2>4. CASE BeginRefused
    <3>1. boot' \in Boots /\ boot'.step = "repair" /\ boot'.left = {}
      BY <2>4 DEF Running, Boots, BootSteps
    <3>2. exposed' \subseteq Archives
      BY <1>0, <2>4 DEF TypeOK
    <3>3. TypeOK'
      BY <1>0, <2>4, <3>1, <3>2 DEF TypeOK, store
    <3>4. \A i \in Archives \ exposed' : journal[i] = Nothing
      BY <2>4
    <3>5. StartupKnows'
      BY <1>0, <3>1, <3>4 DEF StartupKnows
    <3>6. QED
      BY <3>3, <3>5
  <2>5. ASSUME NEW i \in Archives, ResolveUnread(i)
        PROVE  TypeOK' /\ StartupKnows'
    <3>1. /\ boot' \in Boots /\ boot'.step = "clear" /\ boot'.id = i
          /\ boot'.left = boot.left \ {i} /\ exposed' = exposed \union {i}
      BY <1>0, <2>5 DEF Boots, BootSteps, TypeOK
    <3>2. TypeOK'
      BY <1>0, <2>5, <3>1 DEF TypeOK, store
    <3>3. StartupKnows'
      BY <1>0, <1>4, <2>5, <3>1 DEF StartupKnows, TypeOK, Boots
    <3>4. QED
      BY <3>2, <3>3
  <2>6. QED
    <3>1. ASSUME ResolveUnmap \/ ResolveMap \/ Resolved \/ ResolveRefused \/ ResolveRefusedUnseen
          PROVE  \E st \in BootSteps : BootGoto(st)
      BY <3>1 DEF BootSteps
    <3>2. QED
      BY <2>1, <2>2, <2>3, <2>4, <2>5, <3>1 DEF StartupQuiet
<1>6. QED
  BY <1>0, <1>1, <1>2, <1>3, <1>5 DEF IndInv

\* The record follows the file that startup found under the new name.
LEMMA ResolveSaveIndInv ==
  ASSUME IndInv, ResolveSave
  PROVE  IndInv' /\ \A i \in Archives : View(i)' = View(i)
<1> USE NamesAssumption DEF ResolveSave, BootAt, counters
<1> DEFINE saved == [file |-> Entry.new, name |-> Stem[Entry.new]]
<1>0. TypeOK /\ EveryFileIsFound /\ StartupKnows /\ ~Up
  BY DEF IndInv, Up
<1>1. PICK b : b = boot.id
  OBVIOUS
<1>2. /\ b \in Archives \ boot.left /\ journal[b] \in Entries /\ journal[b] # Nothing
      /\ Exists(b) /\ OnDisk(journal[b].new) /\ Entry = journal[b]
  BY <1>0, <1>1 DEF StartupKnows, TypeOK, Entry
<1>3. saved \in Records /\ saved.file = journal[b].new /\ saved # Nothing
  BY <1>2 DEF Records, Stems, Entries
<1>4. /\ record'[b] = saved /\ \A i \in Archives : i # b => record'[i] = record[i]
      /\ record' \in [Archives -> Records \union {Nothing}]
  BY <1>0, <1>1, <1>2, <1>3 DEF TypeOK
<1> HIDE DEF saved
<1>5. boot' \in Boots /\ boot'.step = "unmap" /\ boot'.id = b /\ boot'.left = boot.left
  BY <1>0, <1>1, BootGotoBoot DEF BootSteps
<1>6. TypeOK'
  BY <1>0, <1>4, <1>5 DEF TypeOK
<1>7. \A i \in Archives : View(i)' = View(i)
  BY <1>2, <1>3, <1>4 DEF View, Exists, OnDisk
<1>8. EveryFileIsFound'
  BY <1>0, <1>7 DEF EveryFileIsFound
<1>9. Applied(b)' /\ \A i \in Archives : i # b => (Applied(i)' <=> Applied(i))
  BY <1>2, <1>3, <1>4 DEF Applied, Exists, OnDisk
<1>10. StartupKnows'
  <2>1. Exists(b)' /\ record'[b].file = journal[b].new /\ UNCHANGED <<disk, journal, exposed>>
    BY <1>3, <1>4 DEF Exists
  <2>2. QED
    BY <1>0, <1>1, <1>2, <1>5, <1>9, <2>1 DEF StartupKnows, Entry, OnDisk
<1>11. RequestsKnow' /\ RequestsApart' /\ JournalTrue'
  BY <1>0, StartupKeeps
<1>12. QED
  BY <1>6, <1>7, <1>8, <1>10, <1>11 DEF IndInv

\* The entry is done with: its archive is where its record says, or is exposed.
LEMMA ResolveClearIndInv ==
  ASSUME IndInv, ResolveClear
  PROVE  IndInv' /\ \A i \in Archives \ exposed : View(i)' = View(i)
<1> USE NamesAssumption DEF ResolveClear, BootAt, counters
<1>0. TypeOK /\ EveryFileIsFound /\ StartupKnows /\ ~Up
  BY DEF IndInv, Up
<1>1. PICK b : b = boot.id
  OBVIOUS
<1>2. b \in Archives \ boot.left /\ (b \notin exposed => Applied(b))
  BY <1>0, <1>1 DEF StartupKnows, Entry
<1>3. /\ journal' \in [Archives -> Entries \union {Nothing}]
      /\ journal'[b] = Nothing /\ \A i \in Archives : i # b => journal'[i] = journal[i]
  BY <1>0, <1>1, <1>2 DEF TypeOK
<1>4. boot' \in Boots /\ boot'.step = "resolve" /\ boot'.id = b /\ boot'.left = boot.left
  BY <1>0, <1>1, BootGotoBoot DEF BootSteps
<1>5. TypeOK'
  BY <1>0, <1>3, <1>4 DEF TypeOK
<1>6. \A i \in Archives \ exposed : View(i)' = View(i)
  BY <1>2, <1>3 DEF View, Applied, Exists, OnDisk
<1>7. EveryFileIsFound'
  BY <1>0, <1>6 DEF EveryFileIsFound
<1>8. StartupKnows'
  <2>1. \A i \in Archives : i # b => (Applied(i)' <=> Applied(i))
    BY <1>3 DEF Applied, Exists, OnDisk
  <2>2. QED
    BY <1>0, <1>1, <1>2, <1>3, <1>4, <2>1 DEF StartupKnows
<1>9. RequestsKnow' /\ RequestsApart'
  BY <1>0, NobodyAtWork, NobodyKnows DEF Busy
<1>10. JournalTrue'
  BY <1>3 DEF IndInv, JournalTrue
<1>11. QED
  BY <1>5, <1>6, <1>7, <1>8, <1>9, <1>10 DEF IndInv

\* When the repair comes, an archive that is not exposed or crossed is where its record
\* says: the repair has nothing to do with it.
LEMMA NotRepaired ==
  ASSUME IndInv, Repair, NEW i \in Archives \ (exposed \union crossed)
  PROVE  i \notin Zombies
<1>1. TypeOK /\ EveryFileIsFound /\ StartupKnows /\ boot.step = "repair"
  BY DEF IndInv, Repair, BootAt
<1>2. View(i) # Nothing /\ disk[View(i)] = i
  BY <1>1 DEF EveryFileIsFound
<1>3. Exists(i) /\ View(i) = record[i].file /\ record[i].file \in Names
  <2>1. Exists(i) /\ record[i] \in Records
    BY <1>1, <1>2 DEF View, TypeOK, Exists
  <2>2. journal[i] # Nothing => Applied(i)
    BY <1>1 DEF StartupKnows
  <2>3. QED
    BY <2>1, <2>2 DEF View, Applied, Records
<1>4. QED
  BY <1>2, <1>3, NamesAssumption DEF Zombies, OnDisk

\* The repair may change what is shown of the others only.
LEMMA RepairIndInv ==
  ASSUME IndInv, Repair
  PROVE  IndInv' /\ \A i \in Archives \ (exposed \union crossed) : View(i)' = View(i)
<1> USE NamesAssumption DEF Repair, BootAt, counters
<1>0. TypeOK /\ EveryFileIsFound /\ StartupKnows /\ ~Up
  BY DEF IndInv, Up
<1>1. \A i \in Archives \ (exposed \union crossed) : i \notin Doomed /\ i \notin Repairable
  BY NotRepaired DEF Doomed, Repairable
<1>2. ASSUME NEW i \in Archives
      PROVE  record'[i] \in Records \union {Nothing}
             /\ (i \notin Doomed /\ i \notin Repairable => record'[i] = record[i])
  <2>1. record[i] \in Records \union {Nothing}
    BY <1>0 DEF TypeOK
  <2>2. i \in Repairable => record[i] \in Records /\ record[i].name \in Names
    BY <2>1 DEF Repairable, Zombies, Exists
  <2>3. i \in Repairable => [record[i] EXCEPT !.file = record[i].name] \in Records
    BY <2>2 DEF Records
  <2>4. QED
    BY <2>1, <2>3 DEF RepairStore
<1>3. record' \in [Archives -> Records \union {Nothing}]
  BY <1>2 DEF RepairStore
<1>4. filemap' \in [Names -> Archives \union {Nothing}]
  <2>1. Repairable \subseteq Archives
    BY DEF Repairable, Zombies
  <2>2. QED
    BY <1>0, <2>1 DEF RepairStore, TypeOK
<1>5. boot' \in Boots /\ boot'.step = "up" /\ boot'.left = {}
  BY DEF Running, Boots, BootSteps
<1>6. TypeOK'
  BY <1>0, <1>3, <1>4, <1>5 DEF TypeOK
<1>7. \A i \in Archives \ (exposed \union crossed) : View(i)' = View(i)
  BY <1>1, <1>2 DEF View, Exists, OnDisk
<1>8. EveryFileIsFound'
  BY <1>0, <1>7 DEF EveryFileIsFound
<1>9. StartupKnows'
  BY <1>5 DEF StartupKnows
<1>10. RequestsKnow' /\ RequestsApart' /\ JournalTrue'
  BY <1>0, StartupKeeps
<1>11. QED
  BY <1>6, <1>7, <1>8, <1>9, <1>10 DEF IndInv

-----------------------------------------------------------------------------
(* The theorems *)

\* Every step preserves the invariant.
LEMMA NextIndInv == IndInv /\ [Next]_vars => IndInv'
<1> SUFFICES ASSUME IndInv, [Next]_vars
             PROVE  IndInv'
  OBVIOUS
<1>1. ASSUME NEW r \in Requests, Handle(r)
      PROVE  IndInv'
  BY <1>1, QuietIndInv, JournalIndInv, MoveIndInv, TakeBackIndInv, SaveIndInv DEF Handle
<1>2. ASSUME NEW r \in Requests, NEW i \in Archives, NEW n \in Names, StartRename(r, i, n)
      PROVE  IndInv'
  BY <1>2, StartRenameIndInv
<1>3. ASSUME NEW r \in Requests,
             \/ JournalRefused(r) \/ MoveRefused(r) \/ SaveRefused(r) \/ RefusedUnseen(r)
             \/ Disconnect(r)
      PROVE  IndInv'
  BY <1>3, QuietIndInv, JournalIndInv
<1>4. CASE Crash
  BY <1>4, CrashIndInv
<1>5. CASE StartupQuiet \/ Startup
  BY <1>5, StartupQuietIndInv, ResolveSaveIndInv, ResolveClearIndInv, RepairIndInv
     DEF Startup, StartupQuiet
<1>6. CASE UNCHANGED vars
  <2>1. UNCHANGED <<disk, record, filemap, journal, holders, task, boot, crossed, exposed, doubtful,
                    renames, errors, crashes>>
    BY <1>6 DEF vars, store, counters
  <2>2. TypeOK' /\ EveryFileIsFound' /\ JournalTrue'
    BY <2>1 DEF IndInv, TypeOK, EveryFileIsFound, View, Exists, OnDisk, JournalTrue
  <2>3. StartupKnows'
    BY <2>1 DEF IndInv, StartupKnows, Applied, Entry, Exists, OnDisk
  <2>4. RequestsKnow'
    BY <2>1 DEF IndInv, RequestsKnow, RequestKnows, Busy, Up, Exists, OnDisk
  <2>5. RequestsApart'
    BY <2>1 DEF IndInv, RequestsApart, Claims, Stake, Busy
  <2>6. QED
    BY <2>2, <2>3, <2>4, <2>5 DEF IndInv
<1>7. QED
  BY <1>1, <1>2, <1>3, <1>4, <1>5, <1>6 DEF Next, StartupQuiet

\* The invariant holds in every reachable state, whatever users ask for.
THEOREM SpecIndInv == Spec => []IndInv
BY InitIndInv, NextIndInv, PTL DEF Spec

\* The state has its types, startup's next step included.
THEOREM AlwaysTypeOK == Spec => []TypeOK
BY SpecIndInv, PTL DEF IndInv

\* At every moment, half-way renames and half-way startups included, each archive
\* has a record and its file is where the journal entry or else the record says, but
\* for archives whose rename Redis refused to journal or to resolve, and for those
\* whose renames crossed (archives.rs:1528-1535).
THEOREM AlwaysEveryFileIsFound == Spec => []EveryFileIsFound
BY SpecIndInv, PTL DEF IndInv

-----------------------------------------------------------------------------
(* What the filemap says *)

\* Nothing is mapped at first but files where they are.
LEMMA InitMappingInv == Init => MappingInv
BY DEF Init, MappingInv, MappingsExcused, MoversDoubt, Idle

\* A step that touches no mapping and takes back no excuse.
LEMMA ExcusesKept ==
  ASSUME TypeOK, MappingsExcused, UNCHANGED <<disk, filemap, journal>>,
         doubtful \subseteq doubtful', Suspect \subseteq Suspect',
         \A i \in Archives :
           Pending(i) => Pending(i)' \/ journal[i].old \in doubtful' \/ i \in Suspect'
  PROVE  MappingsExcused'
<1> SUFFICES ASSUME NEW n \in Names \ doubtful', NEW i, i = filemap[n],
                    i \notin {Nothing, disk[n]} \union Suspect'
             PROVE  Pending(i)' /\ journal[i].old = n
  BY DEF MappingsExcused
<1>1. Pending(i) /\ journal[i].old = n
  BY DEF MappingsExcused
<1>2. i \in Archives
  BY DEF TypeOK
<1>3. QED
  BY <1>1, <1>2

\* What is to be shown of the mappings of the request's own archive.
OwnMappings(r, i) ==
  i \notin crossed =>
    /\ \A n \in Names \ doubtful' : filemap'[n] = i =>
         disk'[n] = i \/ (Pending(i)' /\ journal'[i].old = n)
    /\ task'[r].step = "move" /\ journal'[i] = Nothing =>
         task[r].old \in doubtful' \/ filemap'[task[r].old] = Nothing

\* A step of a request that maps names to its own archive, or to none, and removes a
\* doubt only about a name that it maps.
LEMMA OwnStepMappingInv ==
  ASSUME IndInv, MappingInv, NEW r \in Requests, Busy(r), OwnStep(r),
         NEW id, id = task[r].id, OwnMappings(r, id),
         \A n \in Names :
           /\ filemap'[n] \in {filemap[n], Nothing} \/ (Claims(r, n) /\ filemap'[n] = id)
           /\ n \in doubtful =>
                n \in doubtful' \/ filemap'[n] = Nothing \/ (Claims(r, n) /\ filemap'[n] = id)
  PROVE  MappingInv'
<1> USE NamesAssumption
<1>1. TypeOK /\ id \in Archives /\ UNCHANGED <<boot, crossed>>
  BY AtWork DEF OwnStep
<1>2. \A q \in Requests : Busy(q)' => Busy(q) /\ task'[q].id = task[q].id
  BY DEF OwnStep, Busy
<1>3. Suspect \subseteq Suspect'
  <2> SUFFICES ASSUME NEW i \in exposed, \A q \in Requests : Busy(q) => task[q].id # i
               PROVE  i \in Suspect'
    BY <1>1 DEF Suspect
  <2>1. i \in exposed' /\ i # id
    BY <1>1 DEF OwnStep, TypeOK
  <2>2. QED
    BY <1>2, <2>1 DEF Suspect
<1>4. MappingsExcused'
  <2> SUFFICES ASSUME NEW n \in Names \ doubtful', NEW j, j = filemap'[n], j # Nothing,
                      j \notin Suspect'
               PROVE  j = disk'[n] \/ (Pending(j)' /\ journal'[j].old = n)
    BY DEF MappingsExcused
  <2>1. CASE j = id
    BY <1>1, <2>1 DEF OwnMappings, Suspect
  <2>2. CASE j # id
    <3>1. j = filemap[n] /\ n \notin doubtful /\ j \in Archives /\ j \notin crossed /\ j \notin Suspect
      BY <1>1, <1>3, <2>2 DEF TypeOK, Suspect
    <3>2. j = disk[n] \/ (Pending(j) /\ journal[j].old = n)
      BY <3>1 DEF MappingInv, MappingsExcused
    <3>3. CASE j = disk[n]
      <4>1. Stake(j, n)
        BY <3>3 DEF Stake
      <4>2. QED
        BY <2>2, <3>1, <3>3, <4>1, StakesStay
    <3>4. CASE Pending(j) /\ journal[j].old = n
      <4>1. journal'[j] = journal[j] /\ journal[j] # Nothing /\ journal[j].new \in Names
        BY <1>1, <2>2, <3>1, <3>4 DEF OwnStep, Pending, TypeOK, Entries
      <4>2. Stake(j, journal[j].new)
        BY <4>1 DEF Stake
      <4>3. disk'[journal[j].new] = disk[journal[j].new]
        BY <2>2, <3>1, <4>1, <4>2, StakesStay
      <4>4. \A q \in Requests : Busy(q)' /\ task'[q].id = j => Busy(q) /\ task'[q] = task[q]
        BY <1>2, <2>2 DEF OwnStep
      <4>5. Pending(j)'
        BY <1>1, <3>4, <4>1, <4>3, <4>4 DEF Pending
      <4>6. QED
        BY <3>4, <4>1, <4>5
    <3>5. QED
      BY <3>2, <3>3, <3>4
  <2>3. QED
    BY <2>1, <2>2
<1>5. MoversDoubt'
  <2> SUFFICES ASSUME NEW q \in Requests, task'[q].step = "move", task'[q].id \notin crossed,
                      journal'[task'[q].id] = Nothing
               PROVE  task'[q].old \in doubtful' \/ filemap'[task'[q].old] = Nothing
    BY <1>1 DEF MoversDoubt
  <2>1. CASE q = r
    <3>1. task'[r].id = id /\ task'[r].old = task[r].old
      BY <2>1 DEF OwnStep
    <3>2. QED
      BY <2>1, <3>1 DEF OwnMappings
  <2>2. CASE q # r
    <3>1. PICK t : t = task[q] /\ t = task'[q]
      BY <2>2 DEF OwnStep
    <3>2. Busy(q) /\ t.step = "move"
      BY <3>1 DEF Busy
    <3>3. t.id \in Archives /\ t.old \in Names /\ t.id # id /\ t.id \notin crossed
      BY <2>2, <3>1, <3>2, AtWork
    <3>4. journal[t.id] = Nothing
      BY <3>1, <3>3 DEF OwnStep
    <3>5. t.old \in doubtful \/ filemap[t.old] = Nothing
      BY <3>1, <3>2, <3>3, <3>4 DEF MappingInv, MoversDoubt
    <3>6. Stake(t.id, t.old)
      BY <3>1, <3>2 DEF Stake, Claims, BeforeMove
    <3>7. ~Claims(r, t.old)
      BY <3>3, <3>6, StakesStay
    <3>8. QED
      BY <3>1, <3>3, <3>5, <3>7
  <2>3. QED
    BY <2>1, <2>2
<1>6. QED
  BY <1>4, <1>5 DEF MappingInv

\* The request's own archive, before the step.
LEMMA OwnBefore ==
  ASSUME IndInv, MappingInv, NEW r \in Requests, Busy(r), NEW id, id = task[r].id, id \notin crossed
  PROVE  /\ TypeOK /\ RequestKnows(r)
         /\ \A n \in Names \ doubtful : filemap[n] = id =>
              disk[n] = id \/ (Pending(id) /\ journal[id].old = n)
         /\ \A q \in Requests : Busy(q) /\ task[q].id = id => q = r
<1>1. TypeOK /\ RequestKnows(r) /\ id \in Archives
  BY AtWork
<1>2. id \notin Suspect /\ id # Nothing
  BY <1>1, NamesAssumption DEF Suspect
<1>3. QED
  BY <1>1, <1>2, AtWork DEF MappingInv, MappingsExcused

\* The steps of a handler that touch neither disk nor filemap, nor the journal.
LEMMA QuietMappingInv ==
  ASSUME IndInv, MappingInv, NEW r \in Requests,
         \/ ReserveOld(r) \/ ReserveNew(r) \/ Check(r) \/ MoveRefused(r) \/ SaveRefused(r)
         \/ RefusedUnseen(r) \/ Disconnect(r)
  PROVE  MappingInv'
<1>1. PICK id : id = task[r].id
  OBVIOUS
<1>2. Busy(r) /\ OwnStep(r) /\ UNCHANGED <<disk, journal>>
  BY QuietIndInv
<1>3. TypeOK
  BY <1>2, AtWork
<1>4. UNCHANGED <<filemap, boot>> /\ doubtful \subseteq doubtful'
  BY DEF ReserveOld, ReserveNew, Check, MoveRefused, SaveRefused, RefusedUnseen, Disconnect, store
<1>5. \/ task'[r].step \notin {"move", "map", "clear"}
      \/ task[r].step = "unmap" /\ task'[r].step = "map" /\ task[r].old \in doubtful'
      \/ task[r].step = "map" /\ task'[r].step = "clear"
  <2>1. \A st \in Steps : Goto(r, st) => task'[r].step = st
    BY <1>3, GotoTask
  <2>2. Leave(r) => task'[r].step = "idle"
    BY <1>3, LeaveTask
  <2>3. CASE RefusedUnseen(r)
    BY <2>1, <2>2, <2>3 DEF RefusedUnseen, Steps
  <2>4. CASE Check(r) \/ SaveRefused(r) \/ Disconnect(r)
    BY <2>1, <2>2, <2>4 DEF Check, SaveRefused, Disconnect, Steps
  <2>5. CASE ReserveOld(r) \/ ReserveNew(r) \/ MoveRefused(r)
    BY <2>1, <2>5 DEF ReserveOld, ReserveNew, MoveRefused, Steps
  <2>6. QED
    BY <2>3, <2>4, <2>5
<1>6. OwnMappings(r, id)
  <2> SUFFICES ASSUME id \notin crossed, NEW n \in Names \ doubtful', filemap[n] = id
               PROVE  disk'[n] = id \/ (Pending(id)' /\ journal[id].old = n)
    BY <1>2, <1>4, <1>5 DEF OwnMappings
  <2>1. disk[n] = id \/ (Pending(id) /\ journal[id].old = n)
    BY <1>1, <1>2, <1>4, OwnBefore
  <2>2. CASE Pending(id) /\ journal[id].old = n
    <3>1. task[r].step \notin {"map", "clear"} /\ journal[id] # Nothing
      BY <1>1, <1>2, <2>2 DEF Pending
    <3>2. journal[id].old = task[r].old
      <4>1. RequestKnows(r)
        BY <1>1, <1>2, OwnBefore
      <4>2. journal[id] = [old |-> task[r].old, new |-> task[r].new]
        BY <1>1, <3>1, <4>1 DEF RequestKnows
      <4>3. QED
        BY <4>2
    <3>3. task'[r].step \notin {"map", "clear"}
      BY <1>5, <2>2, <3>1, <3>2
    <3>4. \A q \in Requests : Busy(q)' /\ task'[q].id = id => q = r
      BY <1>1, <1>2, OwnBefore DEF OwnStep, Busy
    <3>5. QED
      BY <1>2, <1>4, <2>2, <3>3, <3>4 DEF Pending
  <2>3. QED
    BY <1>2, <2>1, <2>2
<1>7. QED
  BY <1>1, <1>2, <1>4, <1>6, OwnStepMappingInv

\* A rename that begins where a refusal has left something crosses it.
LEMMA StartRenameMappingInv ==
  ASSUME IndInv, MappingInv, NEW r \in Requests, NEW i \in Archives, NEW n \in Names,
         StartRename(r, i, n)
  PROVE  MappingInv'
<1> USE DEF StartRename, store
<1>1. TypeOK /\ task[r].step = "idle" /\ crossed \subseteq crossed' /\ (i \in exposed => i \in crossed')
  BY StartRenameIndInv DEF IndInv, At, Careful
<1>2. /\ task'[r].id = i /\ task'[r].step = "old"
      /\ \A q \in Requests : q # r => task'[q] = task[q]
  BY <1>1 DEF TypeOK
<1>3. Suspect \subseteq Suspect'
  BY <1>1, <1>2 DEF Suspect, Busy
<1>4. \A j \in Archives : Pending(j) => Pending(j)'
  BY <1>2 DEF Pending, Busy
<1>5. MoversDoubt'
  BY <1>1, <1>2 DEF MappingInv, MoversDoubt
<1>6. QED
  BY <1>1, <1>3, <1>4, <1>5, ExcusesKept DEF MappingInv

\* A name is unmapped, or mapped to the archive whose file has it.
LEMMA MapMappingInv ==
  ASSUME IndInv, MappingInv, NEW r \in Requests, Unmap(r) \/ MapNew(r)
  PROVE  MappingInv'
<1> USE NamesAssumption
<1>1. PICK id, old, new : id = task[r].id /\ old = task[r].old /\ new = task[r].new
  OBVIOUS
<1>2. Busy(r) /\ OwnStep(r) /\ UNCHANGED <<disk, journal, exposed>>
  BY QuietIndInv
<1>3. TypeOK /\ old \in Names /\ new \in Names
  BY <1>1, <1>2, AtWork
<1>4. Claims(r, new)
  BY <1>1, <1>2 DEF Claims
<1>5. CASE Unmap(r)
  <2>1. /\ task[r].step = "unmap" /\ task'[r].step = "map"
        /\ filemap'[old] = Nothing /\ \A n \in Names : n # old => filemap'[n] = filemap[n]
        /\ doubtful' = doubtful \ {old}
    BY <1>1, <1>3, <1>5, GotoTask DEF Unmap, At, Map, TypeOK, Steps
  <2>2. OwnMappings(r, id)
    <3> SUFFICES ASSUME id \notin crossed, NEW n \in Names \ doubtful', filemap'[n] = id
                 PROVE  disk'[n] = id
      BY <2>1 DEF OwnMappings
    <3>1. n # old /\ filemap[n] = id /\ n \notin doubtful
      BY <1>1, <1>2, <2>1, AtWork
    <3>2. disk[n] = id \/ (Pending(id) /\ journal[id].old = n)
      BY <1>1, <1>2, <3>1, OwnBefore
    <3>3. Pending(id) => journal[id].old = old
      <4>1. RequestKnows(r)
        BY <1>1, <1>2, OwnBefore
      <4>2. journal[id] # Nothing => journal[id] = [old |-> old, new |-> new]
        BY <1>1, <4>1 DEF RequestKnows
      <4>3. QED
        BY <4>2 DEF Pending
    <3>4. QED
      BY <1>2, <3>1, <3>2, <3>3
  <2>3. QED
    BY <1>1, <1>2, <2>1, <2>2, OwnStepMappingInv
<1>6. CASE MapNew(r)
  <2>1. /\ task[r].step = "map" /\ task'[r].step = "clear"
        /\ filemap'[new] = id /\ \A n \in Names : n # new => filemap'[n] = filemap[n]
        /\ doubtful' = doubtful \ {new}
    BY <1>1, <1>3, <1>6, GotoTask DEF MapNew, At, Map, TypeOK, Steps
  <2>2. OwnMappings(r, id)
    <3> SUFFICES ASSUME id \notin crossed, NEW n \in Names \ doubtful', filemap'[n] = id
                 PROVE  disk'[n] = id
      BY <2>1 DEF OwnMappings
    <3>1. disk[new] = id /\ ~Pending(id)
      BY <1>1, <1>2, <2>1, OwnBefore DEF RequestKnows, AfterSave, Pending
    <3>2. n # new => disk[n] = id
      BY <1>1, <1>2, <2>1, <3>1, OwnBefore
    <3>3. QED
      BY <1>2, <3>1, <3>2
  <2>3. QED
    BY <1>1, <1>2, <1>4, <2>1, <2>2, OwnStepMappingInv
<1>7. QED
  BY <1>5, <1>6

\* An entry of a file that has not moved excuses nothing, and need not.
LEMMA JournalMappingInv ==
  ASSUME IndInv, MappingInv, NEW r \in Requests, Journal(r) \/ JournalRefused(r)
  PROVE  MappingInv'
<1> USE NamesAssumption
<1>1. PICK id : id = task[r].id
  OBVIOUS
<1>2. Busy(r) /\ OwnStep(r) /\ task[r].step = "journal" /\ TypeOK
  BY JournalIndInv DEF Journal, JournalRefused, At, IndInv
<1>3. UNCHANGED <<disk, filemap>> /\ doubtful \subseteq doubtful'
  BY DEF Journal, JournalRefused, store
<1>4. journal'[id] = Nothing => task[r].old \in doubtful'
  <2>1. CASE JournalRefused(r)
    BY <2>1 DEF JournalRefused
  <2>2. CASE Journal(r)
    <3>1. [old |-> task[r].old, new |-> task[r].new] \in Entries /\ id \in Archives
      BY <1>1, <1>2, AtWork DEF Entries
    <3>2. journal'[id] \in Entries
      BY <1>1, <1>2, <2>2, <3>1 DEF Journal, TypeOK
    <3>3. QED
      BY <3>2
  <2>3. QED
    BY <2>1, <2>2
<1>5. OwnMappings(r, id)
  <2> SUFFICES ASSUME id \notin crossed, NEW n \in Names \ doubtful', filemap[n] = id
               PROVE  disk'[n] = id
    BY <1>3, <1>4 DEF OwnMappings
  <2>1. ~Pending(id)
    <3>1. RequestKnows(r)
      BY <1>1, <1>2, OwnBefore
    <3>2. journal[id] = Nothing
      BY <1>1, <1>2, <3>1 DEF RequestKnows
    <3>3. QED
      BY <3>2 DEF Pending
  <2>2. QED
    BY <1>1, <1>2, <1>3, <2>1, OwnBefore
<1>6. QED
  BY <1>1, <1>2, <1>3, <1>5, OwnStepMappingInv

\* The name that a file leaves is excused by its entry, or in doubt.
LEMMA MoveMappingInv ==
  ASSUME IndInv, MappingInv, NEW r \in Requests, Move(r)
  PROVE  MappingInv'
<1> USE NamesAssumption
<1>1. PICK id, old, new : id = task[r].id /\ old = task[r].old /\ new = task[r].new
  OBVIOUS
<1>2. /\ Busy(r) /\ OwnStep(r) /\ task[r].step = "move" /\ task'[r].step # "move"
      /\ UNCHANGED <<filemap, journal, doubtful>>
  BY <1>1, MoveStep
<1>3. OwnMappings(r, id)
  <2> SUFFICES ASSUME id \notin crossed, NEW n \in Names \ doubtful, filemap[n] = id
               PROVE  disk'[n] = id \/ (Pending(id)' /\ journal[id].old = n)
    BY <1>2 DEF OwnMappings
  <2>1. /\ disk[new] = Nothing /\ disk'[new] = id /\ id \in Archives /\ id # Nothing
        /\ \A m \in Names \ {old, new} : disk'[m] = disk[m]
        /\ task'[r].step = "save"
    BY <1>1, MoveStep
  <2>2. RequestKnows(r) /\ \A q \in Requests : Busy(q) /\ task[q].id = id => q = r
    BY <1>1, <1>2, OwnBefore
  <2>3. journal[id] \in {Nothing, [old |-> old, new |-> new]}
    BY <1>1, <2>2 DEF RequestKnows
  <2>4. disk[n] = id
    <3>1. ~Pending(id)
      BY <2>1, <2>3 DEF Pending
    <3>2. QED
      BY <1>1, <1>2, <3>1, OwnBefore
  <2>5. CASE n # old
    BY <2>1, <2>4, <2>5
  <2>6. CASE n = old
    <3>1. journal[id] # Nothing
      BY <1>1, <1>2, <2>1, <2>6 DEF MappingInv, MoversDoubt
    <3>2. journal[id].old = old /\ journal[id].new = new
      BY <2>3, <3>1
    <3>3. \A q \in Requests : Busy(q)' /\ task'[q].id = id => q = r
      BY <1>2, <2>2 DEF OwnStep, Busy
    <3>4. boot'.step = "up"
      BY <1>2, AtWork DEF OwnStep, Up
    <3>5. Pending(id)'
      BY <1>2, <2>1, <3>1, <3>2, <3>3, <3>4 DEF Pending
    <3>6. QED
      BY <2>6, <3>2, <3>5
  <2>7. QED
    BY <2>5, <2>6
<1>4. QED
  BY <1>1, <1>2, <1>3, OwnStepMappingInv

\* An entry is taken back when its file has not moved or its old name is unmapped.
LEMMA TakeBackMappingInv ==
  ASSUME IndInv, MappingInv, NEW r \in Requests, Undo(r) \/ Clear(r)
  PROVE  MappingInv'
<1>1. PICK id : id = task[r].id
  OBVIOUS
<1>2. /\ Busy(r) /\ OwnStep(r) /\ UNCHANGED <<disk, filemap, doubtful>>
      /\ task[r].step \in {"undo", "clear"} /\ task'[r].step = "idle"
  BY <1>1, TakeBackIndInv, LeaveTask DEF Undo, Clear, At, IndInv
<1>3. OwnMappings(r, id)
  <2> SUFFICES ASSUME id \notin crossed, NEW n \in Names \ doubtful, filemap[n] = id
               PROVE  disk'[n] = id
    BY <1>2 DEF OwnMappings
  <2>1. CASE task[r].step = "clear"
    <3>1. ~Pending(id)
      BY <1>1, <1>2, <2>1 DEF Pending
    <3>2. QED
      BY <1>1, <1>2, <3>1, OwnBefore
  <2>2. CASE task[r].step = "undo"
    <3>1. /\ ~OnDisk(task[r].new) /\ id \in Archives
          /\ journal[id] \in {Nothing, [old |-> task[r].old, new |-> task[r].new]}
      BY <1>1, <1>2, <2>2, OwnBefore, AtWork DEF RequestKnows, BeforeMove
    <3>2. ~Pending(id)
      BY <3>1, NamesAssumption DEF Pending, OnDisk
    <3>3. QED
      BY <1>1, <1>2, <3>2, OwnBefore
  <2>3. QED
    BY <1>2, <2>1, <2>2
<1>4. QED
  BY <1>1, <1>2, <1>3, OwnStepMappingInv

\* The record is saved: an archive that was exposed had its request at work.
LEMMA SaveMappingInv ==
  ASSUME IndInv, MappingInv, NEW r \in Requests, Save(r)
  PROVE  MappingInv'
<1>1. PICK id : id = task[r].id
  OBVIOUS
<1>2. /\ Busy(r) /\ OwnStep(r) /\ UNCHANGED <<disk, filemap, journal, boot, doubtful>>
      /\ task'[r].step = "unmap"
  <2>1. Busy(r) /\ OwnStep(r) /\ TypeOK
    BY SaveIndInv DEF IndInv
  <2>2. task'[r].step = "unmap"
    BY <2>1, GotoTask DEF Save, Steps
  <2>3. QED
    BY <2>1, <2>2 DEF Save
<1>3. OwnMappings(r, id)
  <2> SUFFICES ASSUME id \notin crossed, NEW n \in Names \ doubtful, filemap[n] = id
               PROVE  disk'[n] = id \/ (Pending(id)' /\ journal[id].old = n)
    BY <1>2 DEF OwnMappings
  <2>1. disk[n] = id \/ (Pending(id) /\ journal[id].old = n)
    BY <1>1, <1>2, OwnBefore
  <2>2. \A q \in Requests : Busy(q)' /\ task'[q].id = id => q = r
    BY <1>1, <1>2, OwnBefore DEF OwnStep, Busy
  <2>3. Pending(id) => Pending(id)'
    BY <1>2, <2>2 DEF Pending
  <2>4. QED
    BY <1>2, <2>1, <2>3
<1>4. QED
  BY <1>1, <1>2, <1>3, OwnStepMappingInv

\* A crash brings back the excuses of what was under way.
LEMMA CrashMappingInv ==
  ASSUME IndInv, MappingInv, Crash
  PROVE  MappingInv'
<1> USE DEF Crash, store
<1>1. /\ \A q \in Requests : ~Busy(q)'
      /\ \A q \in Requests : task'[q].step # "move"
      /\ boot'.step = "down"
  BY DEF Busy, Idle, Running
<1>2. Suspect \subseteq Suspect' /\ \A i \in Archives : Pending(i) => Pending(i)'
  BY <1>1 DEF Suspect, Pending
<1>3. MoversDoubt'
  BY <1>1 DEF MoversDoubt
<1>4. QED
  BY <1>2, <1>3, ExcusesKept DEF MappingInv, IndInv

\* Startup takes an excuse back when it has unmapped the name, or is in doubt of it.
LEMMA StartupMappingInv ==
  ASSUME IndInv, MappingInv, StartupQuiet \/ Startup
  PROVE  MappingInv'
<1> USE NamesAssumption DEF BootAt
<1>0. /\ TypeOK /\ EveryFileIsFound /\ StartupKnows /\ JournalTrue /\ ~Up
      /\ UNCHANGED <<task, disk, crossed>> /\ exposed \subseteq exposed'
  BY DEF IndInv, Up, Startup, StartupQuiet, Begin, Resolve, ResolveSave, ResolveUnmap, ResolveMap,
         ResolveClear, Resolved, Repair, BeginRefused, ResolveUnread, ResolveRefused,
         ResolveRefusedUnseen, store
<1>1. \A q \in Requests : ~Busy(q) /\ ~Busy(q)'
  BY <1>0, NobodyAtWork DEF Busy
<1>2. MoversDoubt'
  BY <1>1 DEF MoversDoubt, Busy
<1>3. Suspect = crossed \union exposed /\ Suspect' = crossed \union exposed'
  BY <1>0, <1>1 DEF Suspect
<1>4. PICK b : b = boot.id
  OBVIOUS
<1>g. ASSUME NEW st \in BootSteps, BootGoto(st)
      PROVE  boot'.step = st /\ boot'.id = b
  BY <1>0, <1>4, <1>g, BootGotoBoot
<1>5. CASE Begin \/ Resolved \/ ResolveRefused \/ ResolveSave \/ BeginRefused
  <2>1. UNCHANGED <<filemap, journal, doubtful>> /\ boot'.step \notin {"map", "clear"}
    BY <1>5, <1>g DEF Begin, Resolved, ResolveRefused, ResolveSave, BeginRefused, Running, store,
                      BootSteps
  <2>2. \A i \in Archives : Pending(i) => Pending(i)'
    BY <1>0, <1>1, <2>1 DEF Pending
  <2>3. QED
    BY <1>0, <1>2, <1>3, <2>1, <2>2, ExcusesKept DEF MappingInv
<1>6. ASSUME NEW i \in Archives, Resolve(i) \/ ResolveUnread(i)
      PROVE  MappingInv'
  <2>1. UNCHANGED <<filemap, journal, doubtful>> /\ boot'.id = i
    BY <1>0, <1>6 DEF Resolve, ResolveUnread, store
  <2>2. \A j \in Archives : j # i /\ Pending(j) => Pending(j)'
    BY <1>0, <1>1, <2>1 DEF Pending
  <2>3. Pending(i) => Pending(i)' \/ i \in Suspect'
    <3> SUFFICES ASSUME Pending(i), i \notin crossed \union exposed'
                 PROVE  Pending(i)'
      BY <1>3
    <3>1. Exists(i)
      BY <1>0 DEF EveryFileIsFound, View
    <3>2. OnDisk(journal[i].new)
      BY DEF Pending, OnDisk
    <3>3. Resolve(i)
      BY <1>6 DEF ResolveUnread
    <3>4. boot'.step = "save"
      BY <3>1, <3>2, <3>3 DEF Resolve
    <3>5. QED
      BY <1>0, <1>1, <2>1, <3>4 DEF Pending
  <2>4. QED
    BY <1>0, <1>2, <1>3, <2>1, <2>2, <2>3, ExcusesKept DEF MappingInv
<1>7. CASE ResolveRefusedUnseen
  <2>1. /\ UNCHANGED <<filemap, journal>> /\ boot'.id = b
        /\ doubtful \subseteq doubtful'
        /\ boot.step = "unmap" => journal[b].old \in doubtful'
        /\ boot.step \in {"map", "clear"} \/ boot.step = "unmap"
    BY <1>4, <1>7, <1>g DEF ResolveRefusedUnseen, store, Entry, BootSteps
  <2>2. \A i \in Archives : Pending(i) => Pending(i)' \/ journal[i].old \in doubtful'
    BY <1>0, <1>1, <1>4, <2>1 DEF Pending
  <2>3. QED
    BY <1>0, <1>2, <1>3, <2>1, <2>2, ExcusesKept DEF MappingInv
<1>8. CASE ResolveUnmap \/ ResolveMap
  <2>1. /\ b \in Archives /\ journal[b] \in Entries /\ Entry = journal[b]
        /\ disk[journal[b].new] = b \/ b \in crossed
    BY <1>0, <1>4, <1>8
       DEF ResolveUnmap, ResolveMap, StartupKnows, TypeOK, Entry, JournalTrue, OnDisk
  <2>2. boot'.id = b /\ boot'.step \in {"map", "clear"} /\ UNCHANGED <<journal, exposed>>
    BY <1>8, <1>g DEF ResolveUnmap, ResolveMap, BootSteps
  <2>3. PICK n \in Names : /\ filemap'[n] \in {Nothing, disk[n]} \union crossed
                           /\ \A m \in Names : m # n => filemap'[m] = filemap[m]
                           /\ doubtful' = doubtful \ {n}
                           /\ ResolveUnmap => n = journal[b].old
    <3>1. CASE ResolveUnmap
      BY <1>0, <2>1, <3>1 DEF ResolveUnmap, Map, TypeOK, Entries
    <3>2. CASE ResolveMap
      BY <1>0, <1>4, <2>1, <3>2 DEF ResolveMap, ResolveUnmap, Map, TypeOK, Entries
    <3>3. QED
      BY <1>8, <3>1, <3>2
  <2>4. \A i \in Archives : Pending(i) => Pending(i)' \/ journal[i].old = n
    <3>1. CASE ResolveUnmap
      BY <1>0, <1>1, <2>2, <2>3, <3>1 DEF Pending
    <3>2. CASE ResolveMap
      BY <1>0, <1>1, <1>4, <2>2, <3>2 DEF Pending, ResolveMap
    <3>3. QED
      BY <1>8, <3>1, <3>2
  <2>5. MappingsExcused'
    <3> SUFFICES ASSUME NEW m \in Names \ doubtful', NEW i, i = filemap'[m],
                        i \notin {Nothing, disk'[m]} \union Suspect'
                 PROVE  Pending(i)' /\ journal'[i].old = m
      BY DEF MappingsExcused
    <3>1. m # n /\ i = filemap[m] /\ m \notin doubtful
      BY <1>0, <1>3, <2>3
    <3>2. Pending(i) /\ journal[i].old = m
      BY <1>0, <1>3, <2>2, <3>1 DEF MappingInv, MappingsExcused
    <3>3. i \in Archives
      BY <1>0, <3>1 DEF TypeOK
    <3>4. QED
      BY <2>2, <2>4, <3>1, <3>2, <3>3
  <2>6. QED
    BY <1>2, <2>5 DEF MappingInv
<1>9. CASE ResolveClear
  <2>1. /\ b \in Archives /\ ~Pending(b) /\ UNCHANGED <<filemap, exposed, doubtful>>
        /\ \A i \in Archives : i # b => journal'[i] = journal[i]
    BY <1>0, <1>4, <1>9 DEF ResolveClear, StartupKnows, Pending, TypeOK
  <2>2. boot'.step = "resolve"
    BY <1>9, <1>g DEF ResolveClear, BootSteps
  <2>3. \A i \in Archives : Pending(i) => Pending(i)' /\ journal'[i] = journal[i]
    BY <1>0, <1>1, <2>1, <2>2 DEF Pending
  <2>4. MappingsExcused'
    <3> SUFFICES ASSUME NEW m \in Names \ doubtful, NEW i, i = filemap[m],
                        i \notin {Nothing, disk[m]} \union Suspect
                 PROVE  Pending(i)' /\ journal'[i].old = m
      BY <1>0, <1>3, <2>1 DEF MappingsExcused
    <3>1. Pending(i) /\ journal[i].old = m /\ i \in Archives
      BY <1>0 DEF MappingInv, MappingsExcused, TypeOK
    <3>2. QED
      BY <2>3, <3>1
  <2>5. QED
    BY <1>2, <2>4 DEF MappingInv
<1>10. CASE Repair
  <2>1. UNCHANGED <<journal, exposed, doubtful>> /\ boot'.step = "up"
    BY <1>10 DEF Repair, Running
  <2>2. Repairable \subseteq exposed \union crossed
    BY <1>10, NotRepaired DEF Repairable, Zombies
  <2>3. \A n \in Names : filemap'[n] \in {filemap[n], Nothing} \union exposed \union crossed
    BY <1>10, <2>2 DEF Repair, RepairStore
  <2>4. \A i \in Archives : Pending(i) => Pending(i)'
    BY <1>0, <1>1, <2>1 DEF Pending
  <2>5. MappingsExcused'
    <3> SUFFICES ASSUME NEW m \in Names \ doubtful, NEW i, i = filemap'[m],
                        i \notin {Nothing, disk[m]} \union Suspect
                 PROVE  Pending(i)' /\ journal[i].old = m
      BY <1>0, <1>3, <2>1 DEF MappingsExcused
    <3>1. i = filemap[m]
      BY <1>3, <2>3
    <3>2. Pending(i) /\ journal[i].old = m /\ i \in Archives
      BY <1>0, <3>1 DEF MappingInv, MappingsExcused, TypeOK
    <3>3. QED
      BY <2>4, <3>2
  <2>6. QED
    BY <1>2, <2>5 DEF MappingInv
<1>11. QED
  BY <1>5, <1>6, <1>7, <1>8, <1>9, <1>10 DEF Startup, StartupQuiet

\* Every step keeps mappings true or excused.
LEMMA NextMappingInv == IndInv /\ MappingInv /\ [Next]_vars => MappingInv'
<1> SUFFICES ASSUME IndInv, MappingInv, [Next]_vars
             PROVE  MappingInv'
  OBVIOUS
<1>1. ASSUME NEW r \in Requests, Handle(r)
      PROVE  MappingInv'
  BY <1>1, QuietMappingInv, MapMappingInv, JournalMappingInv, MoveMappingInv, TakeBackMappingInv,
     SaveMappingInv DEF Handle
<1>2. ASSUME NEW r \in Requests, NEW i \in Archives, NEW n \in Names, StartRename(r, i, n)
      PROVE  MappingInv'
  BY <1>2, StartRenameMappingInv
<1>3. ASSUME NEW r \in Requests,
             \/ JournalRefused(r) \/ MoveRefused(r) \/ SaveRefused(r) \/ RefusedUnseen(r)
             \/ Disconnect(r)
      PROVE  MappingInv'
  BY <1>3, QuietMappingInv, JournalMappingInv
<1>4. CASE Crash
  BY <1>4, CrashMappingInv
<1>5. CASE StartupQuiet \/ Startup
  BY <1>5, StartupMappingInv
<1>6. CASE UNCHANGED vars
  <2>1. UNCHANGED <<disk, filemap, journal, task, boot, crossed, exposed, doubtful>>
    BY <1>6 DEF vars, store
  <2>2. \A i \in Archives : Pending(i) => Pending(i)'
    BY <2>1 DEF Pending, Busy
  <2>3. Suspect' = Suspect
    BY <2>1 DEF Suspect, Busy
  <2>4. MappingsExcused'
    BY <2>1, <2>2, <2>3, ExcusesKept DEF MappingInv, IndInv
  <2>5. MoversDoubt'
    BY <2>1 DEF MappingInv, MoversDoubt
  <2>6. QED
    BY <2>4, <2>5 DEF MappingInv
<1>7. QED
  BY <1>1, <1>2, <1>3, <1>4, <1>5, <1>6 DEF Next, StartupQuiet

\* With nobody at work every mapping is true, those aside of exposed or crossed archives,
\* of a name that an unfinished journal entry says was left, or that Redis refused to
\* take back: the scanner is not led to take a new file for another archive's new
\* content (pipeline.rs:295-311).
THEOREM AlwaysMappingsAreTrue == Spec => []MappingsAreTrue
<1>1. IndInv /\ MappingInv => MappingsAreTrue
  BY DEF MappingInv, MappingsExcused, MappingsAreTrue, AtRest, Suspect, Pending
<1>2. QED
  BY <1>1, InitMappingInv, NextMappingInv, SpecIndInv, PTL DEF Spec


-----------------------------------------------------------------------------
(* Each rename is one step of ArchiveNames *)

Shown == <<[i \in Archives |-> View(i)], exposed \union crossed>>

\* A step that shows every archive where it was and excepts the same ones.
LEMMA Stutters ==
  ASSUME (exposed \union crossed)' = exposed \union crossed,
         \A i \in Archives : View(i)' = View(i)
  PROVE  [Promise!Next]_Shown
<1>1. [i \in Archives |-> View(i)]' = [i \in Archives |-> View(i)]
  OBVIOUS
<1>2. QED
  BY <1>1 DEF Shown

\* A step that shows every archive where it was and excepts more of them.
LEMMA Exposes ==
  ASSUME NEW some \in SUBSET Archives,
         (exposed \union crossed)' = (exposed \union crossed) \union some,
         \A i \in Archives : View(i)' = View(i)
  PROVE  [Promise!Next]_Shown
<1>1. Promise!Expose(some)
  BY DEF Promise!Expose
<1>2. QED
  BY <1>1 DEF Promise!Next

\* A step that shows elsewhere only archives that are excepted.
LEMMA Loses ==
  ASSUME TypeOK', (exposed \union crossed)' = exposed \union crossed,
         \A i \in Archives \ (exposed \union crossed) : View(i)' = View(i)
  PROVE  [Promise!Next]_Shown
<1>1. \A i \in Archives : View(i)' \in Names \union {Nothing}
  BY DEF TypeOK, View, Exists, Records, Entries
<1>2. Promise!Lose
  BY <1>1 DEF Promise!Lose
<1>3. QED
  BY <1>2 DEF Promise!Next

\* The request's own exception is the only one that its steps make or take back.
LEMMA OwnException ==
  ASSUME IndInv, IndInv', NEW r \in Requests, Busy(r), OwnStep(r), NEW id, id = task[r].id
  PROVE  /\ id \in Archives /\ crossed' = crossed /\ TypeOK /\ TypeOK'
         /\ id \in crossed => (exposed \union crossed)' = exposed \union crossed
         /\ id \notin crossed =>
              \A i \in Archives : i # id => View(i)' = View(i)
<1>1. TypeOK /\ TypeOK' /\ id \in Archives /\ crossed' = crossed
  BY AtWork DEF IndInv, OwnStep
<1>2. \A i \in Archives : i # id => (i \in exposed' <=> i \in exposed)
  BY DEF OwnStep
<1>3. id \in crossed => (exposed \union crossed)' = exposed \union crossed
  BY <1>1, <1>2 DEF TypeOK
<1>4. id \notin crossed => \A i \in Archives : i # id => View(i)' = View(i)
  BY ViewsStay
<1>5. QED
  BY <1>1, <1>3, <1>4

\* What a crossed rename does, it does to crossed archives.
LEMMA CrossedImplements ==
  ASSUME IndInv, IndInv', NEW r \in Requests, Busy(r), OwnStep(r), task[r].id \in crossed
  PROVE  [Promise!Next]_Shown
<1>1. PICK id : id = task[r].id
  OBVIOUS
<1>2. TypeOK' /\ (exposed \union crossed)' = exposed \union crossed
  BY <1>1, OwnException
<1>3. \A i \in Archives \ (exposed \union crossed) : View(i)' = View(i)
  BY ViewsStay
<1>4. QED
  BY <1>2, <1>3, Loses

\* Most of a handler's steps show nothing.
LEMMA HandlerStutters ==
  ASSUME IndInv, NEW r \in Requests,
         \/ ReserveOld(r) \/ ReserveNew(r) \/ Check(r) \/ MoveRefused(r) \/ SaveRefused(r)
         \/ Unmap(r) \/ MapNew(r) \/ RefusedUnseen(r) \/ Disconnect(r)
  PROVE  [Promise!Next]_Shown
<1>1. UNCHANGED <<disk, record, journal, exposed, crossed>>
  BY QuietIndInv DEF OwnStep
<1>2. QED
  BY <1>1, Stutters DEF View, Exists, OnDisk

\* An entry shows its archive where it was until the file moves.
LEMMA JournalImplements ==
  ASSUME IndInv, NEW r \in Requests, Journal(r) \/ JournalRefused(r)
  PROVE  [Promise!Next]_Shown
<1> USE NamesAssumption
<1>1. PICK id : id = task[r].id
  OBVIOUS
<1>2. Busy(r) /\ OwnStep(r) /\ IndInv'
  BY JournalIndInv
<1>3. CASE id \in crossed
  BY <1>1, <1>2, <1>3, CrossedImplements
<1>4. CASE id \notin crossed
  <2>1. /\ TypeOK /\ id \in Archives /\ crossed' = crossed
        /\ \A i \in Archives : i # id => View(i)' = View(i)
    BY <1>1, <1>2, <1>4, OwnException
  <2>2. CASE JournalRefused(r)
    <3>1. \A i \in Archives : View(i)' = View(i)
      BY <2>2 DEF JournalRefused, store, View, Exists, OnDisk
    <3>2. exposed' = exposed \union {id}
      BY <1>1, <2>2 DEF JournalRefused
    <3>3. (exposed \union crossed)' = (exposed \union crossed) \union {id}
      BY <2>1, <3>2
    <3>4. {id} \in SUBSET Archives
      BY <2>1
    <3>5. QED
      BY ONLY <3>1, <3>3, <3>4, Exposes
  <2>3. CASE Journal(r)
    <3>1. RequestKnows(r) /\ task[r].step = "journal"
      BY <1>1, <1>2, <1>4, <2>3, AtWork DEF Journal, At
    <3>2. journal[id] = Nothing /\ disk[task[r].new] = Nothing
      BY <1>1, <3>1 DEF RequestKnows, BeforeMove, OnDisk
    <3>3. journal'[id].new = task[r].new /\ UNCHANGED <<disk, record, exposed>>
      BY <1>1, <2>1, <2>3 DEF Journal, TypeOK
    <3>4. View(id)' = View(id)
      BY <3>2, <3>3 DEF View, Exists, OnDisk
    <3>5. QED
      BY <2>1, <3>3, <3>4, Stutters
  <2>4. QED
    BY <2>2, <2>3
<1>5. QED
  BY <1>3, <1>4

\* The move is the rename, if the journal knows of it.
LEMMA MoveImplements ==
  ASSUME IndInv, NEW r \in Requests, Move(r)
  PROVE  [Promise!Next]_Shown
<1> USE NamesAssumption
<1>1. PICK id, old, new : id = task[r].id /\ old = task[r].old /\ new = task[r].new
  OBVIOUS
<1>2. Busy(r) /\ OwnStep(r) /\ IndInv' /\ UNCHANGED <<record, journal, exposed>>
  BY <1>1, MoveStep, MoveIndInv
<1>3. CASE id \in crossed
  BY <1>1, <1>2, <1>3, CrossedImplements
<1>4. CASE id \notin crossed
  <2>1. /\ id \in Archives /\ crossed' = crossed /\ TypeOK
        /\ \A i \in Archives : i # id => View(i)' = View(i)
    BY <1>1, <1>2, <1>4, OwnException
  <2>2. /\ RequestKnows(r) /\ new \in Names
        /\ disk[new] = Nothing /\ disk'[new] = id
    BY <1>1, <1>4, MoveStep
  <2>3. /\ Exists(id)
        /\ journal[id] # Nothing => journal[id].new = new
    BY <1>1, <2>2 DEF RequestKnows
  <2>4. CASE journal[id] = Nothing
    <3>1. View(id)' = View(id)
      BY <1>2, <2>4 DEF View, Exists
    <3>2. QED
      BY <1>2, <2>1, <3>1, Stutters
  <2>5. CASE journal[id] # Nothing
    <3>1. View(id)' = new
      BY <1>2, <2>1, <2>2, <2>3, <2>5 DEF View, Exists, OnDisk
    <3>2. \A j \in Archives \ (exposed \union crossed) : View(j) # new
      BY <2>2 DEF IndInv, EveryFileIsFound
    <3>3. Promise!Rename(id, new)
      BY <1>2, <2>1, <3>1, <3>2 DEF Promise!Rename
    <3>4. QED
      BY <2>1, <2>2, <3>3 DEF Promise!Next
  <2>6. QED
    BY <2>4, <2>5
<1>5. QED
  BY <1>3, <1>4

\* The save renames an archive whose entry Redis refused, late; others are renamed already.
LEMMA SaveImplements ==
  ASSUME IndInv, NEW r \in Requests, Save(r)
  PROVE  [Promise!Next]_Shown
<1> USE NamesAssumption
<1>1. PICK id, new : id = task[r].id /\ new = task[r].new
  OBVIOUS
<1>2. Busy(r) /\ OwnStep(r) /\ IndInv'
  BY <1>1, SaveIndInv
<1>3. CASE id \in crossed
  BY <1>1, <1>2, <1>3, CrossedImplements
<1>4. CASE id \notin crossed
  <2>1. /\ id \in Archives /\ crossed' = crossed
        /\ \A i \in Archives : i # id => View(i)' = View(i)
    BY <1>1, <1>2, <1>4, OwnException
  <2>2. /\ RequestKnows(r) /\ View(id)' = new /\ new \in Names
        /\ task[r].step = "save" /\ exposed' = exposed \ {id}
    BY <1>1, <1>4, SaveIndInv DEF Save, At
  <2>3. disk[new] = id /\ Exists(id)
    BY <1>1, <2>2 DEF RequestKnows
  <2>4. CASE id \in exposed
    <3>1. \A j \in Archives \ (exposed \union crossed) : View(j) # new
      BY <2>3, <2>4 DEF IndInv, EveryFileIsFound
    <3>2. Promise!Rename(id, new)
      BY <1>4, <2>1, <2>2, <3>1 DEF Promise!Rename
    <3>3. QED
      BY <2>1, <2>2, <3>2 DEF Promise!Next
  <2>5. CASE id \notin exposed
    <3>1. journal[id] # Nothing /\ journal[id].new = new
      BY <1>1, <2>2, <2>5 DEF RequestKnows
    <3>2. View(id) = new
      BY <2>1, <2>3, <3>1 DEF View, OnDisk
    <3>3. QED
      BY <2>1, <2>2, <2>5, <3>2, Stutters
  <2>6. QED
    BY <2>4, <2>5
<1>5. QED
  BY <1>3, <1>4

\* An entry taken back covers its archive again.
LEMMA TakeBackImplements ==
  ASSUME IndInv, NEW r \in Requests, Undo(r) \/ Clear(r)
  PROVE  [Promise!Next]_Shown
<1>1. PICK id : id = task[r].id
  OBVIOUS
<1>2. Busy(r) /\ OwnStep(r) /\ IndInv'
  BY <1>1, TakeBackIndInv
<1>3. CASE id \in crossed
  BY <1>1, <1>2, <1>3, CrossedImplements
<1>4. CASE id \notin crossed
  <2>1. id \in Archives /\ crossed' = crossed /\ \A i \in Archives : View(i)' = View(i)
    BY <1>1, <1>2, <1>4, OwnException, TakeBackIndInv
  <2>2. CASE Clear(r)
    BY <2>1, <2>2, Stutters DEF Clear
  <2>3. CASE Undo(r)
    <3>1. Promise!Cover(id)
      BY <1>1, <1>4, <2>1, <2>3 DEF Undo, Promise!Cover
    <3>2. QED
      BY <2>1, <3>1 DEF Promise!Next
  <2>4. QED
    BY <2>2, <2>3
<1>5. QED
  BY <1>3, <1>4

\* Startup shows every archive where it was, those aside that are excepted.
LEMMA StartupImplements ==
  ASSUME IndInv, StartupQuiet \/ Startup
  PROVE  [Promise!Next]_Shown
<1>1. CASE StartupQuiet
  <2>1. /\ \A i \in Archives : View(i)' = View(i)
        /\ exposed \subseteq exposed' /\ crossed' = crossed /\ exposed' \subseteq Archives
    BY <1>1, StartupQuietIndInv DEF IndInv, TypeOK
  <2>2. QED
    BY <2>1, Exposes
<1>2. CASE ResolveSave
  BY <1>2, ResolveSaveIndInv, Stutters DEF ResolveSave
<1>3. CASE ResolveClear
  <2>1. TypeOK' /\ \A i \in Archives \ (exposed \union crossed) : View(i)' = View(i)
    BY <1>3, ResolveClearIndInv DEF IndInv
  <2>2. QED
    BY <1>3, <2>1, Loses DEF ResolveClear
<1>4. CASE Repair
  <2>1. TypeOK' /\ \A i \in Archives \ (exposed \union crossed) : View(i)' = View(i)
    BY <1>4, RepairIndInv DEF IndInv
  <2>2. QED
    BY <1>4, <2>1, Loses DEF Repair
<1>5. QED
  BY <1>1, <1>2, <1>3, <1>4 DEF Startup, StartupQuiet

\* Every step shows at most one archive elsewhere, under a name that no other one
\* has: what a user sees of a rename, crashes and startups included, is one step, but
\* for archives whose renames crossed or that Redis refused to journal or to resolve.
THEOREM RenameImplementsArchiveNames == Spec => RenamesAreAtomic
<1>1. Init => Promise!Init
  <2> SUFFICES ASSUME Init PROVE Promise!Init
    OBVIOUS
  <2>1. /\ \A i \in Archives : View(i) = record[i].file /\ record[i].file \in Names
        /\ \A i, j \in Archives : record[i].file = record[j].file => i = j
    <3>1. PICK at \in [Archives -> Names] :
            /\ \A i, j \in Archives : at[i] = at[j] => i = j
            /\ record = [i \in Archives |-> [file |-> at[i], name |-> Stem[at[i]]]]
      BY DEF Init
    <3>2. \A i \in Archives : record[i] \in Records /\ record[i].file = at[i]
      BY <3>1 DEF Records, Stems
    <3>3. \A i \in Archives : journal[i] = Nothing
      BY DEF Init
    <3>4. QED
      BY <3>1, <3>2, <3>3, NamesAssumption DEF View, Exists
  <2>2. exposed \union crossed = {}
    BY DEF Init
  <2>3. QED
    BY <2>1, <2>2 DEF Promise!Init
<1>2. IndInv /\ [Next]_vars => [Promise!Next]_Shown
  <2> SUFFICES ASSUME IndInv, [Next]_vars
               PROVE  [Promise!Next]_Shown
    OBVIOUS
  <2>1. ASSUME NEW r \in Requests, Handle(r)
        PROVE  [Promise!Next]_Shown
    BY <2>1, HandlerStutters, JournalImplements, MoveImplements, SaveImplements,
       TakeBackImplements DEF Handle
  <2>2. ASSUME NEW r \in Requests,
               \/ JournalRefused(r) \/ MoveRefused(r) \/ SaveRefused(r) \/ RefusedUnseen(r)
               \/ Disconnect(r)
        PROVE  [Promise!Next]_Shown
    BY <2>2, HandlerStutters, JournalImplements
  <2>3. ASSUME NEW r \in Requests, NEW i \in Archives, NEW n \in Names, StartRename(r, i, n)
        PROVE  [Promise!Next]_Shown
    <3>1. /\ crossed \subseteq crossed' /\ crossed' \subseteq Archives /\ exposed' = exposed
          /\ \A j \in Archives : View(j)' = View(j)
      BY <2>3, StartRenameIndInv DEF StartRename
    <3>2. QED
      BY <3>1, Exposes
  <2>4. CASE StartupQuiet \/ Startup
    BY <2>4, StartupImplements
  <2>5. CASE Crash \/ UNCHANGED vars
    <3>1. UNCHANGED <<disk, record, journal, exposed, crossed>>
      BY <2>5 DEF Crash, vars, store
    <3>2. QED
      BY <3>1, Stutters DEF View, Exists, OnDisk
  <2>6. QED
    BY <2>1, <2>2, <2>3, <2>4, <2>5 DEF Next, StartupQuiet
<1>3. QED
  BY <1>1, <1>2, SpecIndInv, PTL DEF Spec, RenamesAreAtomic, Promise!Spec, Shown
=============================================================================

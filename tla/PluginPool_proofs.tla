-------------------------- MODULE PluginPool_proofs --------------------------
(***************************************************************************)
(* The plugin pool for any number of calls, plugins, edits and failures:    *)
(* type correctness, that answers come from code as new as the file was,    *)
(* and that a process fails one call at most.                               *)
(***************************************************************************)
EXTENDS PluginPool, TLAPS

USE PoolAssumption

\* The lock is held by the one call that is past its turn and has not returned.
OneCallWorks ==
  /\ \A k \in Calls : at[k] \in Holding <=> lock = k
  /\ \A k \in Calls : at[k] \in {"writing", "waiting"} =>
       Worker(k) # Nothing /\ found[k] <= stamp[Worker(k)]

\* What a call has found is a version the file has had.
FoundInFile ==
  \A k \in Calls : found[k] <= file[plugin[k]] /\ (at[k] = "queued" => found[k] = 0)

\* A call that has not spawned a process names none; what the map holds is a
\* process of the plugin.
Started(w) == state[w] # "none"
NamesAreFresh ==
  /\ \A k \in Calls : at[k] \in {"queued", "spawn"} => ~Started(k)
  /\ \A p \in Plugins : workers[p] # Nothing =>
       Started(workers[p]) /\ plugin[workers[p]] = p
  /\ \A w \in Calls : ~Started(w) =>
       /\ code[w] = 0 /\ doing[w] = {} /\ out[w] = Nothing /\ relays[w] = 0
       /\ stdin[w] = << >> /\ stdout[w] = << >>

\* A process imports the file after its stamp was read, and speaks after that.
CodeFollowsStamp ==
  \A w \in Calls :
    /\ stamp[w] <= file[plugin[w]]
    /\ code[w] = 0 \/ stamp[w] <= code[w]
    /\ out[w] # Nothing \/ stdout[w] # << >> => code[w] # 0

\* What is in a process or on its pipes are calls sent to it, which found a version
\* no newer than its stamp.
Sent(w) == {k \in Calls : at[k] \in {"waiting"} \union Ended /\ found[k] <= stamp[w]}
PipesCarrySent ==
  \A w \in Calls :
    /\ stdin[w] \in Seq(Sent(w) \union {Http, Torn})
    /\ stdout[w] \in Seq(Sent(w) \union {Http})
    /\ doing[w] \subseteq Sent(w)
    /\ out[w] \in Sent(w) \union {Http, Nothing}

\* An answered call names a process with code as new as it asks for.
AnswersAreNew ==
  \A k \in Calls : at[k] = "done" => by[k] # Nothing /\ code[by[k]] # 0 /\ found[k] <= code[by[k]]

\* A process that failed a call has left the map for good.
FailedHaveLeft ==
  /\ \A k \in Calls : at[k] = "failed" /\ by[k] # Nothing =>
       Started(by[k]) /\ \A p \in Plugins : workers[p] # by[k]
  /\ OneFailurePerProcess

IndInv ==
  TypeOK /\ OneCallWorks /\ FoundInFile /\ NamesAreFresh /\ CodeFollowsStamp
  /\ PipesCarrySent /\ AnswersAreNew /\ FailedHaveLeft

\* What the calls' numbers are not, and whose calls they are.
LEMMA Numbers ==
  /\ Calls \subseteq Nat /\ Nothing \notin Calls
  /\ Http \notin Calls /\ Http # Nothing /\ Torn \notin Calls /\ Torn # Http
  /\ \A k \in Calls : plugin[k] \in Plugins
BY DEF Calls, Nothing, Http, Torn

\* What a step does to one process: nothing, or it ends it.
Untouched(w) ==
  /\ state'[w] = state[w] /\ stdin'[w] = stdin[w] /\ doing'[w] = doing[w]
  /\ out'[w] = out[w] /\ relays'[w] = relays[w]
Ends(w) ==
  /\ state'[w] = "gone" /\ stdin'[w] = << >> /\ doing'[w] = {}
  /\ out'[w] = Nothing /\ relays'[w] = 0
TypesStay ==
  /\ state' \in [Calls -> {"none", "up", "looping", "gone"}]
  /\ doing' \in [Calls -> SUBSET Calls] /\ out' \in [Calls -> Calls \union {Http, Nothing}]
  /\ fetched' \in [Calls -> 0..MaxFetches] /\ relays' \in [Calls -> Nat]
  /\ stdin' \in [Calls -> Seq(Calls \union {Http, Torn})] /\ cut' \in [Calls -> BOOLEAN]

\* A process that ends leaves nothing but what it wrote, and no other is touched.
LEMMA EndEffect ==
  ASSUME TypeOK, NEW w \in Calls, End(w)
  PROVE  TypesStay /\ Ends(w) /\ \A v \in Calls \ {w} : Untouched(v)
<1> USE DEF TypeOK, PipesType, ProcessType, End
<1>1. TypesStay
  BY DEF TypesStay
<1>2. Ends(w) /\ \A v \in Calls \ {w} : Untouched(v)
  BY DEF Ends, Untouched
<1> QED
  BY <1>1, <1>2

\* A worker that is dropped leaves the map and ends; a plugin without one loses nothing.
LEMMA DiscardEffect ==
  ASSUME TypeOK, NEW p \in Plugins, Discard(p)
  PROVE  /\ TypesStay /\ stdout' \in [Calls -> Seq(Calls \union {Http})]
         /\ workers' = [workers EXCEPT ![p] = Nothing]
         /\ \A v \in Calls : IF v = workers[p] THEN Ends(v) /\ stdout'[v] = << >>
                                               ELSE Untouched(v) /\ stdout'[v] = stdout[v]
<1>1. CASE workers[p] = Nothing
  BY <1>1, Numbers DEF Discard, TypeOK, PipesType, ProcessType, TypesStay, Untouched
<1>2. CASE workers[p] # Nothing
  <2>1. workers[p] \in Calls /\ End(workers[p])
    BY <1>2 DEF Discard, TypeOK, PoolType
  <2>2. stdout' = [stdout EXCEPT ![workers[p]] = << >>]
    BY <1>2 DEF Discard
  <2>3. /\ stdout' \in [Calls -> Seq(Calls \union {Http})]
        /\ \A v \in Calls : stdout'[v] = IF v = workers[p] THEN << >> ELSE stdout[v]
    BY <2>1, <2>2 DEF TypeOK, PipesType
  <2> QED
    BY <2>1, <2>3, EndEffect DEF Discard
<1> QED
  BY <1>1, <1>2

\* A step of Next is one of its actions.
LEMMA Steps ==
  ASSUME [Next]_vars
  PROVE  \/ UNCHANGED vars
         \/ \E p \in Plugins : Edit(p)
         \/ \E k \in Calls : LookUp(k)
         \/ \E k \in Calls : LookUpUnread(k)
         \/ \E k \in Calls : SpawnWorker(k)
         \/ \E k \in Calls : SpawnFails(k)
         \/ \E k \in Calls : Write(k)
         \/ \E k \in Calls : WriteFails(k)
         \/ \E k \in Calls : TimeOut(k)
         \/ \E k \in Calls : Drop(k)
         \/ \E k \in Calls : Deliver(k)
         \/ \E k \in Calls : RelayAnswers(k)
         \/ \E k \in Calls : Read(k)
         \/ \E k \in Calls : ReadTorn(k)
         \/ \E k \in Calls : Flush(k)
         \/ \E k \in Calls : Import(k)
         \/ \E k \in Calls : Reply(k)
         \/ \E k \in Calls : Fetch(k)
         \/ \E k \in Calls : Loop(k)
         \/ \E k \in Calls : Exit(k)
BY Zenon DEF Next, CallStep, WorkerStep

\* A call that writes or waits has a worker, which has a process.
LEMMA WorkerOfCall ==
  ASSUME IndInv, NEW k \in Calls, at[k] \in {"writing", "waiting"}
  PROVE  Worker(k) \in Calls /\ Started(Worker(k)) /\ plugin[Worker(k)] = plugin[k]
BY Numbers DEF IndInv, TypeOK, PoolType, OneCallWorks, NamesAreFresh, Worker

\* A line that is written, to the process or by it.
LEMMA WriteLineTypes ==
  ASSUME PipesType, NEW w \in Calls, NEW line \in Calls \union {Http}, WriteLine(w, line)
  PROVE  stdin' \in [Calls -> Seq(Calls \union {Http, Torn})] /\ cut' \in [Calls -> BOOLEAN]
<1> DEFINE written == IF cut[w] THEN Torn ELSE line
<1>1. written \in Calls \union {Http, Torn} /\ stdin[w] \in Seq(Calls \union {Http, Torn})
  BY DEF PipesType
<1>2. Append(stdin[w], written) \in Seq(Calls \union {Http, Torn})
  BY <1>1
<1>3. stdin' = [stdin EXCEPT ![w] = Append(stdin[w], written)] /\ cut' = [cut EXCEPT ![w] = FALSE]
  BY DEF WriteLine
<1> QED
  BY <1>2, <1>3 DEF PipesType

\* A call that fails leaves everything with its type.
LEMMA FailTypes ==
  ASSUME TypeOK, NEW k \in Calls, Fail(k)
  PROVE  CallsType' /\ PoolType' /\ PipesType' /\ ProcessType'
<1>1. plugin[k] \in Plugins /\ Discard(plugin[k])
  BY Numbers DEF Fail
<1>2. CallsType'
  BY <1>1 DEF TypeOK, CallsType, PoolType, Fail, Goto, Worker, Ended
<1>3. PoolType'
  BY <1>1, DiscardEffect DEF TypeOK, PoolType, Fail
<1>4. PipesType' /\ ProcessType'
  BY <1>1, DiscardEffect DEF TypeOK, PipesType, ProcessType, Fail, TypesStay
<1> QED
  BY <1>2, <1>3, <1>4

\* A look-up drops the worker or leaves everything but the lock.
LEMMA LookUpEffect ==
  ASSUME TypeOK, NEW k \in Calls, LookUp(k)
  PROVE  /\ TypesStay /\ stdout' \in [Calls -> Seq(Calls \union {Http})]
         /\ workers' \in [Plugins -> Calls \union {Nothing}]
         /\ at' \in [Calls -> {"queued"} \union Holding \union Ended]
         /\ \/ /\ Discard(plugin[k]) /\ at' = [at EXCEPT ![k] = "spawn"]
            \/ /\ UNCHANGED <<workers, pipes, process>>
               /\ at' = [at EXCEPT ![k] = IF Worker(k) = Nothing THEN "spawn" ELSE "writing"]
               /\ Worker(k) # Nothing => file[plugin[k]] <= stamp[Worker(k)]
<1>1. plugin[k] \in Plugins
  BY Numbers
<1>2. CASE Worker(k) # Nothing /\ file[plugin[k]] > stamp[Worker(k)]
  <2>1. Discard(plugin[k]) /\ at' = [at EXCEPT ![k] = "spawn"]
    BY <1>2 DEF LookUp, Goto
  <2> QED
    BY <1>1, <2>1, DiscardEffect DEF TypeOK, CallsType, PoolType, Holding
<1>3. CASE ~(Worker(k) # Nothing /\ file[plugin[k]] > stamp[Worker(k)])
  <2>1. /\ UNCHANGED <<workers, pipes, process>>
        /\ at' = [at EXCEPT ![k] = IF Worker(k) = Nothing THEN "spawn" ELSE "writing"]
    BY <1>3 DEF LookUp, Goto, pipes, process
  <2>2. Worker(k) # Nothing => file[plugin[k]] <= stamp[Worker(k)]
    BY <1>1, <1>3 DEF TypeOK, PoolType, PipesType, Worker
  <2> QED
    BY <2>1, <2>2 DEF TypeOK, CallsType, PoolType, PipesType, ProcessType, TypesStay,
                      Holding, pipes, process
<1> QED
  BY <1>2, <1>3

\* The invariant holds at the start.
LEMMA InitIndInv == Init => IndInv
<1> SUFFICES ASSUME Init PROVE IndInv
  OBVIOUS
<1> USE DEF Init, Calls, Nothing, Http, Torn
<1>1. TypeOK
  BY DEF TypeOK, CallsType, PoolType, PipesType, ProcessType, Holding, Ended
<1>2. OneCallWorks /\ FoundInFile /\ CodeFollowsStamp
  BY DEF OneCallWorks, FoundInFile, CodeFollowsStamp, Holding
<1>3. NamesAreFresh
  BY DEF NamesAreFresh, Started
<1>4. PipesCarrySent
  BY DEF PipesCarrySent
<1>5. AnswersAreNew /\ FailedHaveLeft
  BY DEF AnswersAreNew, FailedHaveLeft, OneFailurePerProcess
<1> QED
  BY <1>1, <1>2, <1>3, <1>4, <1>5 DEF IndInv

\* Every step keeps the types: of calls, ...
LEMMA CallsTypeStep == IndInv /\ [Next]_vars => CallsType'
<1> SUFFICES ASSUME IndInv, [Next]_vars PROVE CallsType'
  OBVIOUS
<1> USE DEF IndInv, TypeOK, CallsType, PoolType
<1>1. CASE UNCHANGED vars
  BY <1>1 DEF vars, calls, pool, pipes, process
<1>2. ASSUME NEW p \in Plugins, Edit(p) PROVE CallsType'
  BY <1>2 DEF Edit, calls, pool, pipes, process, Upset
<1>3. ASSUME NEW k \in Calls, LookUp(k) PROVE CallsType'
  BY <1>3, LookUpEffect, Numbers DEF LookUp
<1>4. ASSUME NEW k \in Calls, LookUpUnread(k) PROVE CallsType'
  BY <1>4 DEF LookUpUnread, calls, pool, pipes, process, Turn, Goto, Worker, Holding, Ended, Upset, WriteLine
<1>5. ASSUME NEW k \in Calls, SpawnWorker(k) PROVE CallsType'
  BY <1>5, Numbers DEF PoolType, SpawnWorker, calls, pool, pipes, process, Turn, Goto, Worker, Holding, Ended, Upset, WriteLine
<1>6. ASSUME NEW k \in Calls, SpawnFails(k) PROVE CallsType'
  BY <1>6, FailTypes DEF SpawnFails
<1>7. ASSUME NEW k \in Calls, Write(k) PROVE CallsType'
  BY <1>7 DEF Write, calls, pool, pipes, process, Turn, Goto, Worker, Holding, Ended, Upset, WriteLine
<1>8. ASSUME NEW k \in Calls, WriteFails(k) PROVE CallsType'
  BY <1>8, FailTypes DEF WriteFails
<1>9. ASSUME NEW k \in Calls, TimeOut(k) PROVE CallsType'
  BY <1>9, FailTypes DEF TimeOut
<1>10. ASSUME NEW k \in Calls, Drop(k) PROVE CallsType'
  BY <1>10 DEF Drop, calls, pool, pipes, process, Turn, Goto, Worker, Holding, Ended, Upset, WriteLine
<1>11. ASSUME NEW k \in Calls, Deliver(k) PROVE CallsType'
  BY <1>11 DEF Deliver, calls, pool, pipes, process, Reach, Goto, Ended, Holding
<1>12. ASSUME NEW k \in Calls, RelayAnswers(k) PROVE CallsType'
  BY <1>12 DEF RelayAnswers, calls, pool, pipes, process, Goto, Upset, Turn
<1>13. ASSUME NEW k \in Calls, Read(k) PROVE CallsType'
  BY <1>13 DEF Read, calls, pool, pipes, process, Goto, Upset, Turn
<1>14. ASSUME NEW k \in Calls, ReadTorn(k) PROVE CallsType'
  BY <1>14 DEF ReadTorn, calls, pool, pipes, process, Goto, Upset, Turn
<1>15. ASSUME NEW k \in Calls, Flush(k) PROVE CallsType'
  BY <1>15 DEF Flush, calls, pool, pipes, process, Goto, Upset, Turn
<1>16. ASSUME NEW k \in Calls, Import(k) PROVE CallsType'
  BY <1>16, Numbers DEF PoolType, Import, calls, pool, pipes, process, Goto, Upset, Turn
<1>17. ASSUME NEW k \in Calls, Reply(k) PROVE CallsType'
  BY <1>17 DEF Reply, calls, pool, pipes, process, Goto, Upset, Turn
<1>18. ASSUME NEW k \in Calls, Fetch(k) PROVE CallsType'
  BY <1>18 DEF Fetch, calls, pool, pipes, process, Goto, Upset, Turn
<1>19. ASSUME NEW k \in Calls, Loop(k) PROVE CallsType'
  BY <1>19 DEF Loop, calls, pool, pipes, process, Goto, Upset, Turn
<1>20. ASSUME NEW k \in Calls, Exit(k) PROVE CallsType'
  BY <1>20 DEF Exit, calls, pool, pipes, process, Goto, Upset, Turn
<1> QED
  BY Steps, <1>1, <1>2, <1>3, <1>4, <1>5, <1>6, <1>7, <1>8, <1>9, <1>10, <1>11, <1>12, <1>13, <1>14, <1>15, <1>16, <1>17, <1>18, <1>19, <1>20, Zenon

\* ... of the lock and the map, ...
LEMMA PoolTypeStep == IndInv /\ [Next]_vars => PoolType'
<1> SUFFICES ASSUME IndInv, [Next]_vars PROVE PoolType'
  OBVIOUS
<1> USE DEF IndInv, TypeOK, PoolType
<1>1. CASE UNCHANGED vars
  BY <1>1 DEF vars, calls, pool, pipes, process
<1>2. ASSUME NEW p \in Plugins, Edit(p) PROVE PoolType'
  BY <1>2 DEF Edit, calls, pool, pipes, process, Upset
<1>3. ASSUME NEW k \in Calls, LookUp(k) PROVE PoolType'
  BY <1>3, LookUpEffect DEF LookUp, TypesStay, Turn
<1>4. ASSUME NEW k \in Calls, LookUpUnread(k) PROVE PoolType'
  BY <1>4 DEF LookUpUnread, calls, pool, pipes, process, Turn, Goto, Worker, Holding, Ended, Upset, WriteLine
<1>5. ASSUME NEW k \in Calls, SpawnWorker(k) PROVE PoolType'
  BY <1>5, Numbers DEF PoolType, SpawnWorker, calls, pool, pipes, process, Turn, Goto, Worker, Holding, Ended, Upset, WriteLine
<1>6. ASSUME NEW k \in Calls, SpawnFails(k) PROVE PoolType'
  BY <1>6, FailTypes DEF SpawnFails
<1>7. ASSUME NEW k \in Calls, Write(k) PROVE PoolType'
  BY <1>7 DEF Write, calls, pool, pipes, process, Turn, Goto, Worker, Holding, Ended, Upset, WriteLine
<1>8. ASSUME NEW k \in Calls, WriteFails(k) PROVE PoolType'
  BY <1>8, FailTypes DEF WriteFails
<1>9. ASSUME NEW k \in Calls, TimeOut(k) PROVE PoolType'
  BY <1>9, FailTypes DEF TimeOut
<1>10. ASSUME NEW k \in Calls, Drop(k) PROVE PoolType'
  BY <1>10 DEF Drop, calls, pool, pipes, process, Turn, Goto, Worker, Holding, Ended, Upset, WriteLine
<1>11. ASSUME NEW k \in Calls, Deliver(k) PROVE PoolType'
  BY <1>11 DEF Deliver, calls, pool, pipes, process, Reach, Goto, Ended, Holding
<1>12. ASSUME NEW k \in Calls, RelayAnswers(k) PROVE PoolType'
  BY <1>12 DEF RelayAnswers, calls, pool, pipes, process, Goto, Upset, Turn
<1>13. ASSUME NEW k \in Calls, Read(k) PROVE PoolType'
  BY <1>13 DEF Read, calls, pool, pipes, process, Goto, Upset, Turn
<1>14. ASSUME NEW k \in Calls, ReadTorn(k) PROVE PoolType'
  BY <1>14 DEF ReadTorn, calls, pool, pipes, process, Goto, Upset, Turn
<1>15. ASSUME NEW k \in Calls, Flush(k) PROVE PoolType'
  BY <1>15 DEF Flush, calls, pool, pipes, process, Goto, Upset, Turn
<1>16. ASSUME NEW k \in Calls, Import(k) PROVE PoolType'
  BY <1>16, Numbers DEF PoolType, Import, calls, pool, pipes, process, Goto, Upset, Turn
<1>17. ASSUME NEW k \in Calls, Reply(k) PROVE PoolType'
  BY <1>17 DEF Reply, calls, pool, pipes, process, Goto, Upset, Turn
<1>18. ASSUME NEW k \in Calls, Fetch(k) PROVE PoolType'
  BY <1>18 DEF Fetch, calls, pool, pipes, process, Goto, Upset, Turn
<1>19. ASSUME NEW k \in Calls, Loop(k) PROVE PoolType'
  BY <1>19 DEF Loop, calls, pool, pipes, process, Goto, Upset, Turn
<1>20. ASSUME NEW k \in Calls, Exit(k) PROVE PoolType'
  BY <1>20 DEF Exit, calls, pool, pipes, process, Goto, Upset, Turn
<1> QED
  BY Steps, <1>1, <1>2, <1>3, <1>4, <1>5, <1>6, <1>7, <1>8, <1>9, <1>10, <1>11, <1>12, <1>13, <1>14, <1>15, <1>16, <1>17, <1>18, <1>19, <1>20, Zenon

\* ... of the pipes, ...
LEMMA PipesTypeStep == IndInv /\ [Next]_vars => PipesType'
<1> SUFFICES ASSUME IndInv, [Next]_vars PROVE PipesType'
  OBVIOUS
<1> USE DEF IndInv, TypeOK, PipesType
<1>1. CASE UNCHANGED vars
  BY <1>1 DEF vars, calls, pool, pipes, process
<1>2. ASSUME NEW p \in Plugins, Edit(p) PROVE PipesType'
  BY <1>2 DEF Edit, calls, pool, pipes, process, Upset
<1>3. ASSUME NEW k \in Calls, LookUp(k) PROVE PipesType'
  BY <1>3, LookUpEffect DEF LookUp, TypesStay, Turn
<1>4. ASSUME NEW k \in Calls, LookUpUnread(k) PROVE PipesType'
  BY <1>4 DEF LookUpUnread, calls, pool, pipes, process, Turn, Goto, Worker, Holding, Ended, Upset, WriteLine
<1>5. ASSUME NEW k \in Calls, SpawnWorker(k) PROVE PipesType'
  BY <1>5, Numbers DEF PoolType, SpawnWorker, calls, pool, pipes, process, Turn, Goto, Worker, Holding, Ended, Upset, WriteLine
<1>6. ASSUME NEW k \in Calls, SpawnFails(k) PROVE PipesType'
  BY <1>6, FailTypes DEF SpawnFails
<1>7. ASSUME NEW k \in Calls, Write(k) PROVE PipesType'
  <2>1. Worker(k) \in Calls
    BY <1>7, WorkerOfCall DEF Write
  <2> QED
    BY <1>7, <2>1, WriteLineTypes DEF Write
<1>8. ASSUME NEW k \in Calls, WriteFails(k) PROVE PipesType'
  BY <1>8, FailTypes DEF WriteFails
<1>9. ASSUME NEW k \in Calls, TimeOut(k) PROVE PipesType'
  BY <1>9, FailTypes DEF TimeOut
<1>10. ASSUME NEW k \in Calls, Drop(k) PROVE PipesType'
  BY <1>10 DEF Drop, calls, pool, pipes, process
<1>11. ASSUME NEW k \in Calls, Deliver(k) PROVE PipesType'
  BY <1>11 DEF Deliver, calls, pool, pipes, process, Reach, Goto, Ended, Holding
<1>12. ASSUME NEW k \in Calls, RelayAnswers(k) PROVE PipesType'
  BY <1>12, WriteLineTypes DEF RelayAnswers
<1>13. ASSUME NEW k \in Calls, Read(k) PROVE PipesType'
  BY <1>13 DEF Read, calls, pool, pipes, process, Goto, Upset, Turn
<1>14. ASSUME NEW k \in Calls, ReadTorn(k) PROVE PipesType'
  BY <1>14, EndEffect DEF ReadTorn, calls, pool, pipes, process, TypesStay
<1>15. ASSUME NEW k \in Calls, Flush(k) PROVE PipesType'
  <2>1. out[k] \in Calls \union {Http} /\ stdout[k] \in Seq(Calls \union {Http})
    BY <1>15 DEF Flush, ProcessType
  <2>2. Append(stdout[k], out[k]) \in Seq(Calls \union {Http})
    BY <2>1
  <2> QED
    BY <1>15, <2>2 DEF Flush
<1>16. ASSUME NEW k \in Calls, Import(k) PROVE PipesType'
  BY <1>16, Numbers DEF PoolType, Import, calls, pool, pipes, process, Goto, Upset, Turn
<1>17. ASSUME NEW k \in Calls, Reply(k) PROVE PipesType'
  BY <1>17 DEF Reply, calls, pool, pipes, process, Goto, Upset, Turn
<1>18. ASSUME NEW k \in Calls, Fetch(k) PROVE PipesType'
  BY <1>18 DEF Fetch, calls, pool, pipes, process, Goto, Upset, Turn
<1>19. ASSUME NEW k \in Calls, Loop(k) PROVE PipesType'
  BY <1>19 DEF Loop, calls, pool, pipes, process, Goto, Upset, Turn
<1>20. ASSUME NEW k \in Calls, Exit(k) PROVE PipesType'
  BY <1>20, EndEffect DEF Exit, calls, pool, pipes, process, TypesStay
<1> QED
  BY Steps, <1>1, <1>2, <1>3, <1>4, <1>5, <1>6, <1>7, <1>8, <1>9, <1>10, <1>11, <1>12, <1>13, <1>14, <1>15, <1>16, <1>17, <1>18, <1>19, <1>20, Zenon

\* ... and of the processes.
LEMMA ProcessTypeStep == IndInv /\ [Next]_vars => ProcessType'
<1> SUFFICES ASSUME IndInv, [Next]_vars PROVE ProcessType'
  OBVIOUS
<1> USE DEF IndInv, TypeOK, ProcessType, PipesType
<1>1. CASE UNCHANGED vars
  BY <1>1 DEF vars, calls, pool, pipes, process
<1>2. ASSUME NEW p \in Plugins, Edit(p) PROVE ProcessType'
  BY <1>2 DEF Edit, calls, pool, pipes, process, Upset
<1>3. ASSUME NEW k \in Calls, LookUp(k) PROVE ProcessType'
  BY <1>3, LookUpEffect DEF LookUp, TypesStay, Turn
<1>4. ASSUME NEW k \in Calls, LookUpUnread(k) PROVE ProcessType'
  BY <1>4 DEF LookUpUnread, calls, pool, pipes, process, Turn, Goto, Worker, Holding, Ended, Upset, WriteLine
<1>5. ASSUME NEW k \in Calls, SpawnWorker(k) PROVE ProcessType'
  BY <1>5, Numbers DEF PoolType, SpawnWorker, calls, pool, pipes, process, Turn, Goto, Worker, Holding, Ended, Upset, WriteLine
<1>6. ASSUME NEW k \in Calls, SpawnFails(k) PROVE ProcessType'
  BY <1>6, FailTypes DEF SpawnFails
<1>7. ASSUME NEW k \in Calls, Write(k) PROVE ProcessType'
  BY <1>7, WorkerOfCall, Numbers DEF Write, calls, pool, pipes, process, WriteLine
<1>8. ASSUME NEW k \in Calls, WriteFails(k) PROVE ProcessType'
  BY <1>8, FailTypes DEF WriteFails
<1>9. ASSUME NEW k \in Calls, TimeOut(k) PROVE ProcessType'
  BY <1>9, FailTypes DEF TimeOut
<1>10. ASSUME NEW k \in Calls, Drop(k) PROVE ProcessType'
  BY <1>10 DEF Drop, calls, pool, pipes, process
<1>11. ASSUME NEW k \in Calls, Deliver(k) PROVE ProcessType'
  <2>1. relays' \in [Calls -> Nat]
    <3>1. CASE Head(stdout[k]) = Http
      BY <1>11, <3>1 DEF Deliver
    <3>2. CASE Head(stdout[k]) # Http
      BY <1>11, <3>2 DEF Deliver
    <3> QED
      BY <3>1, <3>2
  <2> QED
    BY <1>11, <2>1 DEF Deliver
<1>12. ASSUME NEW k \in Calls, RelayAnswers(k) PROVE ProcessType'
  <2>1. relays' = [relays EXCEPT ![k] = relays[k] - 1] /\ relays[k] - 1 \in Nat
    BY <1>12 DEF RelayAnswers
  <2> QED
    BY <1>12, <2>1 DEF RelayAnswers
<1>13. ASSUME NEW k \in Calls, Read(k) PROVE ProcessType'
  BY <1>13 DEF Read, calls, pool, pipes, process, Idle
<1>14. ASSUME NEW k \in Calls, ReadTorn(k) PROVE ProcessType'
  BY <1>14, EndEffect DEF ReadTorn, calls, pool, pipes, process, TypesStay
<1>15. ASSUME NEW k \in Calls, Flush(k) PROVE ProcessType'
  BY <1>15 DEF Flush, calls, pool, pipes, process, Goto, Upset, Turn
<1>16. ASSUME NEW k \in Calls, Import(k) PROVE ProcessType'
  BY <1>16, Numbers DEF PoolType, Import, calls, pool, pipes, process, Goto, Upset, Turn
<1>17. ASSUME NEW k \in Calls, Reply(k) PROVE ProcessType'
  BY <1>17 DEF Reply, calls, pool, pipes, process, Idle
<1>18. ASSUME NEW k \in Calls, Fetch(k) PROVE ProcessType'
  BY SMTT(30), <1>18 DEF Fetch, calls, pool, pipes, process, Idle
<1>19. ASSUME NEW k \in Calls, Loop(k) PROVE ProcessType'
  BY <1>19 DEF Loop, calls, pool, pipes, process, Goto, Upset, Turn
<1>20. ASSUME NEW k \in Calls, Exit(k) PROVE ProcessType'
  BY <1>20, EndEffect DEF Exit, calls, pool, pipes, process, TypesStay
<1> QED
  BY Steps, <1>1, <1>2, <1>3, <1>4, <1>5, <1>6, <1>7, <1>8, <1>9, <1>10, <1>11, <1>12, <1>13, <1>14, <1>15, <1>16, <1>17, <1>18, <1>19, <1>20, Zenon

\* Every step keeps the types.
LEMMA TypeOKStep == IndInv /\ [Next]_vars => TypeOK'
<1> SUFFICES ASSUME IndInv, [Next]_vars PROVE TypeOK'
  OBVIOUS
<1>1. upsets \in 0..MaxUpsets
  BY DEF IndInv, TypeOK
<1>2. upsets' = upsets \/ Upset
  BY DEF Next, vars, CallStep, WorkerStep, Edit, LookUp, LookUpUnread, SpawnWorker,
         SpawnFails, Write, WriteFails, TimeOut, Drop, Deliver, RelayAnswers, Read,
         ReadTorn, Flush, Import, Reply, Fetch, Loop, Exit
<1>3. upsets' \in 0..MaxUpsets
  BY <1>1, <1>2 DEF Upset
<1> QED
  BY <1>3, CallsTypeStep, PoolTypeStep, PipesTypeStep, ProcessTypeStep DEF TypeOK

\* The steps of a call, of an editor, and of the tasks that serve it.
LEMMA CallSteps ==
  ASSUME [Next]_vars
  PROVE  \/ UNCHANGED <<calls, file, lock, workers, stamp>>
         \/ \E p \in Plugins : Edit(p)
         \/ \E k \in Calls :
              \/ LookUp(k) \/ LookUpUnread(k) \/ SpawnWorker(k) \/ SpawnFails(k) \/ Write(k)
              \/ WriteFails(k) \/ TimeOut(k) \/ Drop(k) \/ Deliver(k)
BY Steps DEF vars, calls, pool, pipes, process, RelayAnswers, Read, ReadTorn, Flush, Import,
             Reply, Fetch, Loop, Exit

\* At most one call is past its turn.
LEMMA OneHolds ==
  ASSUME IndInv, NEW j \in Calls, at[j] \in Holding
  PROVE  lock = j /\ \A k \in Calls \ {j} : at[k] \notin Holding
BY DEF IndInv, OneCallWorks

\* A call that ends leaves nobody past its turn.
LEMMA EndOfCall ==
  ASSUME IndInv, NEW k \in Calls, at[k] \in Holding, NEW e \in Ended,
         at' = [at EXCEPT ![k] = e], lock' = Nothing
  PROVE  OneCallWorks'
<1>1. \A j \in Calls : at'[j] \notin Holding
  BY OneHolds DEF IndInv, TypeOK, CallsType, Holding, Ended
<1> QED
  BY <1>1, Numbers DEF OneCallWorks, Holding

\* Every step keeps the rest of the invariant, part by part.
LEMMA OneCallWorksStep == IndInv /\ [Next]_vars => OneCallWorks'
<1> SUFFICES ASSUME IndInv, [Next]_vars PROVE OneCallWorks'
  OBVIOUS
<1> USE DEF IndInv, TypeOK, CallsType, PoolType, PipesType
<1>1. ASSUME UNCHANGED <<at, found, lock, workers, stamp>> PROVE OneCallWorks'
  BY <1>1 DEF OneCallWorks, Worker
<1>2. ASSUME NEW k \in Calls, LookUp(k) PROVE OneCallWorks'
  <2>1. lock = Nothing /\ lock' = k /\ found' = [found EXCEPT ![k] = file[plugin[k]]]
    BY <1>2 DEF LookUp, Turn
  <2>2. \A j \in Calls : at[j] \notin Holding
    BY <2>1, Numbers DEF OneCallWorks
  <2>3. CASE at' = [at EXCEPT ![k] = "spawn"]
    BY <2>1, <2>2, <2>3 DEF OneCallWorks, Holding
  <2>4. CASE at' = [at EXCEPT ![k] = "writing"] /\ Worker(k) # Nothing
    <3>1. UNCHANGED <<workers, stamp>> /\ found'[k] <= stamp[Worker(k)]
      BY <1>2, <2>1, <2>4, LookUpEffect DEF pipes, Holding
    <3> QED
      BY <2>1, <2>2, <2>4, <3>1 DEF OneCallWorks, Holding, Worker
  <2> QED
    BY <1>2, <2>3, <2>4, LookUpEffect
<1>3. ASSUME NEW k \in Calls, LookUpUnread(k) PROVE OneCallWorks'
  <2>1. /\ lock = Nothing /\ lock' = k /\ UNCHANGED <<found, workers, stamp>>
        /\ at' = [at EXCEPT ![k] = IF Worker(k) = Nothing THEN "spawn" ELSE "writing"]
        /\ found[k] = 0
    BY <1>3 DEF LookUpUnread, Turn, Goto, pipes, FoundInFile
  <2>2. \A j \in Calls : at[j] \notin Holding
    BY <2>1, Numbers DEF OneCallWorks
  <2>3. Worker(k) # Nothing => 0 <= stamp[Worker(k)]
    <3>1. Worker(k) \in Calls \union {Nothing}
      BY Numbers DEF Worker
    <3> QED
      BY <3>1
  <2> QED
    BY <2>1, <2>2, <2>3 DEF OneCallWorks, Holding, Worker
<1>4. ASSUME NEW k \in Calls, SpawnWorker(k) PROVE OneCallWorks'
  <2>1. lock = k /\ \A j \in Calls \ {k} : at[j] \notin Holding
    BY <1>4, OneHolds DEF SpawnWorker, Holding
  <2>2. /\ at' = [at EXCEPT ![k] = "writing"] /\ UNCHANGED <<lock, found>>
        /\ workers' = [workers EXCEPT ![plugin[k]] = k]
        /\ stamp' = [stamp EXCEPT ![k] = file[plugin[k]]]
    BY <1>4 DEF SpawnWorker, Goto
  <2>3. workers'[plugin[k]] = k /\ found[k] <= stamp'[k]
    BY <2>2, Numbers DEF FoundInFile
  <2> QED
    BY <2>1, <2>2, <2>3, Numbers DEF OneCallWorks, Holding, Worker
<1>5. ASSUME NEW k \in Calls, SpawnFails(k) \/ WriteFails(k) \/ TimeOut(k) PROVE OneCallWorks'
  <2>1. at[k] \in Holding /\ at' = [at EXCEPT ![k] = "failed"] /\ lock' = Nothing
    BY <1>5 DEF SpawnFails, WriteFails, TimeOut, Fail, Goto, Holding
  <2> QED
    BY <2>1, EndOfCall DEF Ended
<1>6. ASSUME NEW k \in Calls, Write(k) PROVE OneCallWorks'
  BY <1>6 DEF Write, Goto, pool, OneCallWorks, Holding, Worker
<1>7. ASSUME NEW k \in Calls, Drop(k) PROVE OneCallWorks'
  <2>1. /\ at' = [at EXCEPT ![k] = "dropped"] /\ UNCHANGED <<found, workers, stamp>>
        /\ lock' = IF lock = k THEN Nothing ELSE lock
    BY <1>7 DEF Drop, Goto
  <2> QED
    BY <2>1, Numbers DEF OneCallWorks, Holding, Worker
<1>8. ASSUME NEW w \in Calls, Deliver(w) PROVE OneCallWorks'
  <2>1. UNCHANGED <<found, workers, stamp>>
    BY <1>8 DEF Deliver
  <2>2. CASE UNCHANGED <<at, lock>>
    BY <2>1, <2>2, <1>1
  <2>3. CASE /\ at' = [at EXCEPT ![Head(stdout[w])] = "done"] /\ lock' = Nothing
             /\ at[Head(stdout[w])] = "waiting" /\ Head(stdout[w]) # Http
    <3>1. Head(stdout[w]) \in Calls
      BY <1>8, <2>3 DEF Deliver
    <3> QED
      BY <2>3, <3>1, EndOfCall DEF Holding, Ended
  <2> QED
    BY <1>8, <2>2, <2>3 DEF Deliver, Reach, Goto
<1>9. ASSUME NEW p \in Plugins, Edit(p) PROVE OneCallWorks'
  BY <1>1, <1>9 DEF Edit, calls, pipes
<1> QED
  BY CallSteps, <1>1, <1>2, <1>3, <1>4, <1>5, <1>6, <1>7, <1>8, <1>9 DEF calls

\* Versions found stay versions the file has had.
LEMMA FoundInFileStep == IndInv /\ [Next]_vars => FoundInFile'
<1> SUFFICES ASSUME IndInv, [Next]_vars PROVE FoundInFile'
  OBVIOUS
<1> USE Numbers DEF IndInv, TypeOK, CallsType, PoolType, FoundInFile
<1>1. ASSUME UNCHANGED <<found, file>>, \A k \in Calls : at'[k] = "queued" => at[k] = "queued"
      PROVE  FoundInFile'
  BY <1>1
<1>2. ASSUME NEW k \in Calls, LookUp(k) PROVE FoundInFile'
  <2>1. found' = [found EXCEPT ![k] = file[plugin[k]]] /\ file' = file
    BY <1>2 DEF LookUp
  <2>2. PICK x \in {"spawn", "writing"} : at' = [at EXCEPT ![k] = x]
    BY <1>2 DEF LookUp, Goto
  <2> QED
    BY <2>1, <2>2
<1>3. ASSUME NEW k \in Calls, \/ LookUpUnread(k) \/ SpawnWorker(k) \/ SpawnFails(k) \/ Write(k)
                              \/ WriteFails(k) \/ TimeOut(k) \/ Drop(k)
      PROVE  FoundInFile'
  BY <1>1, <1>3 DEF LookUpUnread, SpawnWorker, SpawnFails, Write, WriteFails, TimeOut, Drop, Fail,
                    Goto, pool
<1>4. ASSUME NEW w \in Calls, Deliver(w) PROVE FoundInFile'
  BY <1>1, <1>4 DEF Deliver, Reach, Goto
<1>5. ASSUME NEW p \in Plugins, Edit(p) PROVE FoundInFile'
  BY <1>5 DEF Edit, calls
<1> QED
  BY CallSteps, <1>1, <1>2, <1>3, <1>4, <1>5 DEF calls

\* Nothing happens to a process that has not started, but that it starts.
Silent(v) == Untouched(v) /\ stdout'[v] = stdout[v] /\ code'[v] = code[v]
OnlyStartedMove == \A v \in Calls : IF Started(v) THEN state'[v] # "none" ELSE Silent(v)

\* So it is in every step.
LEMMA StartedMove ==
  ASSUME IndInv, [Next]_vars
  PROVE  OnlyStartedMove \/ \E k \in Calls : SpawnWorker(k)
<1> USE DEF IndInv, TypeOK, PipesType, ProcessType
<1>1. ASSUME UNCHANGED <<pipes, process>> PROVE OnlyStartedMove
  BY <1>1 DEF OnlyStartedMove, Silent, Untouched, Started, pipes, process
<1>2. ASSUME NEW w \in Calls, Started(w), state'[w] # "none",
             \A v \in Calls \ {w} : Silent(v)
      PROVE  OnlyStartedMove
  BY <1>2 DEF OnlyStartedMove, Silent, Untouched, Started
<1>3. ASSUME NEW p \in Plugins, Discard(p), UNCHANGED code PROVE OnlyStartedMove
  <2>1. \A v \in Calls : IF v = workers[p] THEN Ends(v) ELSE Silent(v)
    BY <1>3, DiscardEffect DEF Silent
  <2>2. \A v \in Calls : v = workers[p] => Started(v)
    BY Numbers DEF NamesAreFresh
  <2> QED
    BY <2>1, <2>2 DEF OnlyStartedMove, Silent, Untouched, Ends, Started
<1>4. ASSUME NEW k \in Calls, LookUp(k) PROVE OnlyStartedMove
  <2>1. plugin[k] \in Plugins /\ UNCHANGED code
    BY <1>4, Numbers DEF LookUp
  <2> QED
    BY <1>1, <1>3, <1>4, <2>1, LookUpEffect DEF LookUp
<1>5. ASSUME NEW k \in Calls, SpawnFails(k) \/ WriteFails(k) \/ TimeOut(k) PROVE OnlyStartedMove
  BY <1>3, <1>5, Numbers DEF SpawnFails, WriteFails, TimeOut, Fail
<1>6. ASSUME NEW k \in Calls, Write(k) PROVE OnlyStartedMove
  <2>1. Worker(k) \in Calls /\ Started(Worker(k))
    BY <1>6, WorkerOfCall DEF Write
  <2>2. /\ UNCHANGED <<stdout, process>>
        /\ \A v \in Calls \ {Worker(k)} : stdin'[v] = stdin[v]
    BY <1>6 DEF Write, WriteLine
  <2> QED
    BY <1>2, <2>1, <2>2 DEF Silent, Untouched, Started, process
<1>7. ASSUME NEW k \in Calls, LookUpUnread(k) PROVE OnlyStartedMove
  BY <1>1, <1>7 DEF LookUpUnread
<1>8. ASSUME NEW k \in Calls, Drop(k) PROVE OnlyStartedMove
  BY <1>8 DEF Drop, OnlyStartedMove, Silent, Untouched, Started, process
<1>9. ASSUME NEW w \in Calls, Deliver(w) PROVE OnlyStartedMove
  <2>1. Started(w)
    BY <1>9 DEF Deliver, NamesAreFresh
  <2>2. \A v \in Calls \ {w} : stdout'[v] = stdout[v] /\ relays'[v] = relays[v]
    BY <1>9 DEF Deliver
  <2> QED
    BY <1>2, <1>9, <2>1, <2>2 DEF Deliver, Silent, Untouched, Started
<1>10. ASSUME NEW w \in Calls, RelayAnswers(w) PROVE OnlyStartedMove
  <2>1. Started(w)
    BY <1>10 DEF RelayAnswers, NamesAreFresh
  <2>2. \A v \in Calls \ {w} : stdin'[v] = stdin[v] /\ relays'[v] = relays[v]
    BY <1>10 DEF RelayAnswers, WriteLine
  <2> QED
    BY <1>2, <1>10, <2>1, <2>2 DEF RelayAnswers, Silent, Untouched, Started
<1>11. ASSUME NEW w \in Calls, Read(w) \/ Flush(w) \/ Import(w) \/ Reply(w) \/ Fetch(w) \/ Loop(w)
       PROVE  OnlyStartedMove
  <2>1. Started(w) /\ state'[w] # "none"
    BY <1>11 DEF Read, Flush, Import, Reply, Fetch, Loop, Idle, Started
  <2>2. \A v \in Calls \ {w} : Silent(v)
    BY <1>11 DEF Read, Flush, Import, Reply, Fetch, Loop, Silent, Untouched, pipes
  <2> QED
    BY <1>2, <2>1, <2>2
<1>12. ASSUME NEW w \in Calls, ReadTorn(w) \/ Exit(w) PROVE OnlyStartedMove
  <2>1. Started(w) /\ End(w) /\ UNCHANGED <<stdout, code>>
    BY <1>12 DEF ReadTorn, Exit, Idle, Started
  <2> QED
    BY <1>2, <2>1, EndEffect DEF Ends, Silent
<1>13. ASSUME NEW p \in Plugins, Edit(p) PROVE OnlyStartedMove
  BY <1>1, <1>13 DEF Edit
<1> QED
  BY Steps, <1>1, <1>4, <1>5, <1>6, <1>7, <1>8, <1>9, <1>10, <1>11, <1>12, <1>13 DEF vars

\* Calls move on, and only a spawn names a worker.
MapOnlyShrinks ==
  /\ \A k \in Calls : at'[k] \in {"queued", "spawn"} => at[k] \in {"queued", "spawn"}
  /\ \A p \in Plugins : workers'[p] \in {workers[p], Nothing}

\* So it is in every step.
LEMMA MapShrinks ==
  ASSUME IndInv, [Next]_vars
  PROVE  MapOnlyShrinks \/ \E k \in Calls : SpawnWorker(k)
<1> USE Numbers DEF IndInv, TypeOK, CallsType, PoolType
<1>1. ASSUME UNCHANGED <<at, workers>> PROVE MapOnlyShrinks
  BY <1>1 DEF MapOnlyShrinks
<1>2. ASSUME NEW k \in Calls, NEW x \in {"writing", "waiting"} \union Ended,
             at' = [at EXCEPT ![k] = x], \A p \in Plugins : workers'[p] \in {workers[p], Nothing}
      PROVE  MapOnlyShrinks
  BY <1>2 DEF MapOnlyShrinks, Ended
<1>3. ASSUME NEW k \in Calls, NEW x \in {"spawn", "writing"}, at[k] = "queued",
             at' = [at EXCEPT ![k] = x], \A p \in Plugins : workers'[p] \in {workers[p], Nothing}
      PROVE  MapOnlyShrinks
  BY <1>3 DEF MapOnlyShrinks
<1>4. ASSUME NEW k \in Calls, LookUp(k) PROVE MapOnlyShrinks
  <2>1. at[k] = "queued" /\ \E x \in {"spawn", "writing"} : at' = [at EXCEPT ![k] = x]
    BY <1>4 DEF LookUp, Goto, Turn
  <2>2. workers' = workers \/ workers' = [workers EXCEPT ![plugin[k]] = Nothing]
    BY <1>4 DEF LookUp, Discard
  <2> QED
    BY <1>3, <2>1, <2>2
<1>5. ASSUME NEW k \in Calls, LookUpUnread(k) PROVE MapOnlyShrinks
  <2>1. at[k] = "queued" /\ \E x \in {"spawn", "writing"} : at' = [at EXCEPT ![k] = x]
    BY <1>5 DEF LookUpUnread, Goto, Turn
  <2> QED
    BY <1>3, <1>5, <2>1 DEF LookUpUnread
<1>6. ASSUME NEW k \in Calls, SpawnFails(k) \/ WriteFails(k) \/ TimeOut(k) PROVE MapOnlyShrinks
  <2>1. at' = [at EXCEPT ![k] = "failed"] /\ workers' = [workers EXCEPT ![plugin[k]] = Nothing]
    BY <1>6 DEF SpawnFails, WriteFails, TimeOut, Fail, Goto, Discard
  <2> QED
    BY <1>2, <2>1 DEF Ended
<1>7. ASSUME NEW k \in Calls, Write(k) \/ Drop(k) PROVE MapOnlyShrinks
  <2>1. \E x \in {"waiting", "dropped"} : at' = [at EXCEPT ![k] = x]
    BY <1>7 DEF Write, Drop, Goto
  <2>2. workers' = workers
    BY <1>7 DEF Write, Drop, pool
  <2> QED
    BY <1>2, <2>1, <2>2 DEF Ended
<1>8. ASSUME NEW w \in Calls, Deliver(w) PROVE MapOnlyShrinks
  BY <1>8 DEF Deliver, Reach, Goto, MapOnlyShrinks
<1>9. ASSUME NEW p \in Plugins, Edit(p) PROVE MapOnlyShrinks
  BY <1>1, <1>9 DEF Edit, calls
<1> QED
  BY CallSteps, <1>1, <1>4, <1>5, <1>6, <1>7, <1>8, <1>9 DEF calls

\* Names of processes stay fresh until they are used.
LEMMA NamesAreFreshStep == IndInv /\ [Next]_vars => NamesAreFresh'
<1> SUFFICES ASSUME IndInv, [Next]_vars PROVE NamesAreFresh'
  OBVIOUS
<1> USE Numbers DEF IndInv, TypeOK, CallsType, PoolType, NamesAreFresh
<1>1. CASE OnlyStartedMove /\ MapOnlyShrinks
  <2>1. \A k \in Calls : at'[k] \in {"queued", "spawn"} => ~Started(k)'
    BY <1>1 DEF MapOnlyShrinks, OnlyStartedMove, Silent, Untouched, Started
  <2>2. ASSUME NEW p \in Plugins, workers'[p] # Nothing
        PROVE  Started(workers[p])' /\ plugin[workers'[p]] = p
    <3>1. workers'[p] = workers[p] /\ workers[p] \in Calls
      BY <1>1, <2>2 DEF MapOnlyShrinks
    <3>2. state'[workers[p]] # "none"
      BY <1>1, <2>2, <3>1 DEF OnlyStartedMove
    <3> QED
      BY <2>2, <3>1, <3>2 DEF Started
  <2>3. ASSUME NEW w \in Calls, ~Started(w)'
        PROVE  /\ code'[w] = 0 /\ doing'[w] = {} /\ out'[w] = Nothing /\ relays'[w] = 0
               /\ stdin'[w] = << >> /\ stdout'[w] = << >>
    BY <1>1, <2>3 DEF OnlyStartedMove, Silent, Untouched, Started
  <2> QED
    BY <2>1, <2>2, <2>3, <1>1 DEF MapOnlyShrinks, Started
<1>2. ASSUME NEW k \in Calls, SpawnWorker(k) PROVE NamesAreFresh'
  <2>1. /\ state' = [state EXCEPT ![k] = "up"] /\ at' = [at EXCEPT ![k] = "writing"]
        /\ workers' = [workers EXCEPT ![plugin[k]] = k]
        /\ UNCHANGED <<code, doing, out, relays, stdin, stdout>>
    BY <1>2 DEF SpawnWorker, Goto
  <2> QED
    BY <2>1 DEF Started, ProcessType
<1> QED
  BY <1>1, <1>2, StartedMove, MapShrinks

\* Imports come after stamps, and lines after imports.
LEMMA CodeFollowsStampStep == IndInv /\ [Next]_vars => CodeFollowsStamp'
<1> SUFFICES ASSUME IndInv, [Next]_vars PROVE CodeFollowsStamp'
  OBVIOUS
<1> USE Numbers DEF IndInv, TypeOK, PoolType, PipesType, ProcessType, CodeFollowsStamp
<1>1. ASSUME UNCHANGED <<stamp, code>>, \A p \in Plugins : file[p] <= file'[p],
             \A w \in Calls : out'[w] = out[w] \/ out'[w] = Nothing \/ code[w] # 0,
             \A w \in Calls : stdout'[w] = stdout[w] \/ stdout'[w] = << >> \/ code[w] # 0
      PROVE  CodeFollowsStamp'
  <2> SUFFICES ASSUME NEW w \in Calls
               PROVE  /\ stamp[w] <= file'[plugin[w]] /\ (code[w] = 0 \/ stamp[w] <= code[w])
                      /\ (out'[w] # Nothing \/ stdout'[w] # << >> => code[w] # 0)
    BY <1>1
  <2>1. stamp[w] <= file[plugin[w]] /\ file[plugin[w]] <= file'[plugin[w]]
    BY <1>1
  <2>2. file'[plugin[w]] \in Nat
    BY PoolTypeStep
  <2>3. stamp[w] <= file'[plugin[w]]
    BY <2>1, <2>2
  <2> QED
    BY <1>1, <2>3
<1>2. ASSUME NEW k \in Calls, SpawnWorker(k) PROVE CodeFollowsStamp'
  <2>1. stamp' = [stamp EXCEPT ![k] = file[plugin[k]]] /\ UNCHANGED <<file, code, out, stdout>>
    BY <1>2 DEF SpawnWorker
  <2>2. code[k] = 0
    BY <1>2 DEF SpawnWorker, NamesAreFresh, Started
  <2> QED
    BY <2>1, <2>2
<1>3. ASSUME NEW w \in Calls, Import(w) PROVE CodeFollowsStamp'
  <2>1. code' = [code EXCEPT ![w] = file[plugin[w]]] /\ UNCHANGED <<file, stamp, out, stdout>>
    BY <1>3 DEF Import, pool, pipes
  <2> QED
    BY <2>1
<1>4. ASSUME NEW k \in Calls, LookUp(k) PROVE CodeFollowsStamp'
  <2>1. plugin[k] \in Plugins /\ UNCHANGED <<file, stamp, code>>
    BY <1>4 DEF LookUp
  <2>2. CASE UNCHANGED <<pipes, process>>
    BY <1>1, <2>1, <2>2 DEF pipes, process
  <2>3. CASE Discard(plugin[k])
    BY <1>1, <2>1, <2>3, DiscardEffect DEF Ends, Untouched
  <2> QED
    BY <1>4, <2>2, <2>3, LookUpEffect
<1>5. ASSUME NEW k \in Calls, SpawnFails(k) \/ WriteFails(k) \/ TimeOut(k) PROVE CodeFollowsStamp'
  <2>1. plugin[k] \in Plugins /\ UNCHANGED <<file, stamp, code>> /\ Discard(plugin[k])
    BY <1>5 DEF SpawnFails, WriteFails, TimeOut, Fail
  <2> QED
    BY <1>1, <2>1, DiscardEffect DEF Ends, Untouched
<1>6. ASSUME NEW k \in Calls, \/ LookUpUnread(k) \/ Write(k) \/ Drop(k) \/ RelayAnswers(k)
                              \/ Read(k) \/ Loop(k)
      PROVE  CodeFollowsStamp'
  <2>1. UNCHANGED <<file, stamp, code, out, stdout>>
    BY <1>6 DEF LookUpUnread, Write, Drop, RelayAnswers, Read, Loop, pool, pipes, process
  <2> QED
    BY <1>1, <2>1
<1>7. ASSUME NEW w \in Calls, Deliver(w) \/ Reply(w) \/ Fetch(w) \/ Flush(w) PROVE CodeFollowsStamp'
  <2>1. code[w] # 0
    BY <1>7 DEF Deliver, Reply, Fetch, Flush
  <2>2. UNCHANGED <<file, stamp, code>>
    BY <1>7 DEF Deliver, Reply, Fetch, Flush, pool, pipes
  <2>3. \A v \in Calls \ {w} : out'[v] = out[v] /\ stdout'[v] = stdout[v]
    BY <1>7 DEF Deliver, Reply, Fetch, Flush, pipes
  <2> QED
    BY <1>1, <2>1, <2>2, <2>3
<1>8. ASSUME NEW w \in Calls, ReadTorn(w) \/ Exit(w) PROVE CodeFollowsStamp'
  <2>1. End(w) /\ UNCHANGED <<file, stamp, code, stdout>>
    BY <1>8 DEF ReadTorn, Exit, pool
  <2> QED
    BY <1>1, <2>1, EndEffect DEF Ends, Untouched
<1>9. ASSUME NEW p \in Plugins, Edit(p) PROVE CodeFollowsStamp'
  BY <1>1, <1>9 DEF Edit, pipes, process
<1>10. CASE UNCHANGED vars
  BY <1>1, <1>10 DEF vars, pool, pipes, process
<1> QED
  BY Steps, <1>2, <1>3, <1>4, <1>5, <1>6, <1>7, <1>8, <1>9, <1>10

\* What was sent to a process stays sent, until the process has its name anew.
LEMMA SentStays ==
  ASSUME IndInv, [Next]_vars, NEW w \in Calls
  PROVE  Sent(w) \subseteq Sent(w)' \/ SpawnWorker(w)
<1> USE Numbers DEF IndInv, TypeOK, CallsType, PoolType, Sent, Ended
<1>1. ASSUME UNCHANGED <<found, stamp>>,
             \A k \in Calls : at'[k] = at[k] \/ at'[k] \in {"waiting"} \union Ended
      PROVE  Sent(w) \subseteq Sent(w)'
  BY <1>1
<1>2. ASSUME NEW k \in Calls, LookUp(k) PROVE Sent(w) \subseteq Sent(w)'
  <2>1. /\ at[k] = "queued" /\ UNCHANGED stamp /\ found' = [found EXCEPT ![k] = file[plugin[k]]]
        /\ \E x \in {"spawn", "writing"} : at' = [at EXCEPT ![k] = x]
    BY <1>2 DEF LookUp, Goto, Turn
  <2> QED
    BY <2>1
<1>3. ASSUME NEW k \in Calls, LookUpUnread(k) PROVE Sent(w) \subseteq Sent(w)'
  <2>1. /\ at[k] = "queued" /\ UNCHANGED <<found, stamp>>
        /\ \E x \in {"spawn", "writing"} : at' = [at EXCEPT ![k] = x]
    BY <1>3 DEF LookUpUnread, Goto, Turn, pipes
  <2> QED
    BY <2>1
<1>4. ASSUME NEW k \in Calls, SpawnWorker(k), k # w PROVE Sent(w) \subseteq Sent(w)'
  <2>1. /\ at[k] = "spawn" /\ at' = [at EXCEPT ![k] = "writing"] /\ found' = found
        /\ stamp' = [stamp EXCEPT ![k] = file[plugin[k]]]
    BY <1>4 DEF SpawnWorker, Goto
  <2> QED
    BY <1>4, <2>1 DEF PipesType
<1>5. ASSUME NEW k \in Calls, \/ SpawnFails(k) \/ Write(k) \/ WriteFails(k) \/ TimeOut(k) \/ Drop(k)
      PROVE  Sent(w) \subseteq Sent(w)'
  BY <1>1, <1>5 DEF SpawnFails, Write, WriteFails, TimeOut, Drop, Fail, Goto
<1>6. ASSUME NEW v \in Calls, Deliver(v) PROVE Sent(w) \subseteq Sent(w)'
  BY <1>1, <1>6 DEF Deliver, Reach, Goto
<1>7. ASSUME UNCHANGED <<at, found, stamp>> PROVE Sent(w) \subseteq Sent(w)'
  BY <1>7
<1>8. ASSUME NEW p \in Plugins, Edit(p) PROVE Sent(w) \subseteq Sent(w)'
  BY <1>7, <1>8 DEF Edit, calls, pipes
<1> QED
  BY CallSteps, <1>2, <1>3, <1>4, <1>5, <1>6, <1>7, <1>8 DEF calls

\* What is on a pipe of lines from S is on one of lines from more.
LEMMA MoreLines ==
  ASSUME NEW S, NEW T, S \subseteq T, NEW s \in Seq(S) PROVE s \in Seq(T)
OBVIOUS

\* A process has on its pipes and at work, now or then, only calls in T.
CarriesOnly(w, T) ==
  /\ stdin[w] \in Seq(T \union {Http, Torn}) /\ stdout[w] \in Seq(T \union {Http})
  /\ doing[w] \subseteq T /\ out[w] \in T \union {Http, Nothing}
ThenCarriesOnly(w, T) ==
  /\ stdin'[w] \in Seq(T \union {Http, Torn}) /\ stdout'[w] \in Seq(T \union {Http})
  /\ doing'[w] \subseteq T /\ out'[w] \in T \union {Http, Nothing}

\* A line that is written to a process with such calls.
LEMMA LineCarried ==
  ASSUME IndInv, NEW w \in Calls, NEW T, CarriesOnly(w, T), NEW line \in T \union {Http},
         WriteLine(w, line)
  PROVE  stdin'[w] \in Seq(T \union {Http, Torn})
<1> DEFINE written == IF cut[w] THEN Torn ELSE line
<1>1. written \in T \union {Http, Torn} /\ stdin[w] \in Seq(T \union {Http, Torn})
  BY DEF CarriesOnly
<1>2. Append(stdin[w], written) \in Seq(T \union {Http, Torn})
  BY <1>1
<1>3. stdin' = [stdin EXCEPT ![w] = Append(stdin[w], written)]
  BY DEF WriteLine
<1> QED
  BY <1>2, <1>3 DEF IndInv, TypeOK, PipesType

\* A step brings no other call to a process than the one that writes to it.
LEMMA LinesMove ==
  ASSUME IndInv, [Next]_vars, NEW w \in Calls, NEW T, CarriesOnly(w, T),
         \A k \in Calls : Write(k) /\ Worker(k) = w => k \in T
  PROVE  ThenCarriesOnly(w, T)
<1> USE Numbers DEF IndInv, TypeOK, PipesType, ProcessType
<1>1. ASSUME stdin'[w] = stdin[w] \/ stdin'[w] = << >>,
             stdout'[w] = stdout[w] \/ stdout'[w] = << >>,
             doing'[w] = doing[w] \/ doing'[w] = {}, out'[w] = out[w] \/ out'[w] = Nothing
      PROVE  ThenCarriesOnly(w, T)
  <2>1. << >> \in Seq(T \union {Http, Torn}) /\ << >> \in Seq(T \union {Http})
    OBVIOUS
  <2>2. /\ stdin'[w] \in Seq(T \union {Http, Torn})
        /\ stdout'[w] \in Seq(T \union {Http})
    BY <1>1, <2>1 DEF CarriesOnly
  <2> QED
    BY <1>1, <2>2 DEF CarriesOnly, ThenCarriesOnly
<1>2. ASSUME UNCHANGED <<stdin, stdout, doing, out>> PROVE ThenCarriesOnly(w, T)
  BY <1>1, <1>2
<1>3. ASSUME NEW p \in Plugins, Discard(p) PROVE ThenCarriesOnly(w, T)
  BY <1>1, <1>3, DiscardEffect DEF Ends, Untouched
<1>4. ASSUME NEW k \in Calls, LookUp(k) PROVE ThenCarriesOnly(w, T)
  BY <1>2, <1>3, <1>4, LookUpEffect DEF pipes, process
<1>5. ASSUME NEW k \in Calls, SpawnFails(k) \/ WriteFails(k) \/ TimeOut(k)
      PROVE  ThenCarriesOnly(w, T)
  BY <1>3, <1>5 DEF SpawnFails, WriteFails, TimeOut, Fail
<1>6. ASSUME NEW k \in Calls, \/ LookUpUnread(k) \/ SpawnWorker(k) \/ Drop(k) \/ Import(k) \/ Loop(k)
      PROVE  ThenCarriesOnly(w, T)
  BY <1>2, <1>6 DEF LookUpUnread, SpawnWorker, Drop, Import, Loop, pipes, process
<1>7. ASSUME NEW k \in Calls, Write(k) PROVE ThenCarriesOnly(w, T)
  <2>1. WriteLine(Worker(k), k) /\ UNCHANGED <<stdout, doing, out>>
    BY <1>7 DEF Write, process
  <2>2. CASE Worker(k) # w
    BY <1>1, <2>1, <2>2 DEF WriteLine
  <2>3. CASE Worker(k) = w
    <3>1. stdin'[w] \in Seq(T \union {Http, Torn})
      BY <1>7, <2>1, <2>3, LineCarried
    <3> QED
      BY <2>1, <3>1 DEF CarriesOnly, ThenCarriesOnly
  <2> QED
    BY <2>2, <2>3
<1>8. ASSUME NEW v \in Calls, RelayAnswers(v) PROVE ThenCarriesOnly(w, T)
  <2>1. WriteLine(v, Http) /\ UNCHANGED <<stdout, doing, out>>
    BY <1>8 DEF RelayAnswers
  <2>2. CASE v # w
    BY <1>1, <2>1, <2>2 DEF WriteLine
  <2>3. CASE v = w
    <3>1. stdin'[w] \in Seq(T \union {Http, Torn})
      BY <2>1, <2>3, LineCarried
    <3> QED
      BY <2>1, <3>1 DEF CarriesOnly, ThenCarriesOnly
  <2> QED
    BY <2>2, <2>3
<1>9. ASSUME NEW v \in Calls, Deliver(v) PROVE ThenCarriesOnly(w, T)
  <2>1. /\ UNCHANGED <<stdin, doing, out>> /\ stdout[v] # << >>
        /\ stdout' = [stdout EXCEPT ![v] = Tail(stdout[v])]
    BY <1>9 DEF Deliver
  <2>2. CASE v # w
    BY <1>1, <2>1, <2>2
  <2>3. CASE v = w
    <3>1. Tail(stdout[w]) \in Seq(T \union {Http})
      BY <2>1, <2>3 DEF CarriesOnly
    <3> QED
      BY <2>1, <2>3, <3>1 DEF CarriesOnly, ThenCarriesOnly
  <2> QED
    BY <2>2, <2>3
<1>10. ASSUME NEW v \in Calls, Read(v) PROVE ThenCarriesOnly(w, T)
  <2>1. /\ UNCHANGED <<stdout, out>> /\ stdin[v] # << >>
        /\ stdin' = [stdin EXCEPT ![v] = Tail(stdin[v])]
        /\ doing' = [doing EXCEPT ![v] = doing[v] \union ({Head(stdin[v])} \intersect Calls)]
    BY <1>10 DEF Read
  <2>2. CASE v # w
    BY <1>1, <2>1, <2>2
  <2>3. CASE v = w
    <3>1. Tail(stdin[w]) \in Seq(T \union {Http, Torn}) /\ Head(stdin[w]) \in T \union {Http, Torn}
      BY <2>1, <2>3 DEF CarriesOnly
    <3> QED
      BY <2>1, <2>3, <3>1 DEF CarriesOnly, ThenCarriesOnly
  <2> QED
    BY <2>2, <2>3
<1>11. ASSUME NEW v \in Calls, Reply(v) \/ Fetch(v) PROVE ThenCarriesOnly(w, T)
  <2>1. UNCHANGED <<stdin, stdout>> /\ \A u \in Calls \ {v} : doing'[u] = doing[u] /\ out'[u] = out[u]
    BY <1>11 DEF Reply, Fetch, pipes
  <2>2. doing'[v] \subseteq doing[v] /\ out'[v] \in doing[v] \union {Http}
    BY <1>11 DEF Reply, Fetch
  <2> QED
    BY <2>1, <2>2 DEF CarriesOnly, ThenCarriesOnly
<1>12. ASSUME NEW v \in Calls, Flush(v) PROVE ThenCarriesOnly(w, T)
  <2>1. /\ UNCHANGED <<stdin, doing>> /\ out[v] # Nothing /\ out' = [out EXCEPT ![v] = Nothing]
        /\ stdout' = [stdout EXCEPT ![v] = Append(stdout[v], out[v])]
    BY <1>12 DEF Flush
  <2>2. CASE v # w
    BY <1>1, <2>1, <2>2
  <2>3. CASE v = w
    <3>1. stdout[w] \in Seq(T \union {Http}) /\ out[w] \in T \union {Http}
      BY <2>1, <2>3 DEF CarriesOnly
    <3>2. Append(stdout[w], out[w]) \in Seq(T \union {Http})
      BY <3>1
    <3> QED
      BY <2>1, <2>3, <3>2 DEF CarriesOnly, ThenCarriesOnly
  <2> QED
    BY <2>2, <2>3
<1>13. ASSUME NEW v \in Calls, ReadTorn(v) \/ Exit(v) PROVE ThenCarriesOnly(w, T)
  <2>1. End(v) /\ UNCHANGED stdout
    BY <1>13 DEF ReadTorn, Exit
  <2> QED
    BY <1>1, <2>1, EndEffect DEF Ends, Untouched
<1>14. ASSUME NEW p \in Plugins, Edit(p) PROVE ThenCarriesOnly(w, T)
  BY <1>2, <1>14 DEF Edit, pipes, process
<1>15. CASE UNCHANGED vars
  BY <1>2, <1>15 DEF vars, pipes, process
<1> QED
  BY Steps, <1>4, <1>5, <1>6, <1>7, <1>8, <1>9, <1>10, <1>11, <1>12, <1>13, <1>14, <1>15

\* Only what was sent to a process is in it.
LEMMA PipesCarrySentStep == IndInv /\ [Next]_vars => PipesCarrySent'
<1> SUFFICES ASSUME IndInv, [Next]_vars, NEW w \in Calls PROVE ThenCarriesOnly(w, Sent(w)')
  BY DEF PipesCarrySent, ThenCarriesOnly
<1>1. CarriesOnly(w, Sent(w))
  BY DEF IndInv, PipesCarrySent, CarriesOnly
<1>2. CASE SpawnWorker(w)
  <2>1. /\ stdin'[w] = << >> /\ stdout'[w] = << >> /\ doing'[w] = {} /\ out'[w] = Nothing
    BY <1>2 DEF SpawnWorker, IndInv, NamesAreFresh, Started
  <2> QED
    BY <2>1 DEF ThenCarriesOnly
<1>3. CASE ~SpawnWorker(w)
  <2>1. Sent(w) \subseteq Sent(w)'
    BY <1>3, SentStays
  <2>2. CarriesOnly(w, Sent(w)')
    <3>1. /\ stdin[w] \in Seq(Sent(w)' \union {Http, Torn})
          /\ stdout[w] \in Seq(Sent(w)' \union {Http})
      <4>1. /\ Sent(w) \union {Http, Torn} \subseteq Sent(w)' \union {Http, Torn}
            /\ Sent(w) \union {Http} \subseteq Sent(w)' \union {Http}
        BY <2>1
      <4> QED
        BY <1>1, <4>1, MoreLines DEF CarriesOnly
    <3> QED
      BY <1>1, <2>1, <3>1 DEF CarriesOnly
  <2>3. ASSUME NEW k \in Calls, Write(k), Worker(k) = w PROVE k \in Sent(w)'
    BY <2>3 DEF Write, Goto, pool, Sent, IndInv, TypeOK, CallsType, OneCallWorks
  <2> QED
    BY <2>2, <2>3, LinesMove
<1> QED
  BY <1>2, <1>3

\* A call is answered by a process it was sent to.
LEMMA AnswersAreNewStep == IndInv /\ [Next]_vars => AnswersAreNew'
<1> SUFFICES ASSUME IndInv, [Next]_vars PROVE AnswersAreNew'
  OBVIOUS
<1> USE Numbers DEF IndInv, TypeOK, CallsType, PoolType, AnswersAreNew
<1>1. \A w \in Calls : code[w] # 0 => code'[w] = code[w]
  <2>1. code' = code \/ \E w \in Calls : Import(w)
    BY Steps DEF vars, process, Edit, LookUp, LookUpUnread, SpawnWorker, SpawnFails, Write, WriteFails,
             TimeOut, Drop, Fail, Deliver, RelayAnswers, Read, ReadTorn, Flush, Reply, Fetch, Loop, Exit
  <2> QED
    BY <2>1 DEF Import, ProcessType
<1>2. ASSUME \A k \in Calls : at'[k] = "done" => at[k] = "done" /\ by'[k] = by[k] /\ found'[k] = found[k]
      PROVE  AnswersAreNew'
  <2> SUFFICES ASSUME NEW k \in Calls, at'[k] = "done"
               PROVE  by'[k] # Nothing /\ code'[by'[k]] # 0 /\ found'[k] <= code'[by'[k]]
    OBVIOUS
  <2>1. /\ at[k] = "done" /\ by'[k] = by[k] /\ found'[k] = found[k]
        /\ by[k] \in Calls /\ code[by[k]] # 0 /\ found[k] <= code[by[k]]
    BY <1>2
  <2> QED
    BY <1>1, <2>1
<1>3. ASSUME NEW k \in Calls, \/ LookUp(k) \/ LookUpUnread(k) \/ SpawnWorker(k) \/ SpawnFails(k)
                              \/ Write(k) \/ WriteFails(k) \/ TimeOut(k) \/ Drop(k)
      PROVE  AnswersAreNew'
  <2>1. /\ \E x \in {"spawn", "writing", "waiting", "failed", "dropped"} : at' = [at EXCEPT ![k] = x]
        /\ \A j \in Calls \ {k} : by'[j] = by[j] /\ found'[j] = found[j]
    BY <1>3 DEF LookUp, LookUpUnread, SpawnWorker, SpawnFails, Write, WriteFails, TimeOut, Drop, Fail,
                Goto
  <2> QED
    BY <1>2, <2>1
<1>4. ASSUME NEW w \in Calls, Deliver(w) PROVE AnswersAreNew'
  <2>1. UNCHANGED found /\ stdout[w] # << >> /\ code[w] # 0 /\ stamp[w] <= code[w]
    BY <1>4 DEF Deliver, CodeFollowsStamp
  <2>2. CASE UNCHANGED <<at, by>>
    BY <1>2, <2>1, <2>2
  <2>3. CASE /\ at' = [at EXCEPT ![Head(stdout[w])] = "done"]
             /\ by' = [by EXCEPT ![Head(stdout[w])] = w] /\ Head(stdout[w]) # Http
    <3>1. Head(stdout[w]) \in Sent(w)
      <4>1. stdout[w] \in Seq(Sent(w) \union {Http})
        BY DEF PipesCarrySent
      <4> QED
        BY <2>1, <2>3, <4>1
    <3>2. Head(stdout[w]) \in Calls /\ found[Head(stdout[w])] <= stamp[w]
      BY <3>1 DEF Sent
    <3>3. found[Head(stdout[w])] <= code[w]
      <4>1. /\ found[Head(stdout[w])] \in Nat /\ stamp[w] \in Nat /\ code[w] \in Nat
        BY <3>2 DEF PipesType, ProcessType
      <4> QED
        BY <2>1, <3>2, <4>1
    <3> QED
      BY <1>1, <2>1, <2>3, <3>2, <3>3
  <2> QED
    BY <1>4, <2>2, <2>3 DEF Deliver, Reach, Goto
<1>5. ASSUME UNCHANGED calls PROVE AnswersAreNew'
  BY <1>2, <1>5 DEF calls
<1>6. ASSUME NEW p \in Plugins, Edit(p) PROVE AnswersAreNew'
  BY <1>5, <1>6 DEF Edit
<1> QED
  BY CallSteps, <1>3, <1>4, <1>5, <1>6

\* Who fails takes the process out of the map.
LEMMA FailedHaveLeftStep == IndInv /\ [Next]_vars => FailedHaveLeft'
<1> SUFFICES ASSUME IndInv, [Next]_vars PROVE FailedHaveLeft'
  OBVIOUS
<1> USE Numbers DEF IndInv, TypeOK, CallsType, PoolType
<1>1. \A w \in Calls : Started(w) => Started(w)'
  <2>1. CASE OnlyStartedMove
    BY <2>1 DEF OnlyStartedMove, Started
  <2>2. ASSUME NEW k \in Calls, SpawnWorker(k) PROVE \A w \in Calls : Started(w) => Started(w)'
    BY <2>2 DEF SpawnWorker, Started, ProcessType
  <2> QED
    BY <2>1, <2>2, StartedMove
<1>2. \A w \in Calls : Started(w) /\ (\A p \in Plugins : workers[p] # w)
                         => \A p \in Plugins : workers'[p] # w
  <2>1. CASE MapOnlyShrinks
    BY <2>1 DEF MapOnlyShrinks
  <2>2. ASSUME NEW k \in Calls, SpawnWorker(k), NEW w \in Calls, Started(w),
               \A p \in Plugins : workers[p] # w
        PROVE  \A p \in Plugins : workers'[p] # w
    <3>1. ~Started(k) /\ workers' = [workers EXCEPT ![plugin[k]] = k]
      BY <2>2 DEF SpawnWorker, NamesAreFresh
    <3> QED
      BY <2>2, <3>1
  <2> QED
    BY <2>1, <2>2, MapShrinks
<1>3. ASSUME \A k \in Calls : at'[k] = "failed" => at[k] = "failed" /\ by'[k] = by[k]
      PROVE  FailedHaveLeft'
  <2>1. ASSUME NEW k \in Calls, at'[k] = "failed", by'[k] # Nothing
        PROVE  Started(by[k])' /\ \A p \in Plugins : workers'[p] # by'[k]
    <3>1. at[k] = "failed" /\ by'[k] = by[k] /\ by[k] \in Calls
      BY <1>3, <2>1
    <3>2. Started(by[k]) /\ \A p \in Plugins : workers[p] # by[k]
      BY <2>1, <3>1 DEF FailedHaveLeft
    <3>3. state'[by[k]] # "none"
      BY <1>1, <3>1, <3>2 DEF Started
    <3> QED
      BY <1>2, <3>1, <3>2, <3>3 DEF Started
  <2>2. OneFailurePerProcess'
    BY <1>3 DEF FailedHaveLeft, OneFailurePerProcess
  <2> QED
    BY <2>1, <2>2 DEF FailedHaveLeft
<1>4. ASSUME NEW k \in Calls, SpawnFails(k) \/ WriteFails(k) \/ TimeOut(k) PROVE FailedHaveLeft'
  <2>1. /\ at' = [at EXCEPT ![k] = "failed"] /\ by' = [by EXCEPT ![k] = Worker(k)]
        /\ workers' = [workers EXCEPT ![plugin[k]] = Nothing]
    BY <1>4 DEF SpawnFails, WriteFails, TimeOut, Fail, Goto, Discard
  <2>2. Worker(k) # Nothing => /\ Started(Worker(k))
                               /\ \A p \in Plugins : workers'[p] # Worker(k)
    BY <2>1 DEF NamesAreFresh, Worker
  <2>3. \A j \in Calls \ {k} : at[j] = "failed" /\ by[j] # Nothing => by[j] # Worker(k)
    BY DEF FailedHaveLeft, Worker
  <2>4. ASSUME NEW j \in Calls, at'[j] = "failed", by'[j] # Nothing
        PROVE  Started(by[j])' /\ \A p \in Plugins : workers'[p] # by'[j]
    <3>1. Started(by'[j]) /\ by'[j] \in Calls
      BY <2>1, <2>2, <2>4 DEF FailedHaveLeft, Worker
    <3>2. state'[by'[j]] # "none"
      BY <1>1, <3>1 DEF Started
    <3>3. \A p \in Plugins : workers'[p] # by'[j]
      BY <1>2, <2>1, <2>2, <2>4, <3>1 DEF FailedHaveLeft
    <3> QED
      BY <3>2, <3>3 DEF Started
  <2>5. OneFailurePerProcess'
    BY <2>1, <2>3 DEF FailedHaveLeft, OneFailurePerProcess
  <2> QED
    BY <2>4, <2>5 DEF FailedHaveLeft
<1>5. ASSUME NEW k \in Calls, \/ LookUp(k) \/ LookUpUnread(k) \/ SpawnWorker(k) \/ Write(k) \/ Drop(k)
      PROVE  FailedHaveLeft'
  <2>1. /\ \E x \in {"spawn", "writing", "waiting", "dropped"} : at' = [at EXCEPT ![k] = x]
        /\ by' = by
    BY <1>5 DEF LookUp, LookUpUnread, SpawnWorker, Write, Drop, Goto
  <2> QED
    BY <1>3, <2>1
<1>6. ASSUME NEW w \in Calls, Deliver(w) PROVE FailedHaveLeft'
  BY <1>3, <1>6 DEF Deliver, Reach, Goto
<1>7. ASSUME UNCHANGED calls PROVE FailedHaveLeft'
  BY <1>3, <1>7 DEF calls
<1>8. ASSUME NEW p \in Plugins, Edit(p) PROVE FailedHaveLeft'
  BY <1>7, <1>8 DEF Edit
<1> QED
  BY CallSteps, <1>4, <1>5, <1>6, <1>7, <1>8

\* The invariant holds of every run of the pool.
THEOREM SpecIndInv == Spec => []IndInv
<1>1. IndInv /\ [Next]_vars => IndInv'
  BY TypeOKStep, OneCallWorksStep, FoundInFileStep, NamesAreFreshStep, CodeFollowsStampStep,
     PipesCarrySentStep, AnswersAreNewStep, FailedHaveLeftStep DEF IndInv
<1> QED
  BY InitIndInv, <1>1, PTL DEF Spec

\* Type correctness of the pool, its workers and their processes.
THEOREM AlwaysTypeOK == Spec => []TypeOK
<1>1. IndInv => TypeOK
  BY DEF IndInv
<1> QED
  BY <1>1, SpecIndInv, PTL

\* An answer comes from code no older than the file was when the call's turn came,
\* whatever is edited, abandoned or still on the pipes (execute, pool.rs:494-503).
THEOREM AlwaysNewCodeAnswers == Spec => []NewCodeAnswers
<1>1. IndInv => NewCodeAnswers
  BY DEF IndInv, AnswersAreNew, NewCodeAnswers
<1> QED
  BY <1>1, SpecIndInv, PTL

\* A process fails one call at most: who fails takes it out of the map
\* (execute, pool.rs:529-533).
THEOREM AlwaysOneFailurePerProcess == Spec => []OneFailurePerProcess
<1>1. IndInv => OneFailurePerProcess
  BY DEF IndInv, FailedHaveLeft
<1> QED
  BY <1>1, SpecIndInv, PTL
=============================================================================

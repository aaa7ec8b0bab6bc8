------------------------ MODULE DownloadQueue_proofs ------------------------
(***************************************************************************)
(* The download queue for any rows, requests, number of runs, lost updates  *)
(* and restarts: every variable has its type, a token belongs to a run that  *)
(* has not ended, and the job registry says of each run what it is doing.   *)
(***************************************************************************)
EXTENDS DownloadQueue, TLAPS

USE QueueAssumption DEF Runs, NoRun, Copies, NoTask

\* Where an update of the row ends, the task goes on.
LEMMA AfterPlaces ==
  /\ WritePlaces \subseteq Working
  /\ \A p \in WritePlaces : After[p] \in Working
BY DEF After, WritePlaces, Working, Places

\* A copy of a row is a row, and no row is the missing one.
LEMMA GoneIsNoRow == Gone \notin Rows /\ Gone \in Copies
BY DEF Gone, Rows, States

\* A row with its state, job and archive mark replaced is a row.
LEMMA RowChanged ==
  ASSUME NEW r \in Rows, NEW s \in States, NEW j \in Runs \union {NoRun},
         NEW a \in Runs \union {NoRun}
  PROVE  [r EXCEPT !.st = s, !.job = j, !.arch = a] \in Rows
BY DEF Rows

\* What update_queue_item_state stores is a row.
LEMMA ImageIsRow ==
  ASSUME NEW j \in Runs, pc[j] \in WritePlaces, NEW r \in Rows
  PROVE  Image(j, r) \in Rows
<1>1. CASE pc[j] \in NotePlaces
  BY <1>1 DEF Image
<1>2. CASE pc[j] \notin NotePlaces
  <2>1. Label[pc[j]] \in States
    BY <1>2 DEF WritePlaces, After, NotePlaces, Label, States
  <2>2. r.arch \in Runs \union {NoRun}
    BY DEF Rows
  <2>3. QED
    BY <1>2, <2>1, <2>2, RowChanged DEF Image
<1>3. QED
  BY <1>1, <1>2

\* The initial state satisfies the inductive invariant.
LEMMA InitRunsInv == Init => RunsInv
<1> SUFFICES ASSUME Init PROVE RunsInv
  OBVIOUS
<1>1. [Gone EXCEPT !.st = "Queued"] \in Rows
  BY DEF Gone, Rows, States
<1>2. TypeOK
  BY <1>1 DEF Init, TypeOK, Gone, Places, Idle, NoFetch, NoRequest, Fetches,
     Handlers, HandlerPlaces
<1>3. QED
  BY <1>2 DEF Init, RunsInv, FreshRuns, PutIsDue, TokenBelongsToLiveRun, OpenJobs,
     Working, Places

\* A step that only moves a run's task on, from a place where it works and holds
\* no copy to another where it works.
LEMMA MovesRunsInv ==
  ASSUME RunsInv, NEW j \in Runs, NEW from \in Working \ WritePlaces, NEW to \in Working,
         Moves(j, from, to)
  PROVE  RunsInv'
<1> USE DEF RunsInv
<1>1. TypeOK'
  BY DEF TypeOK, Moves, Goto, Working, otherVars
<1>2. pc' = [pc EXCEPT ![j] = to] /\ pc[j] = from /\ to \notin NoTask
  BY DEF Moves, Goto, Working
<1>3. QED
  BY <1>1, <1>2 DEF TypeOK, FreshRuns, PutIsDue, TokenBelongsToLiveRun, OpenJobs, Moves,
     otherVars, Working

\* The steps of a run's task preserve the inductive invariant.
LEMMA RunStepRunsInv ==
  ASSUME RunsInv, NEW j \in Runs, RunStep(j) \/ LoseStore(j)
  PROVE  RunsInv'
<1> USE DEF RunsInv
<1>1. CASE Fetch(j)
  <2>1. TypeOK'
    <3>1. CASE row[item[j]] = Gone
      BY <1>1, <3>1, AfterPlaces DEF Fetch, TypeOK, Goto, otherVars, Working
    <3>2. CASE row[item[j]] # Gone
      <4>1. Image(j, row[item[j]]) \in Rows
        BY <1>1, <3>2, ImageIsRow DEF Fetch, TypeOK
      <4>2. QED
        BY <1>1, <3>2, <4>1 DEF Fetch, TypeOK, otherVars
    <3>3. QED
      BY <3>1, <3>2
  <2>2. FreshRuns' /\ TokenBelongsToLiveRun' /\ OpenJobs'
    <3>1. /\ pc' = pc \/ pc' = [pc EXCEPT ![j] = After[pc[j]]]
          /\ pc[j] \in Working /\ After[pc[j]] \in Working
          /\ UNCHANGED <<lastRun, item, jobs, token>>
      BY <1>1, AfterPlaces DEF Fetch, Goto
    <3>2. FreshRuns'
      BY <3>1 DEF TypeOK, FreshRuns, Working
    <3>3. TokenBelongsToLiveRun'
      BY <3>1 DEF TypeOK, TokenBelongsToLiveRun, Working
    <3>4. OpenJobs'
      BY <3>1 DEF TypeOK, OpenJobs, Working
    <3>5. QED
      BY <3>2, <3>3, <3>4
  <2>3. PutIsDue'
    BY <1>1 DEF Fetch, Goto, otherVars, TypeOK, PutIsDue
  <2>4. QED
    BY <2>1, <2>2, <2>3
<1>2. ASSUME Store(j) \/ LoseStore(j)
      PROVE  RunsInv'
  <2>1. /\ pc[j] \in WritePlaces
        /\ put' = [put EXCEPT ![j] = Gone]
        /\ pc' = [pc EXCEPT ![j] = After[pc[j]]]
        /\ UNCHANGED <<lastRun, item, ingested, jobs, token, cancelled, aside, meta, client, sweep,
                       crashes>>
    BY <1>2 DEF Store, LoseStore, PutIsDue, Goto, otherVars
  <2>2. row' \in [Items -> Copies] /\ faults' \in 0 .. MaxFaults
    <3>1. CASE Store(j)
      BY <3>1 DEF Store, TypeOK, otherVars
    <3>2. CASE LoseStore(j)
      BY <3>2 DEF LoseStore, TypeOK
    <3>3. QED
      BY <1>2, <3>1, <3>2
  <2>3. TypeOK'
    BY <2>1, <2>2, AfterPlaces, GoneIsNoRow DEF TypeOK, Working
  <2>4. FreshRuns' /\ TokenBelongsToLiveRun' /\ OpenJobs' /\ PutIsDue'
    BY <2>1, AfterPlaces
    DEF TypeOK, FreshRuns, TokenBelongsToLiveRun, OpenJobs, PutIsDue, Working
  <2>5. QED
    BY <2>3, <2>4
<1>3. CASE MarkActive(j)
  <2>1. TypeOK'
    BY <1>3 DEF MarkActive, Goto, otherVars, TypeOK, Places, WritePlaces, After
  <2>2. FreshRuns' /\ PutIsDue'
    BY <1>3 DEF MarkActive, Goto, otherVars, TypeOK, FreshRuns, PutIsDue, WritePlaces, After
  <2>3. TokenBelongsToLiveRun'
    BY <1>3 DEF MarkActive, Goto, otherVars, TypeOK, TokenBelongsToLiveRun, Working, Places,
       WritePlaces, After
  <2>4. OpenJobs'
    BY <1>3 DEF MarkActive, Goto, otherVars, TypeOK, OpenJobs, Working, Places,
       WritePlaces, After
  <2>5. QED
    BY <2>1, <2>2, <2>3, <2>4
<1>4. CASE \/ Negotiate(j) \/ PassTurn(j) \/ PluginAnswers(j) \/ Classify(j) \/ Ask(j)
           \/ Transferred(j) \/ TransferFails(j) \/ IngestFails(j) \/ Abort(j)
  <2>1. \E from \in Working \ WritePlaces, to \in Working : Moves(j, from, to)
    BY <1>4 DEF Negotiate, PassTurn, PluginAnswers, Classify, Ask, Transferred, TransferFails,
       IngestFails, Abort, Working, NoTask, Places, WritePlaces, After
  <2>2. QED
    BY <2>1, MovesRunsInv
<1>5. CASE Grant(j) \/ Answered(j)
  <2>1. TypeOK'
    <3>1. aside' \in [Runs -> [Writers -> [due : BOOLEAN, put : Copies]]]
      <4> DEFINE Aside == [due : BOOLEAN, put : Copies]
      <4>1. Due \in Aside /\ aside \in [Runs -> [Writers -> Aside]]
        BY GoneIsNoRow DEF Due, TypeOK
      <4> HIDE DEF Aside
      <4>2. \/ aside' = aside
            \/ \E w \in Writers : aside' = [aside EXCEPT ![j][w] = Due]
        BY <1>5 DEF Grant, Answered, Writers
      <4>3. aside' \in [Runs -> [Writers -> Aside]]
        BY <4>1, <4>2
      <4>4. QED
        BY <4>3 DEF Aside
    <3>2. QED
      BY <1>5, <3>1 DEF Grant, Answered, TypeOK, Goto, otherVars, Places
  <2>2. /\ \E to \in {"sending", "receiving"} : pc' = [pc EXCEPT ![j] = to]
        /\ pc[j] \in {"permit", "sending"}
        /\ UNCHANGED <<lastRun, item, ingested, put, jobs, token>>
    BY <1>5 DEF Grant, Answered, Goto
  <2>3. FreshRuns' /\ PutIsDue'
    BY <2>2 DEF TypeOK, FreshRuns, PutIsDue, WritePlaces, After
  <2>4. TokenBelongsToLiveRun' /\ OpenJobs'
    <3>1. \E to \in Working : pc' = [pc EXCEPT ![j] = to] /\ pc[j] \in Working
      BY <2>2 DEF Working, Places
    <3>2. QED
      BY <2>2, <3>1 DEF TypeOK, TokenBelongsToLiveRun, OpenJobs, Working
  <2>5. QED
    BY <2>1, <2>3, <2>4
<1>6. CASE Report(j)
  <2>1. TypeOK'
    BY <1>6 DEF Report, Goto, otherVars, TypeOK, Places, WritePlaces, After
  <2>2. FreshRuns' /\ PutIsDue'
    BY <1>6 DEF Report, Goto, otherVars, TypeOK, FreshRuns, PutIsDue, WritePlaces, After
  <2>3. TokenBelongsToLiveRun'
    BY <1>6 DEF Report, Goto, otherVars, TypeOK, TokenBelongsToLiveRun
  <2>4. OpenJobs'
    BY <1>6 DEF Report, Goto, otherVars, TypeOK, OpenJobs, Working, Places, WritePlaces, After
  <2>5. QED
    BY <2>1, <2>2, <2>3, <2>4
<1>7. CASE Cleanup(j)
  <2>1. TypeOK'
    BY <1>7 DEF Cleanup, Goto, otherVars, TypeOK, Places, WritePlaces, After
  <2>2. FreshRuns' /\ PutIsDue'
    BY <1>7 DEF Cleanup, Goto, otherVars, TypeOK, FreshRuns, PutIsDue, WritePlaces, After
  <2>3. TokenBelongsToLiveRun'
    BY <1>7 DEF Cleanup, Goto, otherVars, TypeOK, TokenBelongsToLiveRun
  <2>4. OpenJobs'
    BY <1>7 DEF Cleanup, Goto, otherVars, TypeOK, OpenJobs, Working, Places, WritePlaces, After
  <2>5. QED
    BY <2>1, <2>2, <2>3, <2>4
<1>8. CASE Ingested(j)
  <2>1. /\ pc' = [pc EXCEPT ![j] = "catalogued"] /\ pc[j] = "ingesting"
        /\ ingested' = ingested \union {j}
        /\ UNCHANGED <<row, lastRun, item, put, jobs, token, cancelled, aside, otherVars>>
    BY <1>8 DEF Ingested, Goto
  <2>2. TypeOK'
    BY <2>1 DEF TypeOK, otherVars, Places, WritePlaces, After
  <2>3. QED
    BY <2>1, <2>2 DEF TypeOK, FreshRuns, TokenBelongsToLiveRun, OpenJobs, PutIsDue, Working,
       Places, WritePlaces, After
<1>9. QED
  BY <1>1, <1>2, <1>3, <1>4, <1>5, <1>6, <1>7, <1>8 DEF RunStep

\* A step that leaves the runs, their jobs and their tokens alone preserves what
\* is said of them.
LEMMA RunsAlone ==
  ASSUME RunsInv, UNCHANGED <<lastRun, pc, item, ingested, put, jobs, token>>, TypeOK'
  PROVE  RunsInv'
BY DEF RunsInv, FreshRuns, PutIsDue, TokenBelongsToLiveRun, OpenJobs

\* The writers a run leaves behind preserve the inductive invariant.
LEMMA AsidesRunsInv ==
  ASSUME RunsInv, NEW j \in Runs, NEW w \in Writers, Asides(j, w)
  PROVE  RunsInv'
<1> USE DEF RunsInv
<1>1. CASE AsideFetch(j, w)
  <2>1. ASSUME row[item[j]] # Gone
        PROVE  AsideImage(j, w, row[item[j]]) \in Rows
    <3>1. row[item[j]] \in Rows
      BY <2>1 DEF TypeOK
    <3>2. QED
      BY <3>1, RowChanged DEF AsideImage, States
  <2>2. TypeOK'
    BY <1>1, <2>1, GoneIsNoRow DEF AsideFetch, TypeOK, otherVars, Idle
  <2>3. QED
    BY <1>1, <2>2, RunsAlone DEF AsideFetch, otherVars
<1>2. CASE AsideStore(j, w)
  <2>1. TypeOK'
    BY <1>2, GoneIsNoRow DEF AsideStore, TypeOK, otherVars, Idle
  <2>2. QED
    BY <1>2, <2>1, RunsAlone DEF AsideStore, otherVars
<1>3. QED
  BY <1>1, <1>2 DEF Asides

\* The metadata fetch preserves the inductive invariant.
LEMMA MetaRunsInv ==
  ASSUME RunsInv, NEW i \in Items, MetaStep(i)
  PROVE  RunsInv'
<1>1. TypeOK'
  <2> USE GoneIsNoRow DEF RunsInv, TypeOK, Fetches, runVars
  <2>1. CASE MetaFetch(i)
    <3> DEFINE copy == IF row[i] = Gone THEN meta[i].snap ELSE row[i]
    <3>1. copy \in Copies
      OBVIOUS
    <3>2. meta' = [meta EXCEPT ![i].put = copy, ![i].snap = Gone]
      BY <2>1 DEF MetaFetch
    <3>3. UNCHANGED <<row, runVars, client, sweep, faults, crashes>>
      BY <2>1 DEF MetaFetch
    <3>4. meta \in [Items -> [due : BOOLEAN, snap : Copies, put : Copies]] /\ Gone \in Copies
      OBVIOUS
    <3>5. meta' \in [Items -> [due : BOOLEAN, snap : Copies, put : Copies]]
      <4> HIDE DEF copy, Copies, RunsInv, TypeOK
      <4>1. QED
        BY <3>1, <3>2, <3>4
    <3>6. QED
      BY <3>3, <3>5
  <2>2. CASE MetaNothing(i)
    BY <2>2 DEF MetaNothing, NoFetch
  <2>3. CASE MetaStore(i)
    BY <2>3 DEF MetaStore, NoFetch
  <2>4. QED
    BY <2>1, <2>2, <2>3 DEF MetaStep
<1>2. QED
  BY <1>1, RunsAlone DEF MetaStep, MetaFetch, MetaNothing, MetaStore, runVars

\* The sweeps' steps preserve the inductive invariant.
LEMMA SweepRunsInv ==
  ASSUME RunsInv, SweepList \/ \E i \in Items : SweepStep(i)
  PROVE  RunsInv'
<1> USE DEF RunsInv
<1>1. TypeOK'
  <2>1. CASE SweepList
    BY <2>1, GoneIsNoRow DEF SweepList, TypeOK, runVars
  <2>2. ASSUME NEW i \in Items, SweepMark(i)
        PROVE  TypeOK'
    <3>1. [sweep[i] EXCEPT !.st = "Error"] \in Rows
      BY <2>2 DEF SweepMark, TypeOK, Rows, States
    <3>2. QED
      BY <2>2, <3>1, GoneIsNoRow DEF SweepMark, TypeOK, runVars
  <2>3. ASSUME NEW i \in Items, SweepSpare(i)
        PROVE  TypeOK'
    BY <2>3, GoneIsNoRow DEF SweepSpare, TypeOK, runVars
  <2>4. QED
    BY <2>1, <2>2, <2>3 DEF SweepStep
<1>2. QED
  BY <1>1, RunsAlone DEF SweepList, SweepStep, SweepMark, SweepSpare, runVars

\* A restart preserves the inductive invariant: the tasks, jobs and tokens go
\* together.
LEMMA RestartRunsInv ==
  ASSUME RunsInv, Restart
  PROVE  RunsInv'
<1> USE DEF RunsInv
<1>1. ASSUME NEW i \in Items, row[i] # Gone
      PROVE  [row[i] EXCEPT !.st = "Error"] \in Rows
  <2>1. row[i] \in Rows
    BY <1>1 DEF TypeOK
  <2>2. QED
    BY <2>1 DEF Rows, States
<1>2. TypeOK'
  BY <1>1, GoneIsNoRow
     DEF Restart, TypeOK, InFlight, Gone, Places, Idle, Writers, NoFetch, NoRequest, Fetches,
         Handlers, HandlerPlaces
<1>3. QED
  BY <1>2 DEF Restart, TypeOK, FreshRuns, PutIsDue, TokenBelongsToLiveRun, OpenJobs, Working

\* What requests, rows and metadata fetches hold has its type.
LEMMA HandlerFields ==
  ASSUME RunsInv, NEW c \in Clients
  PROVE  /\ client \in [Clients -> Handlers]
         /\ row \in [Items -> Copies]
         /\ client[c].item \in Items
         /\ client[c].put \in Copies
         /\ client[c].tok \in Runs \union {NoRun}
         /\ row[client[c].item] \in Copies
<1>1. client \in [Clients -> Handlers] /\ row \in [Items -> Copies]
  BY DEF RunsInv, TypeOK
<1>2. client[c].item \in Items /\ client[c].put \in Copies /\ client[c].tok \in Runs \union {NoRun}
  BY <1>1 DEF Handlers
<1>3. QED
  BY <1>1, <1>2

\* A request that only reads preserves the inductive invariant.
LEMMA ClientReads ==
  ASSUME RunsInv, UNCHANGED <<row, runVars, meta, sweep, faults, crashes>>,
         client' \in [Clients -> Handlers]
  PROVE  RunsInv'
<1>1. TypeOK'
  BY DEF RunsInv, TypeOK, runVars
<1>2. QED
  BY <1>1, RunsAlone DEF runVars

\* A request that stores a copy of a row preserves the inductive invariant.
LEMMA ClientWrites ==
  ASSUME RunsInv, UNCHANGED <<runVars, sweep, faults, crashes>>,
         NEW i \in Items, NEW r \in Copies, row' = [row EXCEPT ![i] = r],
         meta' \in [Items -> Fetches],
         client' \in [Clients -> Handlers]
  PROVE  RunsInv'
<1>1. TypeOK'
  BY DEF RunsInv, TypeOK, runVars
<1>2. QED
  BY <1>1, RunsAlone DEF runVars

\* The end of a request is typed.
LEMMA FinishTyped ==
  ASSUME RunsInv, NEW c \in Clients, Finish(c)
  PROVE  client' \in [Clients -> Handlers]
<1>1. NoRequest(client[c].item) \in Handlers
  BY HandlerFields, GoneIsNoRow DEF NoRequest, Handlers, HandlerPlaces
<1>2. client' = [client EXCEPT ![c] = NoRequest(client[c].item)]
  BY DEF Finish
<1>3. QED
  BY <1>1, <1>2, HandlerFields

\* A request that ends without a row update preserves the inductive invariant.
LEMMA FinishReads ==
  ASSUME RunsInv, NEW c \in Clients, Finish(c),
         UNCHANGED <<row, runVars, meta, sweep, faults, crashes>>
  PROVE  RunsInv'
BY FinishTyped, ClientReads

\* A request that ends with a row update preserves the inductive invariant.
LEMMA FinishWrites ==
  ASSUME RunsInv, NEW c \in Clients, Finish(c), NEW r \in Copies,
         row' = [row EXCEPT ![client[c].item] = r],
         UNCHANGED <<runVars, meta, sweep, faults, crashes>>
  PROVE  RunsInv'
<1>1. meta' \in [Items -> Fetches]
  BY DEF RunsInv, TypeOK
<1>2. client[c].item \in Items
  BY HandlerFields
<1>3. QED
  BY <1>1, <1>2, FinishTyped, ClientWrites

\* A handler that has read a row is a handler.
LEMMA RequestTyped ==
  ASSUME client \in [Clients -> Handlers], NEW c \in Clients,
         NEW place \in HandlerPlaces, NEW i \in Items, row[i] \in Copies,
         client' = [client EXCEPT ![c].at = place, ![c].item = i, ![c].put = row[i]]
  PROVE  client' \in [Clients -> Handlers]
<1> DEFINE half == [client EXCEPT ![c].at = place, ![c].item = i]
<1>1. half \in [Clients -> Handlers]
  BY DEF Handlers
<1> DEFINE copy == row[i]
<1>2. copy \in Copies /\ client' = [half EXCEPT ![c].put = copy]
  OBVIOUS
<1> HIDE DEF half, copy, Copies, Runs
<1>3. [half EXCEPT ![c].put = copy] \in [Clients -> Handlers]
  BY <1>1, <1>2 DEF Handlers
<1>4. QED
  BY <1>2, <1>3

\* The requests' first reads preserve the inductive invariant.
LEMMA RequestsRunsInv ==
  ASSUME RunsInv, NEW c \in Clients, NEW i \in Items,
         \/ RequestStart(c, i) \/ RequestStop(c, i) \/ RequestPause(c, i)
         \/ RequestDelete(c, i) \/ RequestPatch(c, i) \/ RequestConfirm(c, i)
  PROVE  RunsInv'
<1>0. client \in [Clients -> Handlers] /\ row[i] \in Copies
  BY HandlerFields
<1> HIDE DEF Copies, Runs
<1>1. CASE RequestStart(c, i)
  <2>1. client' = [client EXCEPT ![c].at = "checking", ![c].item = i, ![c].put = row[i]]
    BY <1>1 DEF RequestStart
  <2>2. client' \in [Clients -> Handlers]
    BY <1>0, <2>1, RequestTyped DEF HandlerPlaces
  <2>3. QED
    BY <1>1, <2>2, ClientReads DEF RequestStart
<1>2. CASE RequestStop(c, i)
  <2>1. client' = [client EXCEPT ![c].at = "stopping", ![c].item = i]
    BY <1>2 DEF RequestStop
  <2>2. client' \in [Clients -> Handlers]
    BY ZenonT(60), <2>1, <1>0 DEF Handlers, HandlerPlaces
  <2>3. QED
    BY <1>2, <2>2, ClientReads DEF RequestStop
<1>3. CASE RequestPause(c, i)
  <2>1. client' = [client EXCEPT ![c].at = "pausing", ![c].item = i, ![c].put = row[i]]
    BY <1>3 DEF RequestPause
  <2>2. client' \in [Clients -> Handlers]
    BY <1>0, <2>1, RequestTyped DEF HandlerPlaces
  <2>3. QED
    BY <1>3, <2>2, ClientReads DEF RequestPause
<1>4. CASE RequestDelete(c, i)
  <2>1. client' = [client EXCEPT ![c].at = "deleting", ![c].item = i]
    BY <1>4 DEF RequestDelete
  <2>2. client' \in [Clients -> Handlers]
    BY ZenonT(60), <2>1, <1>0 DEF Handlers, HandlerPlaces
  <2>3. QED
    BY <1>4, <2>2, ClientReads DEF RequestDelete
<1>5. CASE RequestPatch(c, i)
  <2>1. client' = [client EXCEPT ![c].at = "patching", ![c].item = i, ![c].put = row[i]]
    BY <1>5 DEF RequestPatch
  <2>2. client' \in [Clients -> Handlers]
    BY <1>0, <2>1, RequestTyped DEF HandlerPlaces
  <2>3. QED
    BY <1>5, <2>2, ClientReads DEF RequestPatch
<1>6. CASE RequestConfirm(c, i)
  <2>1. row[i] \in Rows
    BY <1>0, <1>6 DEF RequestConfirm, Accept, Copies
  <2>2. PICK proceed \in BOOLEAN :
          client' = [client EXCEPT ![c].at = "answering", ![c].item = i, ![c].yes = proceed,
                       ![c].put = [row[i] EXCEPT !.st = IF proceed THEN "Queued" ELSE "Cancelled",
                                                 !.yes = proceed]]
    BY <1>6 DEF RequestConfirm
  <2> DEFINE answered == [row[i] EXCEPT !.st = IF proceed THEN "Queued" ELSE "Cancelled",
                                        !.yes = proceed]
  <2>3. answered \in Copies
    BY <2>1 DEF Rows, States, Copies
  <2>4. client' = [client EXCEPT ![c].at = "answering", ![c].item = i, ![c].yes = proceed,
                     ![c].put = answered]
    BY <2>2
  <2> HIDE DEF answered
  <2>5. client' \in [Clients -> Handlers]
    <3> DEFINE half == [client EXCEPT ![c].at = "answering", ![c].item = i]
    <3>1. half \in [Clients -> Handlers]
      BY ZenonT(60), <1>0 DEF Handlers, HandlerPlaces
    <3>2. client' = [half EXCEPT ![c].yes = proceed, ![c].put = answered]
      BY <2>4
    <3> HIDE DEF half
    <3>3. QED
      BY <2>3, <3>1, <3>2 DEF Handlers
  <2>6. QED
    BY <1>6, <2>5, ClientReads DEF RequestConfirm
<1>7. QED
  BY <1>1, <1>2, <1>3, <1>4, <1>5, <1>6

\* Starting a row: a stale copy is stored, and the run launched with a job and
\* a token of its own.
LEMMA StartRunsInv ==
  ASSUME RunsInv, NEW c \in Clients,
         StartAnswered(c) \/ CheckDuplicates(c) \/ StoreStarting(c) \/ CreateJob(c)
  PROVE  RunsInv'
<1>1. CASE StartAnswered(c)
  <2>1. CASE client' = [client EXCEPT ![c].at = "checking", ![c].put = row[client[c].item]]
    <3>1. client' \in [Clients -> Handlers]
      BY <2>1, HandlerFields DEF Handlers, HandlerPlaces
    <3>2. QED
      BY <1>1, <3>1, ClientReads DEF StartAnswered
  <2>2. CASE Finish(c)
    BY <1>1, <2>2, FinishReads DEF StartAnswered
  <2>3. QED
    BY <1>1, <2>1, <2>2 DEF StartAnswered
<1>2. CASE CheckDuplicates(c)
  <2>1. CASE Finish(c)
    BY <1>2, <2>1, FinishReads DEF CheckDuplicates
  <2>2. CASE client' = [client EXCEPT ![c].at = "storing", ![c].put = StartImage(c)]
    <3>1. StartImage(c) \in Copies
      <4>1. client[c].yes \in BOOLEAN
        BY HandlerFields DEF Handlers
      <4>2. CASE client[c].put \in Rows
        BY <4>1, <4>2 DEF StartImage, Rows, States
      <4>3. CASE client[c].put = Gone
        <5>1. Gone.yes = FALSE
          BY DEF Gone
        <5>2. StartImage(c) = [Gone EXCEPT !.st = "Starting", !.yes = FALSE]
          BY <4>3, <5>1 DEF StartImage
        <5>3. [Gone EXCEPT !.st = "Starting", !.yes = FALSE] \in Rows
          BY DEF Gone, Rows, States
        <5>4. QED
          BY <5>2, <5>3
      <4>4. QED
        BY <4>2, <4>3, HandlerFields
    <3>2. client' \in [Clients -> Handlers]
      BY <2>2, <3>1, HandlerFields DEF Handlers, HandlerPlaces
    <3>3. QED
      BY <1>2, <3>2, ClientReads DEF CheckDuplicates
  <2>3. QED
    BY <1>2, <2>1, <2>2 DEF CheckDuplicates
<1>3. CASE StoreStarting(c)
  <2>1. /\ row' = [row EXCEPT ![client[c].item] = client[c].put]
        /\ client' = [client EXCEPT ![c].at = "launching", ![c].put = Gone]
        /\ UNCHANGED <<runVars, sweep, faults, crashes>>
    BY <1>3 DEF StoreStarting
  <2>2. client' \in [Clients -> Handlers]
    BY <2>1, HandlerFields, GoneIsNoRow DEF Handlers, HandlerPlaces
  <2>3. meta' \in [Items -> Fetches]
    <3>1. meta \in [Items -> Fetches]
      BY DEF RunsInv, TypeOK
    <3>2. [due |-> TRUE, snap |-> client[c].put, put |-> Gone] \in Fetches
      BY HandlerFields, GoneIsNoRow DEF Fetches
    <3>3. QED
      BY <1>3, <3>1, <3>2 DEF StoreStarting
  <2>4. client[c].item \in Items /\ client[c].put \in Copies
    BY HandlerFields
  <2>5. QED
    BY <2>1, <2>2, <2>3, <2>4, ClientWrites
<1>4. CASE CreateJob(c)
  <2>1. client[c].item \in Items
    BY HandlerFields
  <2>2. lastRun + 1 \in Runs /\ pc[lastRun + 1] = "none"
    BY <1>4 DEF CreateJob, RunsInv, TypeOK, FreshRuns
  <2>3. /\ lastRun' = lastRun + 1
        /\ item' = [item EXCEPT ![lastRun + 1] = client[c].item]
        /\ jobs' = [jobs EXCEPT ![lastRun + 1] = "queued"]
        /\ pc' = [pc EXCEPT ![lastRun + 1] = "created"]
        /\ client' = [client EXCEPT ![c].at = "registering", ![c].tok = lastRun + 1]
        /\ UNCHANGED <<row, ingested, put, token, cancelled, aside, meta, sweep, faults, crashes>>
    BY <1>4 DEF CreateJob, Goto
  <2>4. client' \in [Clients -> Handlers]
    BY <2>2, <2>3, HandlerFields DEF Handlers, HandlerPlaces, LaunchPlaces
  <2>5. TypeOK'
    BY <2>1, <2>2, <2>3, <2>4 DEF RunsInv, TypeOK, Places, NoTask
  <2>6. FreshRuns' /\ PutIsDue'
    BY <2>2, <2>3 DEF RunsInv, TypeOK, FreshRuns, PutIsDue, WritePlaces, After
  <2>7. TokenBelongsToLiveRun'
    BY <2>2, <2>3 DEF RunsInv, TypeOK, TokenBelongsToLiveRun, Working, NoTask
  <2>8. OpenJobs'
    BY <2>2, <2>3 DEF RunsInv, TypeOK, OpenJobs, Working, Places, NoTask
  <2>9. QED
    BY <2>5, <2>6, <2>7, <2>8 DEF RunsInv
<1>5. QED
  BY <1>1, <1>2, <1>3, <1>4

\* The rest of a launch: the token, the task, or a handler dropped before.
LEMMA LaunchRunsInv ==
  ASSUME RunsInv, LaunchesAreHeld, NEW c \in Clients,
         RegisterToken(c) \/ SpawnTask(c) \/ Disconnect(c)
  PROVE  RunsInv'
<1> DEFINE j == client[c].tok
<1>1. CASE client[c].at \notin LaunchPlaces
  <2>1. Disconnect(c)
    BY <1>1 DEF RegisterToken, SpawnTask, LaunchPlaces
  <2>2. QED
    BY <1>1, <2>1, FinishReads DEF Disconnect, runVars
<1>2. CASE client[c].at \in LaunchPlaces
  <2>1. /\ j \in Runs
        /\ item[j] = client[c].item
        /\ pc[j] = IF client[c].at = "registering" THEN "created" ELSE "registered"
    BY <1>2, HandlerFields DEF LaunchesAreHeld
  <2>2. client[c].item \in Items
    BY HandlerFields
  <2>3. PICK to \in {"registered", "spawned", "dropped"} :
             /\ pc' = [pc EXCEPT ![j] = to]
             /\ to = "registered" => RegisterToken(c)
             /\ to # "registered" => UNCHANGED token
    BY <1>2 DEF RegisterToken, SpawnTask, Disconnect, Goto
  <2>4. UNCHANGED <<row, lastRun, item, ingested, put, jobs, cancelled, aside, meta, sweep,
                    faults, crashes>>
    BY DEF RegisterToken, SpawnTask, Disconnect
  <2>5. client' \in [Clients -> Handlers]
    <3>1. CASE RegisterToken(c)
      BY <3>1, HandlerFields DEF RegisterToken, Handlers, HandlerPlaces, LaunchPlaces
    <3>2. CASE SpawnTask(c) \/ Disconnect(c)
      BY <3>2, FinishTyped DEF SpawnTask, Disconnect
    <3>3. QED
      BY <3>1, <3>2
  <2>6. token' = token \/ (to = "registered" /\ token' = [token EXCEPT ![client[c].item] = j])
    BY <2>3 DEF RegisterToken
  <2> HIDE DEF j
  <2>7. TypeOK'
    <3>1. token' \in [Items -> Runs \union {NoRun}]
      BY <2>1, <2>2, <2>6 DEF RunsInv, TypeOK
    <3>2. pc' \in [Runs -> Places]
      BY <2>1, <2>3 DEF RunsInv, TypeOK, Places, NoTask
    <3>3. QED
      BY <2>4, <2>5, <3>1, <3>2 DEF RunsInv, TypeOK
  <2>8. FreshRuns' /\ PutIsDue'
    BY <2>1, <2>3, <2>4 DEF RunsInv, TypeOK, FreshRuns, PutIsDue, WritePlaces, After
  <2>9. TokenBelongsToLiveRun'
    BY <2>1, <2>2, <2>3, <2>4, <2>6 DEF RunsInv, TypeOK, TokenBelongsToLiveRun, Working, Places, NoTask
  <2>10. OpenJobs'
    BY <2>1, <2>3, <2>4 DEF RunsInv, TypeOK, OpenJobs, Working, Places, NoTask
  <2>11. QED
    BY <2>7, <2>8, <2>9, <2>10 DEF RunsInv
<1>3. QED
  BY <1>1, <1>2

\* A cancelled token changes nothing the invariant speaks of but its type.
LEMMA CancelRunsInv ==
  ASSUME RunsInv, NEW c \in Clients, Finish(c), cancelled' \subseteq Runs,
         UNCHANGED <<row, lastRun, pc, item, ingested, put, jobs, token, aside, meta, sweep, faults, crashes>>
  PROVE  RunsInv'
<1>1. client' \in [Clients -> Handlers]
  BY FinishTyped
<1>2. TypeOK'
  BY <1>1 DEF RunsInv, TypeOK
<1>3. QED
  BY <1>2, RunsAlone

\* Stop, pause, delete, patch, the answer about an older revision and a dropped
\* request preserve the inductive invariant.
LEMMA HandlersRunsInv ==
  ASSUME RunsInv, NEW c \in Clients,
         \/ StopNow(c) \/ PauseFindToken(c) \/ PauseFetch(c) \/ PauseStore(c) \/ PauseCancel(c)
         \/ DeleteRow(c) \/ PatchRow(c) \/ StoreAnswer(c)
  PROVE  RunsInv'
<1>1. CASE StopNow(c)
  <2>1. cancelled' \subseteq Runs
    BY <1>1, HandlerFields DEF StopNow, RunsInv, TypeOK
  <2>2. QED
    BY <1>1, <2>1, CancelRunsInv DEF StopNow
<1>2. CASE PauseFindToken(c)
  <2>1. CASE Finish(c)
    BY <1>2, <2>1, FinishReads DEF PauseFindToken
  <2>2. CASE client' = [client EXCEPT ![c].at = "pauseFetch", ![c].tok = token[client[c].item]]
    <3>1. token[client[c].item] \in Runs \union {NoRun}
      BY HandlerFields DEF RunsInv, TypeOK
    <3>2. client' \in [Clients -> Handlers]
      BY <2>2, <3>1, HandlerFields DEF Handlers, HandlerPlaces
    <3>3. QED
      BY <1>2, <3>2, ClientReads DEF PauseFindToken
  <2>3. QED
    BY <1>2, <2>1, <2>2 DEF PauseFindToken
<1>3. CASE PauseFetch(c)
  <2> DEFINE r == row[client[c].item]
  <2> DEFINE paused == [r EXCEPT !.st = "Paused", !.job = client[c].put.job, !.arch = NoRun]
  <2>1. CASE r = Gone
    <3>1. client' = [client EXCEPT ![c].at = "pauseCancel", ![c].put = Gone]
      BY <1>3, <2>1 DEF PauseFetch
    <3>2. client' \in [Clients -> Handlers]
      BY <3>1, HandlerFields, GoneIsNoRow DEF Handlers, HandlerPlaces
    <3>3. QED
      BY <1>3, <3>2, ClientReads DEF PauseFetch
  <2>2. CASE r # Gone
    <3>1. r \in Rows
      BY <2>2, HandlerFields
    <3>2. client[c].put.job \in Runs \union {NoRun}
      <4>1. CASE client[c].put \in Rows
        BY <4>1 DEF Rows
      <4>2. CASE client[c].put = Gone
        BY <4>2 DEF Gone
      <4>3. QED
        BY <4>1, <4>2, HandlerFields
    <3>3. paused \in Copies
      BY <3>1, <3>2, RowChanged DEF States
    <3>4. client' = [client EXCEPT ![c].at = "pauseStore", ![c].put = paused]
      BY <1>3, <2>2 DEF PauseFetch
    <3> HIDE DEF paused
    <3>5. client' \in [Clients -> Handlers]
      BY <3>3, <3>4, HandlerFields DEF Handlers, HandlerPlaces
    <3>6. QED
      BY <1>3, <3>5, ClientReads DEF PauseFetch
  <2>3. QED
    BY <2>1, <2>2
<1>4. CASE PauseStore(c)
  <2>1. client' = [client EXCEPT ![c].at = "pauseCancel", ![c].put = Gone]
    BY <1>4 DEF PauseStore
  <2>2. client' \in [Clients -> Handlers]
    BY <2>1, HandlerFields, GoneIsNoRow DEF Handlers, HandlerPlaces
  <2>3. client[c].item \in Items /\ client[c].put \in Copies
    BY HandlerFields
  <2>4. meta' \in [Items -> Fetches]
    BY <1>4 DEF PauseStore, RunsInv, TypeOK
  <2>5. QED
    BY <1>4, <2>2, <2>3, <2>4, ClientWrites DEF PauseStore
<1>5. CASE PauseCancel(c)
  <2>1. cancelled' \subseteq Runs
    BY <1>5, HandlerFields DEF PauseCancel, RunsInv, TypeOK
  <2>2. QED
    BY <1>5, <2>1, CancelRunsInv DEF PauseCancel
<1>6. CASE DeleteRow(c)
  BY <1>6, FinishWrites, GoneIsNoRow DEF DeleteRow
<1>7. CASE PatchRow(c)
  BY <1>7, FinishWrites, HandlerFields DEF PatchRow
<1>8. CASE StoreAnswer(c)
  <2>1. client[c].item \in Items /\ client[c].put \in Copies
    BY HandlerFields
  <2>2. CASE Finish(c)
    BY <1>8, <2>1, <2>2, FinishWrites DEF StoreAnswer
  <2>3. CASE client' = [client EXCEPT ![c].at = "answered", ![c].put = Gone]
    <3>1. client' \in [Clients -> Handlers]
      BY <2>3, HandlerFields, GoneIsNoRow DEF Handlers, HandlerPlaces
    <3>2. meta' \in [Items -> Fetches]
      BY <1>8 DEF StoreAnswer, RunsInv, TypeOK
    <3>3. QED
      BY <1>8, <2>1, <3>1, <3>2, ClientWrites DEF StoreAnswer
  <2>4. QED
    BY <1>8, <2>2, <2>3 DEF StoreAnswer
<1>9. QED
  BY <1>1, <1>2, <1>3, <1>4, <1>5, <1>6, <1>7, <1>8

\* Every step preserves what is said of the runs.
LEMMA NextRunsInv == IndInv /\ [Next]_vars => RunsInv'
<1> SUFFICES ASSUME RunsInv, LaunchesAreHeld, [Next]_vars
             PROVE  RunsInv'
  BY DEF IndInv
<1>1. CASE UNCHANGED vars
  BY <1>1 DEF vars, RunsInv, TypeOK, FreshRuns, PutIsDue, TokenBelongsToLiveRun, OpenJobs
<1>2. ASSUME NEW c \in Clients, ClientStep(c)
      PROVE  RunsInv'
  BY <1>2, RequestsRunsInv, StartRunsInv, HandlersRunsInv, LaunchRunsInv DEF ClientStep
<1>3. QED
  BY <1>1, <1>2, RunStepRunsInv, AsidesRunsInv, MetaRunsInv, SweepRunsInv, RestartRunsInv DEF Next

\* A task only moves runs that have one.
LEMMA TasksMove ==
  ASSUME RunsInv, NEW j \in Runs, RunStep(j) \/ LoseStore(j)
  PROVE  /\ UNCHANGED <<client, item, lastRun>>
         /\ pc[j] \in Working \union {"cleanup"}
         /\ \E to \in Working \union {"cleanup", "ended"} : pc' = [pc EXCEPT ![j] = to]
<1> USE DEF RunsInv
<1>1. UNCHANGED <<client, item, lastRun>>
  BY DEF RunStep, LoseStore, Fetch, Store, MarkActive, Negotiate, PassTurn, PluginAnswers, Classify,
     Ask, Grant, Answered, Transferred, TransferFails, Ingested, IngestFails, Abort, Report,
     Cleanup, Moves, otherVars
<1>2. CASE Fetch(j) \/ Store(j) \/ LoseStore(j)
  <2>1. pc[j] \in WritePlaces /\ (pc' = pc \/ pc' = [pc EXCEPT ![j] = After[pc[j]]])
    BY <1>2 DEF Fetch, Store, LoseStore, PutIsDue, Goto
  <2>2. pc = [pc EXCEPT ![j] = pc[j]]
    BY DEF TypeOK
  <2>3. QED
    BY <1>1, <2>1, <2>2, AfterPlaces
<1>3. CASE ~(Fetch(j) \/ Store(j) \/ LoseStore(j))
  BY <1>1, <1>3 DEF RunStep, MarkActive, Negotiate, PassTurn, PluginAnswers, Classify, Ask, Grant,
     Answered, Transferred, TransferFails, Ingested, IngestFails, Abort, Report, Cleanup, Moves,
     Goto, Working, Places, WritePlaces, After
<1>4. QED
  BY <1>2, <1>3

\* A request that is not at a launch, and starts none, leaves the launches alone.
LEMMA HeldAside ==
  ASSUME IndInv, NEW c \in Clients, client[c].at \notin LaunchPlaces,
         UNCHANGED <<pc, item>>,
         client'[c].at \notin LaunchPlaces,
         \A d \in Clients \ {c} : client'[d] = client[d]
  PROVE  LaunchesAreHeld'
<1>1. \A d \in Clients, j \in Runs : Launches(d, j)' <=> Launches(d, j)
  BY DEF Launches
<1>2. \A d \in Clients : client'[d].at \in LaunchPlaces => client'[d] = client[d]
  OBVIOUS
<1>3. \A d \in Clients : client[d].at \in LaunchPlaces => client[d].tok \in Runs
  BY HandlerFields DEF IndInv, LaunchesAreHeld
<1>4. QED
  BY <1>1, <1>2, <1>3 DEF IndInv, LaunchesAreHeld, Launches

\* What a request does to the requests when it is at no launch and starts none.
LEMMA RequestsApart ==
  ASSUME IndInv, NEW c \in Clients, ClientStep(c), client[c].at \notin LaunchPlaces,
         ~CreateJob(c)
  PROVE  /\ UNCHANGED <<pc, item, lastRun>>
         /\ client'[c].at \notin LaunchPlaces
         /\ \A d \in Clients \ {c} : client'[d] = client[d]
<1>0. client \in [Clients -> Handlers]
  BY HandlerFields DEF IndInv
<1>1. ASSUME Finish(c)
      PROVE  client'[c].at \notin LaunchPlaces /\ \A d \in Clients \ {c} : client'[d] = client[d]
  BY <1>0, <1>1 DEF Finish, NoRequest, LaunchPlaces
<1>2. UNCHANGED <<pc, item, lastRun>>
  BY DEF ClientStep, RequestStart, RequestStop, RequestPause, RequestDelete, RequestPatch,
     RequestConfirm, StartAnswered, CheckDuplicates, StoreStarting, RegisterToken, SpawnTask,
     StopNow, PauseFindToken, PauseFetch, PauseStore, PauseCancel, DeleteRow, PatchRow,
     StoreAnswer, Disconnect, LaunchPlaces, runVars
<1>3. ASSUME NEW i \in Items,
             \/ RequestStart(c, i) \/ RequestStop(c, i) \/ RequestPause(c, i)
             \/ RequestDelete(c, i) \/ RequestPatch(c, i) \/ RequestConfirm(c, i)
      PROVE  client'[c].at \notin LaunchPlaces /\ \A d \in Clients \ {c} : client'[d] = client[d]
  <2>1. \E at \in {"checking", "stopping", "pausing", "deleting", "patching", "answering"} :
          /\ client'[c].at = at
          /\ \A d \in Clients \ {c} : client'[d] = client[d]
    <3>1. CASE RequestStart(c, i) \/ RequestPause(c, i) \/ RequestPatch(c, i)
      BY <1>0, <3>1 DEF RequestStart, RequestPause, RequestPatch, Handlers
    <3>2. CASE RequestStop(c, i) \/ RequestDelete(c, i)
      BY <1>0, <3>2 DEF RequestStop, RequestDelete, Handlers
    <3>3. CASE RequestConfirm(c, i)
      BY <1>0, <3>3 DEF RequestConfirm, Handlers
    <3>4. QED
      BY <1>3, <3>1, <3>2, <3>3
  <2>2. QED
    BY <2>1 DEF LaunchPlaces
<1>4. CASE StartAnswered(c) \/ CheckDuplicates(c) \/ StoreStarting(c)
  BY <1>0, <1>1, <1>2, <1>4 DEF StartAnswered, CheckDuplicates, StoreStarting, LaunchPlaces, Handlers
<1>5. CASE StopNow(c) \/ PauseFindToken(c) \/ PauseFetch(c) \/ PauseStore(c) \/ PauseCancel(c)
  BY <1>0, <1>1, <1>2, <1>5 DEF StopNow, PauseFindToken, PauseFetch, PauseStore, PauseCancel,
     LaunchPlaces, Handlers
<1>6. CASE DeleteRow(c) \/ PatchRow(c) \/ StoreAnswer(c) \/ Disconnect(c)
  BY <1>0, <1>1, <1>2, <1>6 DEF DeleteRow, PatchRow, StoreAnswer, Disconnect, LaunchPlaces, Handlers
<1>7. ~RegisterToken(c) /\ ~SpawnTask(c)
  BY DEF RegisterToken, SpawnTask, LaunchPlaces
<1>8. QED
  BY <1>2, <1>3, <1>4, <1>5, <1>6, <1>7 DEF ClientStep

\* A step at which one handler takes, moves on or gives up the launch of one run
\* leaves every launch in the hands of its handler.
LEMMA OneLaunchMoves ==
  ASSUME IndInv, NEW c \in Clients, NEW mine \in Runs,
         \A d \in Clients \ {c} : client[d].at \in LaunchPlaces => client[d].tok # mine,
         \A j \in Runs \ {mine} :
           /\ pc'[j] = pc[j] /\ item'[j] = item[j]
           /\ ~(client[c].at \in LaunchPlaces /\ client[c].tok = j),
         \A d \in Clients \ {c} : client'[d] = client[d],
         \/ /\ client'[c].at \in LaunchPlaces
            /\ client'[c].tok = mine
            /\ item'[mine] = client'[c].item
            /\ pc'[mine] = IF client'[c].at = "registering" THEN "created" ELSE "registered"
         \/ client'[c].at \notin LaunchPlaces /\ pc'[mine] \notin {"created", "registered"}
  PROVE  LaunchesAreHeld'
<1>1. \A d \in Clients : client[d].at \in LaunchPlaces => client[d].tok \in Runs
  BY HandlerFields DEF IndInv, LaunchesAreHeld
<1>2. ASSUME NEW j \in Runs, pc'[j] \in {"created", "registered"}
      PROVE  \E d \in Clients : client'[d].at \in LaunchPlaces /\ client'[d].tok = j
  <2>1. CASE j = mine
    BY <1>2, <2>1
  <2>2. CASE j # mine
    <3>1. PICK d \in Clients : client[d].at \in LaunchPlaces /\ client[d].tok = j
      BY <1>2, <2>2 DEF IndInv, LaunchesAreHeld, Launches
    <3>2. d # c
      BY <2>2, <3>1
    <3>3. QED
      BY <3>1, <3>2
  <2>3. QED
    BY <2>1, <2>2
<1>3. ASSUME NEW d \in Clients, client'[d].at \in LaunchPlaces
      PROVE  /\ client'[d].tok # NoRun
             /\ item'[client'[d].tok] = client'[d].item
             /\ pc'[client'[d].tok] =
                  IF client'[d].at = "registering" THEN "created" ELSE "registered"
             /\ \A e \in Clients \ {d} :
                  ~(client'[e].at \in LaunchPlaces /\ client'[e].tok = client'[d].tok)
  <2>1. CASE d = c
    BY <1>3, <2>1
  <2>2. CASE d # c
    <3>1. /\ client'[d] = client[d] /\ client[d].tok \in Runs \ {mine}
          /\ item[client[d].tok] = client[d].item
          /\ pc[client[d].tok] = IF client[d].at = "registering" THEN "created" ELSE "registered"
          /\ \A e \in Clients \ {d} :
               ~(client[e].at \in LaunchPlaces /\ client[e].tok = client[d].tok)
      BY <1>1, <1>3, <2>2 DEF IndInv, LaunchesAreHeld, Launches
    <3>2. ~(client'[c].at \in LaunchPlaces /\ client'[c].tok = client[d].tok)
      BY <3>1
    <3>3. QED
      BY <2>2, <3>1, <3>2
  <2>3. QED
    BY <2>1, <2>2
<1>4. QED
  BY <1>2, <1>3 DEF LaunchesAreHeld, Launches

\* A handler that begins a launch holds it alone.
LEMMA CreateHeld ==
  ASSUME IndInv, NEW c \in Clients, CreateJob(c)
  PROVE  LaunchesAreHeld'
<1>1. PICK new \in Runs : new = lastRun + 1
  BY DEF CreateJob, IndInv, RunsInv, TypeOK
<1>2. pc[new] = "none" /\ client[c].at \notin LaunchPlaces
  BY <1>1 DEF CreateJob, IndInv, RunsInv, TypeOK, FreshRuns, LaunchPlaces
<1>3. /\ pc' = [pc EXCEPT ![new] = "created"]
      /\ item' = [item EXCEPT ![new] = client[c].item]
      /\ client' = [client EXCEPT ![c].at = "registering", ![c].tok = new]
  BY <1>1 DEF CreateJob, Goto
<1>4. /\ pc'[new] = "created" /\ item'[new] = client[c].item
      /\ \A j \in Runs \ {new} : pc'[j] = pc[j] /\ item'[j] = item[j]
  BY <1>3 DEF IndInv, RunsInv, TypeOK
<1>5. /\ client'[c].at = "registering" /\ client'[c].tok = new
      /\ client'[c].item = client[c].item
      /\ \A d \in Clients \ {c} : client'[d] = client[d]
  BY <1>3, HandlerFields DEF IndInv, Handlers
<1>6. \A d \in Clients : client[d].at \in LaunchPlaces => client[d].tok # new
  BY <1>2 DEF IndInv, LaunchesAreHeld
<1>7. "registering" \in LaunchPlaces
  BY DEF LaunchPlaces
<1>8. QED
  BY <1>2, <1>4, <1>5, <1>6, <1>7, OneLaunchMoves

\* A handler that goes on with its launch, or gives it up, lets nobody else's go.
LEMMA LaunchHeld ==
  ASSUME IndInv, NEW c \in Clients, client[c].at \in LaunchPlaces,
         RegisterToken(c) \/ SpawnTask(c) \/ Disconnect(c)
  PROVE  LaunchesAreHeld'
<1>1. PICK mine \in Runs : mine = client[c].tok
  BY HandlerFields DEF IndInv, LaunchesAreHeld
<1>2. /\ item[mine] = client[c].item
      /\ \A d \in Clients \ {c} : client[d].at \in LaunchPlaces => client[d].tok # mine
  BY <1>1 DEF IndInv, LaunchesAreHeld, Launches
<1>3. /\ item' = item
      /\ \/ /\ pc' = [pc EXCEPT ![mine] = "registered"]
            /\ client' = [client EXCEPT ![c].at = "spawning"]
         \/ /\ pc' = [pc EXCEPT ![mine] = "spawned"] \/ pc' = [pc EXCEPT ![mine] = "dropped"]
            /\ client' = [client EXCEPT ![c] = NoRequest(client[c].item)]
  BY <1>1 DEF RegisterToken, SpawnTask, Disconnect, Goto, Finish
<1>4. /\ \A j \in Runs \ {mine} : pc'[j] = pc[j] /\ item'[j] = item[j]
      /\ \A d \in Clients \ {c} : client'[d] = client[d]
  BY <1>3, HandlerFields DEF IndInv, RunsInv, TypeOK
<1>5. CASE pc' = [pc EXCEPT ![mine] = "registered"] /\ client' = [client EXCEPT ![c].at = "spawning"]
  <2>1. /\ pc'[mine] = "registered" /\ client'[c].at = "spawning" /\ client'[c].tok = mine
        /\ item'[mine] = client'[c].item
    BY <1>1, <1>2, <1>3, <1>5, HandlerFields DEF IndInv, RunsInv, TypeOK, Handlers
  <2>2. "spawning" \in LaunchPlaces
    BY DEF LaunchPlaces
  <2>3. QED
    BY <1>1, <1>2, <1>4, <2>1, <2>2, OneLaunchMoves
<1>6. CASE /\ pc' = [pc EXCEPT ![mine] = "spawned"] \/ pc' = [pc EXCEPT ![mine] = "dropped"]
           /\ client' = [client EXCEPT ![c] = NoRequest(client[c].item)]
  <2>1. pc'[mine] \in {"spawned", "dropped"} /\ client'[c].at \notin LaunchPlaces
    BY <1>6, HandlerFields DEF IndInv, RunsInv, TypeOK, NoRequest, LaunchPlaces
  <2>2. QED
    BY <1>1, <1>2, <1>4, <2>1, OneLaunchMoves
<1>7. QED
  BY <1>3, <1>5, <1>6

\* Every step leaves each launch in the hands of its handler.
LEMMA NextHeld == IndInv /\ [Next]_vars => LaunchesAreHeld'
<1> SUFFICES ASSUME IndInv, [Next]_vars
             PROVE  LaunchesAreHeld'
  OBVIOUS
<1>1. ASSUME UNCHANGED <<pc, item, client>>
      PROVE  LaunchesAreHeld'
  BY <1>1 DEF IndInv, LaunchesAreHeld, Launches
<1>2. ASSUME NEW j \in Runs, RunStep(j) \/ LoseStore(j)
      PROVE  LaunchesAreHeld'
  <2>1. /\ UNCHANGED <<client, item>>
        /\ pc[j] \notin {"created", "registered"} /\ pc'[j] \notin {"created", "registered"}
        /\ \A k \in Runs \ {j} : pc'[k] = pc[k]
    BY <1>2, TasksMove DEF IndInv, RunsInv, TypeOK, Working
  <2>2. \A c \in Clients : client[c].at \in LaunchPlaces => client[c].tok \in Runs \ {j}
    BY <2>1, HandlerFields DEF IndInv, LaunchesAreHeld
  <2>3. QED
    BY <2>1, <2>2 DEF IndInv, LaunchesAreHeld, Launches
<1>3. ASSUME NEW c \in Clients, ClientStep(c)
      PROVE  LaunchesAreHeld'
  <2>1. CASE CreateJob(c)
    BY <2>1, CreateHeld
  <2>2. CASE client[c].at \in LaunchPlaces
    <3>1. RegisterToken(c) \/ SpawnTask(c) \/ Disconnect(c)
      BY <1>3, <2>2 DEF ClientStep, Accept, RequestStart, RequestStop, RequestPause, RequestDelete,
         RequestPatch, RequestConfirm, StartAnswered, CheckDuplicates, StoreStarting, CreateJob,
         StopNow, PauseFindToken, PauseFetch, PauseStore, PauseCancel, DeleteRow, PatchRow,
         StoreAnswer, LaunchPlaces
    <3>2. QED
      BY <2>2, <3>1, LaunchHeld
  <2>3. CASE client[c].at \notin LaunchPlaces /\ ~CreateJob(c)
    BY <1>3, <2>3, RequestsApart, HeldAside
  <2>4. QED
    BY <2>1, <2>2, <2>3
<1>4. CASE Restart
  <2>1. /\ \A j \in Runs : pc'[j] \in {"ended", "none"}
        /\ \A c \in Clients : client'[c].at = "idle"
    BY <1>4 DEF Restart, NoRequest
  <2>2. QED
    BY <2>1 DEF LaunchesAreHeld, LaunchPlaces
<1>5. ASSUME \/ UNCHANGED vars
             \/ SweepList
             \/ \E i \in Items : MetaStep(i) \/ SweepStep(i)
             \/ \E j \in Runs, w \in Writers : Asides(j, w)
      PROVE  UNCHANGED <<pc, item, client>>
  BY <1>5 DEF vars, SweepList, MetaStep, MetaFetch, MetaNothing, MetaStore, SweepStep, SweepMark,
     SweepSpare, Asides, AsideFetch, AsideStore, runVars, otherVars
<1>6. QED
  BY <1>1, <1>2, <1>3, <1>4, <1>5 DEF Next

\* Every step preserves the inductive invariant.
LEMMA NextIndInv == IndInv /\ [Next]_vars => IndInv'
BY NextRunsInv, NextHeld DEF IndInv

\* No launch is under way at the start.
LEMMA InitIndInv == Init => IndInv
<1> SUFFICES ASSUME Init PROVE IndInv
  OBVIOUS
<1>1. \A c \in Clients : client[c].at = "idle"
  BY DEF Init, NoRequest
<1>2. QED
  BY <1>1, InitRunsInv DEF IndInv, Init, LaunchesAreHeld, LaunchPlaces

\* The inductive invariant holds in every reachable state.
THEOREM SpecIndInv == Spec => []IndInv
BY InitIndInv, NextIndInv, PTL DEF Spec

\* Type correctness of the download queue.
THEOREM AlwaysTypeOK == Spec => []TypeOK
BY SpecIndInv, PTL DEF IndInv, RunsInv

\* An entry of download_cancellations belongs to a run of that row whose task is
\* alive or whose launch came as far as the token (plugins.rs:2255-2276,
\* 2980-2991), for any number of runs and requests.
THEOREM AlwaysTokenBelongsToLiveRun == Spec => []TokenBelongsToLiveRun
BY SpecIndInv, PTL DEF IndInv, RunsInv

\* The job registry says of each run whether its task works, which is what the
\* sweep takes it to say (main.rs:1181-1189); but for a run in the middle of its
\* launch, or whose launch was dropped there (plugins.rs:2243-2276).
THEOREM AlwaysJobMirrorsRun == Spec => []JobMirrorsRun
<1>1. IndInv => JobMirrorsRun
  <2> SUFFICES ASSUME IndInv, NEW j \in Runs
               PROVE  jobs[j] \in {"queued", "active"} <=>
                        \/ pc[j] \in Working \union {"dropped"}
                        \/ \E c \in Clients : Launches(c, j)
    BY DEF JobMirrorsRun
  <2>1. pc[j] \in {"created", "registered"} <=> \E c \in Clients : Launches(c, j)
    BY DEF IndInv, LaunchesAreHeld, Launches
  <2>2. QED
    BY <2>1 DEF IndInv, RunsInv, OpenJobs
<1>2. QED
  BY <1>1, SpecIndInv, PTL

-----------------------------------------------------------------------------
(***************************************************************************)
(* The archive ids of a row are those of an ingested run of that row, for    *)
(* any rows, requests, runs, lost updates and restarts: no copy of a row    *)
(* that anybody holds claims more.                                          *)
(***************************************************************************)
USE DEF HonestWriter

LEMMA GoneHasNoArchives == Gone.arch = NoRun
BY DEF Gone

LEMMA NoneIsEarned == \A i : NoRun \in Earned(i)
BY DEF Earned

\* The initial rows and copies claim nothing, and no run was ingested.
LEMMA InitHonest == Init => HonestCopies /\ IngestedSucceed
<1> SUFFICES ASSUME Init PROVE HonestCopies /\ IngestedSucceed
  OBVIOUS
<1>1. IngestedSucceed
  BY DEF Init, IngestedSucceed
<1>2. \A i \in Items : row[i].arch = NoRun /\ sweep[i].arch = NoRun
  BY DEF Init, Gone
<1>3. \A j \in Runs : put[j].arch = NoRun
  BY GoneHasNoArchives DEF Init
<1>4. \A j \in Runs, w \in Writers : aside[j][w] = Idle /\ Idle.put.arch = NoRun
  BY GoneHasNoArchives DEF Init, Idle
<1>5. \A i \in Items : meta[i].snap.arch = NoRun /\ meta[i].put.arch = NoRun
  BY GoneHasNoArchives DEF Init, NoFetch
<1>6. \A c \in Clients : client[c].put.arch = NoRun
  BY GoneHasNoArchives DEF Init, NoRequest
<1>7. QED
  BY <1>1, <1>2, <1>3, <1>4, <1>5, <1>6, NoneIsEarned DEF HonestCopies

\* A launch, and its end, touch no run that was ingested.
LEMMA LaunchesAreNew ==
  ASSUME IndInv, IngestedSucceed, NEW c \in Clients,
         CreateJob(c) \/ RegisterToken(c) \/ SpawnTask(c) \/ Disconnect(c)
  PROVE  /\ ingested' = ingested
         /\ \A j \in ingested : pc'[j] = pc[j] /\ item'[j] = item[j] /\ jobs'[j] = jobs[j]
<1>1. ingested' = ingested /\ ingested \subseteq Runs
  BY DEF CreateJob, RegisterToken, SpawnTask, Disconnect, IndInv, RunsInv, TypeOK
<1>2. CASE CreateJob(c)
  <2>1. lastRun + 1 \in Runs \ ingested
    <3>1. lastRun + 1 \in Runs /\ pc[lastRun + 1] = "none"
      BY <1>2 DEF CreateJob, IndInv, RunsInv, TypeOK, FreshRuns
    <3>2. QED
      BY <3>1 DEF IngestedSucceed
  <2>2. QED
    BY <1>1, <1>2, <2>1 DEF CreateJob, Goto, IndInv, RunsInv, TypeOK
<1>3. CASE RegisterToken(c) \/ SpawnTask(c) \/ Disconnect(c)
  <2>1. client[c].at \in LaunchPlaces => client[c].tok \in Runs \ ingested
    BY HandlerFields DEF IndInv, LaunchesAreHeld, IngestedSucceed
  <2>2. pc' = pc \/ (client[c].at \in LaunchPlaces /\ \E p : pc' = [pc EXCEPT ![client[c].tok] = p])
    BY <1>3 DEF RegisterToken, SpawnTask, Disconnect, Goto, LaunchPlaces
  <2>3. UNCHANGED <<item, jobs>>
    BY <1>3 DEF RegisterToken, SpawnTask, Disconnect
  <2>4. QED
    BY <1>1, <2>1, <2>2, <2>3 DEF IndInv, RunsInv, TypeOK
<1>4. QED
  BY <1>2, <1>3

\* The places of a run that was ingested.
LEMMA IngestedPlaces ==
  ASSUME IndInv, IngestedSucceed, NEW j \in ingested
  PROVE  j \in Runs /\ pc[j] \notin {"none", "created", "registered", "jobFail"}
BY DEF IndInv, RunsInv, TypeOK, IngestedSucceed

\* The steps that change none of the runs' places, rows, jobs and histories.
LEMMA OthersLeaveRuns ==
  ASSUME IndInv, [Next]_vars,
         ~\E j \in Runs : RunStep(j) \/ LoseStore(j),
         ~\E c \in Clients : CreateJob(c) \/ RegisterToken(c) \/ SpawnTask(c) \/ Disconnect(c),
         ~Restart
  PROVE  UNCHANGED <<lastRun, pc, item, ingested, put, jobs>>
<1>1. ASSUME NEW c \in Clients, ClientStep(c)
      PROVE  UNCHANGED <<lastRun, pc, item, ingested, put, jobs>>
  BY <1>1 DEF ClientStep, RequestStart, RequestStop, RequestPause, RequestDelete, RequestPatch,
     RequestConfirm, StartAnswered, CheckDuplicates, StoreStarting, StopNow, PauseFindToken,
     PauseFetch, PauseStore, PauseCancel, DeleteRow, PatchRow, StoreAnswer, runVars
<1>2. QED
  BY <1>1 DEF Next, vars, SweepList, MetaStep, MetaFetch, MetaNothing, MetaStore, SweepStep,
     SweepMark, SweepSpare, Asides, AsideFetch, AsideStore, runVars, otherVars

\* A run's own step: it is ingested once, and goes on to its success from there.
LEMMA TasksSucceed ==
  ASSUME IndInv, IngestedSucceed, NEW j \in Runs, RunStep(j) \/ LoseStore(j)
  PROVE  /\ item' = item
         /\ ingested \subseteq ingested' /\ ingested' \subseteq ingested \union {j}
         /\ \A k \in Runs \ {j} : pc'[k] = pc[k] /\ jobs'[k] = jobs[k]
         /\ pc'[j] \in {"catalogued", "completing"} => j \in ingested'
         /\ j \in ingested' => /\ jobs'[j] # "failed"
                              /\ pc'[j] \in {"catalogued", "completing", "jobFinish", "cleanup",
                                             "ended"}
<1> USE DEF IndInv, RunsInv, IngestedSucceed
<1>1. CASE Fetch(j) \/ Store(j) \/ LoseStore(j)
  <2>1. /\ pc[j] \in WritePlaces
        /\ pc' = pc \/ pc' = [pc EXCEPT ![j] = After[pc[j]]]
        /\ UNCHANGED <<item, ingested, jobs>>
    BY <1>1 DEF Fetch, Store, LoseStore, PutIsDue, Goto, otherVars
  <2>2. QED
    BY <2>1 DEF TypeOK, WritePlaces, After
<1>2. CASE Ingested(j)
  <2>1. jobs[j] # "failed"
    BY <1>2 DEF Ingested, OpenJobs, Working, Places
  <2>2. QED
    BY <1>2, <2>1 DEF Ingested, Goto, TypeOK, otherVars
<1>3. CASE Report(j)
  BY <1>3 DEF Report, Goto, TypeOK, otherVars
<1>4. CASE Cleanup(j) \/ MarkActive(j) \/ Grant(j) \/ Answered(j)
  BY <1>4 DEF Cleanup, MarkActive, Grant, Answered, Goto, TypeOK, otherVars
<1>5. CASE \/ Negotiate(j) \/ PassTurn(j) \/ PluginAnswers(j) \/ Classify(j) \/ Ask(j)
           \/ Transferred(j) \/ TransferFails(j) \/ IngestFails(j) \/ Abort(j)
  <2>1. \E from \in Working \ {"catalogued", "completing", "jobFinish"},
           to \in Working \ {"catalogued", "completing"} : Moves(j, from, to)
    BY <1>5 DEF Negotiate, PassTurn, PluginAnswers, Classify, Ask, Transferred, TransferFails,
       IngestFails, Abort, Working, Places, WritePlaces, After
  <2>2. QED
    BY <2>1 DEF Moves, Goto, TypeOK, otherVars, Working
<1>6. QED
  BY <1>1, <1>2, <1>3, <1>4, <1>5 DEF RunStep

\* Every step keeps it so that an ingested run succeeds, and what a row has earned
\* it keeps.
LEMMA NextIngested ==
  ASSUME IndInv, IngestedSucceed, [Next]_vars
  PROVE  IngestedSucceed' /\ \A i : Earned(i) \subseteq Earned(i)'
<1>0. ingested \subseteq Runs
  BY DEF IndInv, RunsInv, TypeOK
<1>1. ASSUME NEW j \in Runs, RunStep(j) \/ LoseStore(j)
      PROVE  IngestedSucceed' /\ \A i : Earned(i) \subseteq Earned(i)'
  <2>1. IngestedSucceed'
    BY <1>1, TasksSucceed DEF IngestedSucceed
  <2>2. \A i : Earned(i) \subseteq Earned(i)'
    BY <1>1, TasksSucceed DEF Earned
  <2>3. QED
    BY <2>1, <2>2
<1>2. ASSUME NEW c \in Clients,
             CreateJob(c) \/ RegisterToken(c) \/ SpawnTask(c) \/ Disconnect(c)
      PROVE  IngestedSucceed' /\ \A i : Earned(i) \subseteq Earned(i)'
  <2>1. \A j \in Runs : pc'[j] \in {"catalogued", "completing"} => pc'[j] = pc[j]
    <3>1. \A j \in Runs : pc'[j] = pc[j] \/ pc'[j] \in {"created", "registered", "spawned", "dropped"}
      BY <1>2 DEF CreateJob, RegisterToken, SpawnTask, Disconnect, Goto, IndInv, RunsInv, TypeOK
    <3>2. QED
      BY <3>1
  <2>2. QED
    BY <1>0, <1>2, <2>1, LaunchesAreNew DEF IngestedSucceed, Earned
<1>3. CASE Restart
  <2>1. \A j \in ingested : j <= lastRun
    BY <1>0, IngestedPlaces DEF IndInv, RunsInv, TypeOK, FreshRuns
  <2>2. QED
    BY <1>0, <1>3, <2>1 DEF Restart, IngestedSucceed, Earned
<1>4. ASSUME UNCHANGED <<pc, item, ingested, jobs>>
      PROVE  IngestedSucceed' /\ \A i : Earned(i) \subseteq Earned(i)'
  BY <1>4 DEF IngestedSucceed, Earned
<1>5. QED
  BY <1>1, <1>2, <1>3, <1>4, OthersLeaveRuns

Honest == HonestCopies /\ IngestedSucceed

LEMMA EarnedGrows ==
  ASSUME IndInv, Honest, [Next]_vars
  PROVE  \A i : Earned(i) \subseteq Earned(i)'
BY NextIngested DEF Honest

\* What an update of its row makes of the archive ids.
LEMMA ImageArchives ==
  ASSUME IndInv, Honest, NEW j \in Runs, pc[j] \in WritePlaces, row[item[j]] # Gone
  PROVE  Image(j, row[item[j]]).arch \in Earned(item[j])
<1> DEFINE r == row[item[j]]
<1>1. r \in Rows /\ r.arch \in Earned(item[j])
  BY DEF IndInv, RunsInv, TypeOK, Honest, HonestCopies
<1>2. pc[j] = "completing" => j \in Earned(item[j])
  BY DEF Honest, IngestedSucceed, Earned
<1> HIDE DEF r
<1>3. Image(j, r).arch \in {r.arch, NoRun} \/ (pc[j] = "completing" /\ Image(j, r).arch = j)
  <2> DEFINE st == Label[pc[j]]
  <2> DEFINE job == IF pc[j] \in Naming THEN j ELSE NoRun
  <2> DEFINE arch == IF pc[j] = "parking" THEN r.arch ELSE IF pc[j] = "completing" THEN j ELSE NoRun
  <2>1. CASE pc[j] \in NotePlaces
    BY <2>1 DEF Image
  <2>2. CASE pc[j] \notin NotePlaces
    <3>1. Image(j, r) = [r EXCEPT !.st = st, !.job = job, !.arch = arch]
      BY <2>2 DEF Image
    <3>2. arch \in {r.arch, NoRun} \/ (pc[j] = "completing" /\ arch = j)
      OBVIOUS
    <3> HIDE DEF st, job, arch
    <3>3. Image(j, r).arch = arch
      BY <1>1, <3>1 DEF Rows
    <3>4. QED
      BY <3>2, <3>3
  <2>3. QED
    BY <2>1, <2>2
<1>4. QED
  BY <1>1, <1>2, <1>3, NoneIsEarned DEF r

\* The steps of a run's task keep every copy honest.
LEMMA RunStepHonest ==
  ASSUME IndInv, Honest, [Next]_vars, NEW j \in Runs, RunStep(j) \/ LoseStore(j)
  PROVE  HonestCopies'
<1>0. /\ \A i : Earned(i) \subseteq Earned(i)'
      /\ UNCHANGED <<item, lastRun, client, meta, sweep>>
  BY EarnedGrows, TasksMove DEF IndInv, RunStep, LoseStore, Fetch, Store, MarkActive, Negotiate,
     PassTurn, PluginAnswers, Classify, Ask, Grant, Answered, Transferred, TransferFails, Ingested,
     IngestFails, Abort, Report, Cleanup, Moves, otherVars
<1>1. \A i \in Items : row'[i].arch \in Earned(i)
  <2>1. CASE Store(j)
    BY <2>1 DEF Store, Honest, HonestCopies, IndInv, RunsInv, TypeOK
  <2>2. CASE ~Store(j)
    <3>1. row' = row
      BY <2>2 DEF RunStep, LoseStore, Fetch, MarkActive, Negotiate, PassTurn, PluginAnswers,
         Classify, Ask, Grant, Answered, Transferred, TransferFails, Ingested, IngestFails, Abort,
         Report, Cleanup, Moves
    <3>2. QED
      BY <3>1 DEF Honest, HonestCopies
  <2>3. QED
    BY <2>1, <2>2
<1>2. \A k \in Runs : put'[k].arch \in Earned(item[k])
  <2>1. CASE Fetch(j)
    <3>1. row[item[j]] # Gone => Image(j, row[item[j]]).arch \in Earned(item[j])
      BY <2>1, ImageArchives DEF Fetch
    <3>2. put' = put \/ (row[item[j]] # Gone /\ put' = [put EXCEPT ![j] = Image(j, row[item[j]])])
      BY <2>1 DEF Fetch
    <3>3. QED
      BY <3>1, <3>2 DEF Honest, HonestCopies, IndInv, RunsInv, TypeOK
  <2>2. CASE Store(j) \/ LoseStore(j)
    BY <2>2, GoneHasNoArchives, NoneIsEarned DEF Store, LoseStore, Honest, HonestCopies, IndInv,
       RunsInv, TypeOK
  <2>3. CASE ~Fetch(j) /\ ~Store(j) /\ ~LoseStore(j)
    <3>1. put' = put
      BY <2>3 DEF RunStep, MarkActive, Negotiate, PassTurn, PluginAnswers, Classify, Ask, Grant,
         Answered, Transferred, TransferFails, Ingested, IngestFails, Abort, Report, Cleanup, Moves
    <3>2. QED
      BY <3>1 DEF Honest, HonestCopies
  <2>4. QED
    BY <2>1, <2>2, <2>3
<1>3. \A k \in Runs, w \in Writers : HonestWriter(k, aside'[k][w])
  <2>0. \A k \in Runs, w \in Writers : HonestWriter(k, aside[k][w])
    BY DEF Honest, HonestCopies
  <2>1. CASE Grant(j) \/ Answered(j)
    <3>1. j <= lastRun
      BY <2>1 DEF Grant, Answered, IndInv, RunsInv, TypeOK, FreshRuns
    <3>2. HonestWriter(j, Due)
      BY <3>1, GoneHasNoArchives, NoneIsEarned DEF Due
    <3>3. aside' = aside \/ \E w \in Writers : aside' = [aside EXCEPT ![j][w] = Due]
      BY <2>1 DEF Grant, Answered, Writers
    <3>4. \A k \in Runs, w \in Writers : aside'[k][w] \in {aside[k][w], Due}
                                        /\ (aside'[k][w] # aside[k][w] => k = j)
      BY <3>3 DEF IndInv, RunsInv, TypeOK
    <3>5. QED
      BY <2>0, <3>2, <3>4
  <2>2. CASE ~Grant(j) /\ ~Answered(j)
    <3>1. aside' = aside
      BY <2>2 DEF RunStep, LoseStore, Fetch, Store, MarkActive, Negotiate, PassTurn, PluginAnswers,
         Classify, Ask, Transferred, TransferFails, Ingested, IngestFails, Abort, Report, Cleanup,
         Moves
    <3>2. QED
      BY <2>0, <3>1
  <2>3. QED
    BY <2>1, <2>2
<1>4. QED
  BY <1>0, <1>1, <1>2, <1>3 DEF Honest, HonestCopies

\* A step that changes no run keeps every copy honest when what it stores and
\* what it keeps were honest before.
LEMMA CopiesMoved ==
  ASSUME IndInv, [Next]_vars, Honest, UNCHANGED <<lastRun, item, put>>,
         \A i \in Items : row'[i].arch \in Earned(i),
         \A j \in Runs, w \in Writers : HonestWriter(j, aside'[j][w]),
         \A i \in Items : meta'[i].snap.arch \in Earned(i) /\ meta'[i].put.arch \in Earned(i),
         \A c \in Clients :
           /\ client'[c].put.arch \in Earned(client'[c].item)
           /\ client'[c].at = "idle" => client'[c].put.arch = NoRun,
         \A i \in Items : sweep'[i].arch \in Earned(i)
  PROVE  HonestCopies'
<1>1. \A i : Earned(i) \subseteq Earned(i)'
  BY EarnedGrows
<1>2. QED
  BY <1>1 DEF Honest, HonestCopies

\* What is honest before a step.
LEMMA HonestParts ==
  ASSUME IndInv, Honest
  PROVE  /\ \A i \in Items : row[i].arch \in Earned(i)
         /\ \A j \in Runs, w \in Writers : HonestWriter(j, aside[j][w])
         /\ \A i \in Items : meta[i].snap.arch \in Earned(i) /\ meta[i].put.arch \in Earned(i)
         /\ \A c \in Clients :
              /\ client[c].put.arch \in Earned(client[c].item)
              /\ client[c].at = "idle" => client[c].put.arch = NoRun
         /\ \A i \in Items : sweep[i].arch \in Earned(i)
         /\ \A j \in Runs : item[j] \in Items
         /\ row \in [Items -> Copies]
         /\ aside \in [Runs -> [Writers -> [due : BOOLEAN, put : Copies]]]
         /\ meta \in [Items -> Fetches]
         /\ client \in [Clients -> Handlers]
         /\ sweep \in [Items -> Copies]
BY DEF Honest, HonestCopies, IndInv, RunsInv, TypeOK

\* The writers a run leaves behind keep every copy honest: Downloading takes the
\* archive ids away, and the drain puts back what it read.
LEMMA AsidesHonest ==
  ASSUME IndInv, Honest, [Next]_vars, NEW j \in Runs, NEW w \in Writers, Asides(j, w)
  PROVE  HonestCopies'
<1> USE HonestParts
<1>1. CASE AsideFetch(j, w)
  <2> DEFINE r == row[item[j]]
  <2> DEFINE kept == IF r = Gone THEN Idle ELSE [due |-> TRUE, put |-> AsideImage(j, w, r)]
  <2>0. j <= lastRun /\ (r.arch \in Earned(item[j]))
    <3>1. aside[j][w] # Idle
      BY <1>1 DEF AsideFetch, Idle
    <3>2. QED
      BY <3>1
  <2>1. HonestWriter(j, kept)
    <3>1. CASE r = Gone
      BY <3>1, GoneHasNoArchives, NoneIsEarned DEF Idle
    <3>2. CASE r # Gone /\ w = "drain"
      BY <2>0, <3>2 DEF AsideImage
    <3>3. CASE r # Gone /\ w # "drain"
      <4>1. r \in Rows
        BY <3>3
      <4>2. [r EXCEPT !.st = "Downloading", !.job = j, !.arch = NoRun].arch = NoRun
        BY <4>1 DEF Rows
      <4>3. QED
        BY <2>0, <3>3, <4>2, NoneIsEarned DEF AsideImage
    <3>4. QED
      BY <3>1, <3>2, <3>3
  <2>2. aside' = [aside EXCEPT ![j][w] = kept]
    BY <1>1 DEF AsideFetch
  <2> HIDE DEF kept
  <2>3. \A k \in Runs, v \in Writers : HonestWriter(k, aside'[k][v])
    BY <2>1, <2>2
  <2>4. QED
    BY <1>1, <2>3, CopiesMoved DEF AsideFetch, otherVars
<1>2. CASE AsideStore(j, w)
  <2>1. \A i \in Items : row'[i].arch \in Earned(i)
    BY <1>2 DEF AsideStore
  <2>2. \A k \in Runs, v \in Writers : HonestWriter(k, aside'[k][v])
    BY <1>2, GoneHasNoArchives, NoneIsEarned DEF AsideStore, Idle
  <2>3. QED
    BY <1>2, <2>1, <2>2, CopiesMoved DEF AsideStore, otherVars
<1>3. QED
  BY <1>1, <1>2 DEF Asides

\* The metadata fetch keeps every copy honest.
LEMMA MetaHonest ==
  ASSUME IndInv, Honest, [Next]_vars, NEW i \in Items, MetaStep(i)
  PROVE  HonestCopies'
<1> USE HonestParts
<1>1. \A k \in Items : row'[k].arch \in Earned(k)
  BY DEF MetaStep, MetaFetch, MetaNothing, MetaStore
<1>2. \A k \in Items : meta'[k].snap.arch \in Earned(k) /\ meta'[k].put.arch \in Earned(k)
  <2>1. CASE MetaFetch(i)
    <3> DEFINE copy == IF row[i] = Gone THEN meta[i].snap ELSE row[i]
    <3>1. copy.arch \in Earned(i)
      OBVIOUS
    <3>2. meta' = [meta EXCEPT ![i].put = copy, ![i].snap = Gone]
      BY <2>1 DEF MetaFetch
    <3> HIDE DEF copy
    <3>3. QED
      BY <3>1, <3>2, GoneHasNoArchives, NoneIsEarned DEF Fetches
  <2>2. CASE MetaNothing(i)
    BY <2>2, GoneHasNoArchives, NoneIsEarned DEF MetaNothing, NoFetch
  <2>3. CASE MetaStore(i)
    BY <2>3, GoneHasNoArchives, NoneIsEarned DEF MetaStore, NoFetch
  <2>4. QED
    BY <2>1, <2>2, <2>3 DEF MetaStep
<1>3. QED
  BY <1>1, <1>2, CopiesMoved DEF MetaStep, MetaFetch, MetaNothing, MetaStore, runVars

\* The sweeps keep every copy honest: they change a row's state alone.
LEMMA SweepHonest ==
  ASSUME IndInv, Honest, [Next]_vars, SweepList \/ \E i \in Items : SweepStep(i)
  PROVE  HonestCopies'
<1> USE HonestParts
<1>1. CASE SweepList
  <2>1. \A i \in Items : sweep'[i].arch \in Earned(i)
    BY <1>1, GoneHasNoArchives, NoneIsEarned DEF SweepList
  <2>2. QED
    BY <1>1, <2>1, CopiesMoved DEF SweepList, runVars
<1>2. ASSUME NEW i \in Items, SweepStep(i)
      PROVE  HonestCopies'
  <2>1. \A k \in Items : sweep'[k].arch \in Earned(k)
    BY <1>2, GoneHasNoArchives, NoneIsEarned DEF SweepStep, SweepMark, SweepSpare
  <2>2. \A k \in Items : row'[k].arch \in Earned(k)
    <3>1. CASE SweepMark(i)
      <4>1. sweep[i] \in Rows
        BY <3>1 DEF SweepMark
      <4>2. [sweep[i] EXCEPT !.st = "Error"].arch = sweep[i].arch
        BY <4>1 DEF Rows
      <4>3. QED
        BY <3>1, <4>2 DEF SweepMark
    <3>2. CASE SweepSpare(i)
      BY <3>2 DEF SweepSpare
    <3>3. QED
      BY <1>2, <3>1, <3>2 DEF SweepStep
  <2>3. QED
    BY <1>2, <2>1, <2>2, CopiesMoved DEF SweepStep, SweepMark, SweepSpare, runVars
<1>3. QED
  BY <1>1, <1>2

\* A restart keeps every row honest and forgets every other copy.
LEMMA RestartHonest ==
  ASSUME IndInv, Honest, [Next]_vars, Restart
  PROVE  HonestCopies'
<1> USE HonestParts
<1>1. \A i : Earned(i) \subseteq Earned(i)'
  BY EarnedGrows
<1>2. \A i \in Items : row'[i].arch = row[i].arch
  <2>1. ASSUME NEW i \in Items
        PROVE  row'[i].arch = row[i].arch
    <3>1. CASE InFlight(row[i])
      <4>1. row[i] \in Rows
        BY <3>1 DEF InFlight, Gone
      <4>2. [row[i] EXCEPT !.st = "Error"].arch = row[i].arch
        BY <4>1 DEF Rows
      <4>3. QED
        BY <3>1, <4>2 DEF Restart
    <3>2. CASE ~InFlight(row[i])
      BY <3>2 DEF Restart
    <3>3. QED
      BY <3>1, <3>2
  <2>2. QED
    BY <2>1
<1>3. \A i \in Items : row'[i].arch \in Earned(i)'
  BY <1>1, <1>2
<1>4. /\ \A j \in Runs : put'[j].arch = NoRun
      /\ \A j \in Runs, w \in Writers : aside'[j][w] = Idle /\ Idle.put.arch = NoRun
      /\ \A i \in Items : meta'[i].snap.arch = NoRun /\ meta'[i].put.arch = NoRun
      /\ \A c \in Clients : client'[c].put.arch = NoRun
      /\ \A i \in Items : sweep'[i].arch = NoRun
  BY GoneHasNoArchives DEF Restart, Idle, NoFetch, NoRequest
<1>5. \A i : NoRun \in Earned(i)'
  BY DEF Earned
<1>6. QED
  BY <1>3, <1>4, <1>5 DEF HonestCopies

\* A request's step keeps every copy honest when what it stores and what its
\* handler then holds are honest.
LEMMA RequestMoved ==
  ASSUME IndInv, [Next]_vars, Honest, NEW c \in Clients,
         UNCHANGED <<lastRun, item, put, aside, sweep>>,
         \A i \in Items : meta'[i].snap.arch \in Earned(i) /\ meta'[i].put.arch \in Earned(i),
         \A i \in Items : row'[i].arch \in Earned(i),
         NEW h, client' = [client EXCEPT ![c] = h],
         h.put.arch \in Earned(h.item), h.at = "idle" => h.put.arch = NoRun
  PROVE  HonestCopies'
<1>1. \A d \in Clients :
        /\ client'[d].put.arch \in Earned(client'[d].item)
        /\ client'[d].at = "idle" => client'[d].put.arch = NoRun
  BY HonestParts
<1>2. \A j \in Runs, w \in Writers : HonestWriter(j, aside'[j][w])
  BY HonestParts
<1>3. \A i \in Items : sweep'[i].arch \in Earned(i)
  BY HonestParts
<1>4. QED
  BY <1>1, <1>2, <1>3, CopiesMoved

\* A request that only reads.
LEMMA RequestRead ==
  ASSUME IndInv, [Next]_vars, Honest, NEW c \in Clients,
         UNCHANGED <<row, runVars, meta, sweep, faults, crashes>>,
         NEW h, client' = [client EXCEPT ![c] = h],
         h.put.arch \in Earned(h.item), h.at = "idle" => h.put.arch = NoRun
  PROVE  HonestCopies'
<1>1. \A i \in Items : meta'[i].snap.arch \in Earned(i) /\ meta'[i].put.arch \in Earned(i)
  BY HonestParts
<1>2. \A i \in Items : row'[i].arch \in Earned(i)
  BY HonestParts
<1>3. UNCHANGED <<lastRun, item, put, aside, sweep>>
  BY DEF runVars
<1>4. QED
  BY <1>1, <1>2, <1>3, RequestMoved

\* A request that ends, its last step changing one row at most.
LEMMA RequestEnds ==
  ASSUME IndInv, [Next]_vars, Honest, NEW c \in Clients, Finish(c),
         UNCHANGED <<lastRun, item, put, aside, meta, sweep>>,
         \A i \in Items : row'[i].arch \in Earned(i)
  PROVE  HonestCopies'
<1>1. \A i \in Items : meta'[i].snap.arch \in Earned(i) /\ meta'[i].put.arch \in Earned(i)
  BY HonestParts
<1>2. /\ NoRequest(client[c].item).put.arch = NoRun
      /\ NoRequest(client[c].item).put.arch \in Earned(NoRequest(client[c].item).item)
  BY GoneHasNoArchives, NoneIsEarned DEF NoRequest
<1>3. client' = [client EXCEPT ![c] = NoRequest(client[c].item)]
  BY DEF Finish
<1>4. QED
  BY <1>1, <1>2, <1>3, RequestMoved

\* What the requests read keeps every copy honest.
LEMMA RequestsHonest ==
  ASSUME IndInv, Honest, [Next]_vars, NEW c \in Clients, NEW i \in Items,
         \/ RequestStart(c, i) \/ RequestStop(c, i) \/ RequestPause(c, i)
         \/ RequestDelete(c, i) \/ RequestPatch(c, i) \/ RequestConfirm(c, i)
  PROVE  HonestCopies'
<1>1. client[c] \in Handlers /\ row[i] \in Copies /\ (row[i].arch \in Earned(i))
  BY HonestParts
<1>2. ASSUME NEW place \in HandlerPlaces \ {"idle"}, NEW yes, NEW r,
             client' = [client EXCEPT ![c] = [client[c] EXCEPT !.at = place, !.item = i, !.put = r,
                                                              !.yes = yes]],
             r.arch \in Earned(i),
             UNCHANGED <<row, runVars, meta, sweep, faults, crashes>>
      PROVE  HonestCopies'
  <2> DEFINE h == [client[c] EXCEPT !.at = place, !.item = i, !.put = r, !.yes = yes]
  <2>1. h.put = r /\ h.at = place /\ h.item = i
    BY <1>1 DEF Handlers
  <2> HIDE DEF h
  <2>2. client' = [client EXCEPT ![c] = h]
    BY <1>2 DEF h
  <2>3. QED
    BY <1>2, <2>1, <2>2, RequestRead
<1>3. ASSUME NEW place \in HandlerPlaces \ {"idle"},
             client' = [client EXCEPT ![c].at = place, ![c].item = i, ![c].put = row[i]],
             UNCHANGED <<row, runVars, meta, sweep, faults, crashes>>
      PROVE  HonestCopies'
  <2>1. client' = [client EXCEPT ![c] = [client[c] EXCEPT !.at = place, !.item = i, !.put = row[i],
                                                         !.yes = client[c].yes]]
    BY <1>1, <1>3, HonestParts DEF Handlers
  <2>2. QED
    BY <1>1, <1>2, <1>3, <2>1
<1>4. ASSUME NEW place \in HandlerPlaces \ {"idle"}, client[c].at = "idle",
             client' = [client EXCEPT ![c].at = place, ![c].item = i],
             UNCHANGED <<row, runVars, meta, sweep, faults, crashes>>
      PROVE  HonestCopies'
  <2> DEFINE h == [client[c] EXCEPT !.at = place, !.item = i]
  <2>1. h.put = client[c].put /\ h.at = place /\ h.item = i
    BY <1>1 DEF Handlers
  <2>2. client[c].put.arch = NoRun
    BY <1>4, HonestParts
  <2> HIDE DEF h
  <2>3. client' = [client EXCEPT ![c] = h]
    BY <1>4 DEF h
  <2>4. QED
    BY <1>4, <2>1, <2>2, <2>3, NoneIsEarned, RequestRead
<1>5. CASE RequestStart(c, i)
  <2>1. "checking" \in HandlerPlaces \ {"idle"}
    BY DEF HandlerPlaces
  <2>2. /\ client' = [client EXCEPT ![c].at = "checking", ![c].item = i, ![c].put = row[i]]
        /\ UNCHANGED <<row, runVars, meta, sweep, faults, crashes>>
    BY <1>5 DEF RequestStart
  <2>3. QED
    BY <1>3, <2>1, <2>2
<1>6. CASE RequestPause(c, i)
  <2>1. "pausing" \in HandlerPlaces \ {"idle"}
    BY DEF HandlerPlaces
  <2>2. /\ client' = [client EXCEPT ![c].at = "pausing", ![c].item = i, ![c].put = row[i]]
        /\ UNCHANGED <<row, runVars, meta, sweep, faults, crashes>>
    BY <1>6 DEF RequestPause
  <2>3. QED
    BY <1>3, <2>1, <2>2
<1>7. CASE RequestPatch(c, i)
  <2>1. "patching" \in HandlerPlaces \ {"idle"}
    BY DEF HandlerPlaces
  <2>2. /\ client' = [client EXCEPT ![c].at = "patching", ![c].item = i, ![c].put = row[i]]
        /\ UNCHANGED <<row, runVars, meta, sweep, faults, crashes>>
    BY <1>7 DEF RequestPatch
  <2>3. QED
    BY <1>3, <2>1, <2>2
<1>8. CASE RequestStop(c, i)
  BY <1>4, <1>8 DEF RequestStop, Accept, HandlerPlaces
<1>9. CASE RequestDelete(c, i)
  BY <1>4, <1>9 DEF RequestDelete, Accept, HandlerPlaces
<1>10. CASE RequestConfirm(c, i)
  <2>1. PICK proceed \in BOOLEAN :
          client' = [client EXCEPT ![c].at = "answering", ![c].item = i, ![c].yes = proceed,
                       ![c].put = [row[i] EXCEPT !.st = IF proceed THEN "Queued" ELSE "Cancelled",
                                                 !.yes = proceed]]
    BY <1>10 DEF RequestConfirm
  <2> DEFINE r == [row[i] EXCEPT !.st = IF proceed THEN "Queued" ELSE "Cancelled", !.yes = proceed]
  <2>2. row[i] \in Rows
    BY <1>1, <1>10 DEF RequestConfirm, Accept
  <2>3. r.arch = row[i].arch
    BY <2>2 DEF Rows
  <2>4. client' = [client EXCEPT ![c].at = "answering", ![c].item = i, ![c].yes = proceed,
                     ![c].put = r]
    BY <2>1
  <2> HIDE DEF r
  <2>5. client' = [client EXCEPT ![c] = [client[c] EXCEPT !.at = "answering", !.item = i, !.put = r,
                                                         !.yes = proceed]]
    BY <1>1, <2>4, HonestParts DEF Handlers
  <2>6. QED
    BY <1>1, <1>2, <1>10, <2>3, <2>5 DEF RequestConfirm, HandlerPlaces
<1>11. QED
  BY <1>5, <1>6, <1>7, <1>8, <1>9, <1>10

\* A handler that goes on to another step, holding an honest copy of its row.
LEMMA HandlerGoesOn ==
  ASSUME IndInv, [Next]_vars, Honest, NEW c \in Clients,
         NEW place \in HandlerPlaces \ {"idle"}, NEW r, r.arch \in Earned(client[c].item),
         client' = [client EXCEPT ![c].at = place, ![c].put = r],
         UNCHANGED <<lastRun, item, put, aside, sweep>>,
         \A i \in Items : meta'[i].snap.arch \in Earned(i) /\ meta'[i].put.arch \in Earned(i),
         \A i \in Items : row'[i].arch \in Earned(i)
  PROVE  HonestCopies'
<1> DEFINE h == [client[c] EXCEPT !.at = place, !.put = r]
<1>1. h.put = r /\ h.at = place /\ h.item = client[c].item
  BY HonestParts DEF Handlers
<1> HIDE DEF h
<1>2. client' = [client EXCEPT ![c] = h]
  BY HonestParts DEF h, Handlers
<1>3. QED
  BY <1>1, <1>2, RequestMoved

\* What a request stores is the honest copy it holds.
LEMMA StoresHeld ==
  ASSUME IndInv, Honest, NEW c \in Clients,
         row' = [row EXCEPT ![client[c].item] = client[c].put]
  PROVE  \A i \in Items : row'[i].arch \in Earned(i)
BY HonestParts

\* Starting a row keeps every copy honest: the stale copy it stores claims no
\* more than the row did when it was read.
LEMMA StartHonest ==
  ASSUME IndInv, Honest, [Next]_vars, NEW c \in Clients,
         StartAnswered(c) \/ CheckDuplicates(c) \/ StoreStarting(c)
  PROVE  HonestCopies'
<1>0. client[c].item \in Items /\ client[c].put.arch \in Earned(client[c].item)
  BY HonestParts, HandlerFields DEF IndInv
<1>1. CASE StartAnswered(c)
  <2>1. CASE client' = [client EXCEPT ![c].at = "checking", ![c].put = row[client[c].item]]
    <3>1. "checking" \in HandlerPlaces \ {"idle"}
      BY DEF HandlerPlaces
    <3>2. row[client[c].item].arch \in Earned(client[c].item)
      BY <1>0, HonestParts
    <3>3. UNCHANGED <<row, lastRun, item, put, aside, meta, sweep>>
      BY <1>1 DEF StartAnswered, runVars
    <3>4. QED
      BY <2>1, <3>1, <3>2, <3>3, HandlerGoesOn, HonestParts
  <2>2. CASE Finish(c)
    BY <1>1, <2>2, RequestEnds, HonestParts DEF StartAnswered, runVars
  <2>3. QED
    BY <1>1, <2>1, <2>2 DEF StartAnswered
<1>2. CASE CheckDuplicates(c)
  <2>1. CASE Finish(c)
    BY <1>2, <2>1, RequestEnds, HonestParts DEF CheckDuplicates, runVars
  <2>2. CASE client' = [client EXCEPT ![c].at = "storing", ![c].put = StartImage(c)]
    <3>1. "storing" \in HandlerPlaces \ {"idle"}
      BY DEF HandlerPlaces
    <3>2. StartImage(c).arch \in Earned(client[c].item)
      <4>1. CASE client[c].put \in Rows
        BY <1>0, <4>1 DEF StartImage, Rows
      <4>2. CASE client[c].put = Gone
        <5>1. StartImage(c).arch = NoRun
          BY <4>2 DEF StartImage, Gone
        <5>2. QED
          BY <5>1, NoneIsEarned
      <4>3. QED
        BY <4>1, <4>2, HandlerFields DEF IndInv
    <3>3. UNCHANGED <<row, lastRun, item, put, aside, meta, sweep>>
      BY <1>2 DEF CheckDuplicates, runVars
    <3>4. QED
      BY <2>2, <3>1, <3>2, <3>3, HandlerGoesOn, HonestParts
  <2>3. QED
    BY <1>2, <2>1, <2>2 DEF CheckDuplicates
<1>3. CASE StoreStarting(c)
  <2>1. \A i \in Items : row'[i].arch \in Earned(i)
    BY <1>3, StoresHeld DEF StoreStarting
  <2>2. \A i \in Items : meta'[i].snap.arch \in Earned(i) /\ meta'[i].put.arch \in Earned(i)
    <3> DEFINE fetch == [due |-> TRUE, snap |-> client[c].put, put |-> Gone]
    <3>1. meta' = meta \/ meta' = [meta EXCEPT ![client[c].item] = fetch]
      BY <1>3 DEF StoreStarting
    <3>2. fetch.snap.arch \in Earned(client[c].item) /\ fetch.put.arch \in Earned(client[c].item)
      BY <1>0, GoneHasNoArchives, NoneIsEarned
    <3> HIDE DEF fetch
    <3>3. QED
      BY <3>1, <3>2, HonestParts
  <2>3. client' = [client EXCEPT ![c].at = "launching", ![c].put = Gone]
    BY <1>3 DEF StoreStarting
  <2>4. UNCHANGED <<lastRun, item, put, aside, sweep>>
    BY <1>3 DEF StoreStarting, runVars
  <2>5. "launching" \in HandlerPlaces \ {"idle"}
    BY DEF HandlerPlaces
  <2>6. QED
    BY <2>1, <2>2, <2>3, <2>4, <2>5, GoneHasNoArchives, NoneIsEarned, HandlerGoesOn
<1>4. QED
  BY <1>1, <1>2, <1>3

\* A new run has no copy of any row.
LEMMA CreateHonest ==
  ASSUME IndInv, Honest, [Next]_vars, NEW c \in Clients, CreateJob(c)
  PROVE  HonestCopies'
<1>0. \A i : NoRun \in Earned(i)'
  BY DEF Earned
<1>1. \A i : Earned(i) \subseteq Earned(i)'
  BY EarnedGrows
<1>2. PICK new \in Runs : new = lastRun + 1
  BY DEF CreateJob, IndInv, RunsInv, TypeOK
<1>3. /\ lastRun' = new
      /\ \A j \in Runs \ {new} : item'[j] = item[j]
      /\ UNCHANGED <<row, put, aside, meta, sweep>>
      /\ client' = [client EXCEPT ![c].at = "registering", ![c].tok = new]
  BY <1>2 DEF CreateJob, IndInv, RunsInv, TypeOK
<1>4. put[new].arch = NoRun
  <2>1. pc[new] = "none" /\ put[new] = Gone
    <3>1. pc[new] = "none"
      BY <1>2 DEF IndInv, RunsInv, TypeOK, FreshRuns
    <3>2. QED
      BY <3>1 DEF IndInv, RunsInv, PutIsDue, WritePlaces, After
  <2>2. QED
    BY <2>1, GoneHasNoArchives
<1>5. \A w \in Writers : aside[new][w] = Idle /\ Idle.put.arch = NoRun
  <2>1. ~(new <= lastRun)
    BY <1>2 DEF IndInv, RunsInv, TypeOK
  <2>2. QED
    BY <2>1, HonestParts, GoneHasNoArchives DEF Idle
<1>6. \A j \in Runs, i \in Items : i = item'[j] => put'[j].arch \in Earned(i)'
  <2>1. ASSUME NEW j \in Runs
        PROVE  put[j].arch \in {NoRun} \union Earned(item[j])
    BY DEF Honest, HonestCopies
  <2>2. ASSUME NEW j \in Runs, NEW i, i = item'[j]
        PROVE  put'[j].arch \in Earned(i)'
    BY <1>0, <1>1, <1>3, <1>4, <2>1, <2>2
  <2>3. QED
    BY <2>2 DEF Earned
<1>7. ASSUME NEW j \in Runs, NEW w \in Writers
      PROVE  HonestWriter(j, aside[j][w])'
  <2>1. CASE j = new
    BY <1>0, <1>3, <1>5, <2>1 DEF Earned
  <2>2. CASE j # new
    <3>1. HonestWriter(j, aside[j][w]) /\ lastRun <= lastRun' /\ lastRun \in Nat /\ lastRun' \in Nat
      BY <1>2, <1>3, HonestParts DEF IndInv, RunsInv, TypeOK
    <3>2. item'[j] = item[j] /\ aside'[j][w] = aside[j][w]
      BY <1>3, <2>2
    <3>3. PICK i \in Items : i = item[j]
      BY HonestParts
    <3>4. aside[j][w].put.arch \in Earned(i)'
      BY <1>1, <3>1, <3>3
    <3>5. QED
      BY <3>1, <3>2, <3>3, <3>4 DEF Earned
  <2>3. QED
    BY <2>1, <2>2
<1>8. \A d \in Clients :
        /\ client'[d].put = client[d].put /\ client'[d].item = client[d].item
        /\ client'[d].at = "idle" => client[d].at = "idle"
  BY <1>3, HonestParts DEF Handlers
<1>9. ASSUME NEW i \in Items
      PROVE  /\ (row[i].arch \in Earned(i))' /\ (sweep[i].arch \in Earned(i))'
             /\ (meta[i].snap.arch \in Earned(i) /\ meta[i].put.arch \in Earned(i))'
  BY <1>1, <1>3, HonestParts
<1>10. ASSUME NEW d \in Clients, NEW i \in Items, i = client'[d].item
       PROVE  client'[d].put.arch \in Earned(i)'
  BY <1>1, <1>8, <1>10, HonestParts
<1>11. \A d \in Clients : client'[d].item \in Items /\ (client'[d].at = "idle" => client'[d].put.arch = NoRun)
  BY <1>8, HonestParts DEF Handlers
<1>12. \A j \in Runs : item'[j] \in Items
  BY <1>3, HonestParts, HandlerFields DEF CreateJob, IndInv, RunsInv, TypeOK
<1>13. \A j \in Runs : (put[j].arch \in Earned(item[j]))'
  BY <1>6, <1>12 DEF Earned
<1>14. \A d \in Clients : (client[d].put.arch \in Earned(client[d].item))'
  BY <1>10, <1>11 DEF Earned
<1>15. QED
  BY <1>7, <1>9, <1>11, <1>13, <1>14 DEF HonestCopies

\* Nor has one whose token is registered, whose task is spawned or whose handler
\* is dropped.
LEMMA LaunchHonest ==
  ASSUME IndInv, Honest, [Next]_vars, NEW c \in Clients,
         RegisterToken(c) \/ SpawnTask(c) \/ Disconnect(c)
  PROVE  HonestCopies'
<1>1. UNCHANGED <<row, lastRun, item, put, aside, meta, sweep>>
  BY DEF RegisterToken, SpawnTask, Disconnect
<1>2. CASE RegisterToken(c)
  <2> DEFINE h == [client[c] EXCEPT !.at = "spawning"]
  <2>1. h.put = client[c].put /\ h.at = "spawning" /\ h.item = client[c].item
    BY HonestParts DEF Handlers
  <2> HIDE DEF h
  <2>2. client' = [client EXCEPT ![c] = h]
    BY <1>2, HonestParts DEF h, RegisterToken, Handlers
  <2>3. QED
    BY <1>1, <2>1, <2>2, HonestParts, RequestMoved
<1>3. CASE SpawnTask(c) \/ Disconnect(c)
  BY <1>1, <1>3, HonestParts, RequestEnds DEF SpawnTask, Disconnect
<1>4. QED
  BY <1>2, <1>3

\* Stop, pause, delete, patch and the answer about an older revision keep every
\* copy honest: a paused row loses its archive ids.
LEMMA HandlersHonest ==
  ASSUME IndInv, Honest, [Next]_vars, NEW c \in Clients,
         \/ StopNow(c) \/ PauseFindToken(c) \/ PauseFetch(c) \/ PauseStore(c) \/ PauseCancel(c)
         \/ DeleteRow(c) \/ PatchRow(c) \/ StoreAnswer(c)
  PROVE  HonestCopies'
<1>0. client[c].item \in Items /\ client[c].put.arch \in Earned(client[c].item)
  BY HonestParts, HandlerFields DEF IndInv
<1>1. CASE StopNow(c) \/ PauseCancel(c)
  <2>1. Finish(c) /\ UNCHANGED <<row, lastRun, item, put, aside, meta, sweep>>
    BY <1>1 DEF StopNow, PauseCancel, runVars
  <2>2. QED
    BY <2>1, RequestEnds, HonestParts
<1>2. CASE PauseFindToken(c)
  <2>1. CASE Finish(c)
    BY <1>2, <2>1, RequestEnds, HonestParts DEF PauseFindToken, runVars
  <2>2. CASE client' = [client EXCEPT ![c].at = "pauseFetch", ![c].tok = token[client[c].item]]
    <3> DEFINE h == [client[c] EXCEPT !.at = "pauseFetch", !.tok = token[client[c].item]]
    <3>1. h.put = client[c].put /\ h.at = "pauseFetch" /\ h.item = client[c].item
      BY HonestParts DEF Handlers
    <3> HIDE DEF h
    <3>2. client' = [client EXCEPT ![c] = h]
      BY <2>2, HonestParts DEF h, Handlers
    <3>3. UNCHANGED <<row, runVars, meta, sweep, faults, crashes>>
      BY <1>2 DEF PauseFindToken
    <3>4. QED
      BY <1>0, <3>1, <3>2, <3>3, RequestRead
  <2>3. QED
    BY <1>2, <2>1, <2>2 DEF PauseFindToken
<1>3. CASE PauseFetch(c)
  <2> DEFINE r == row[client[c].item]
  <2> DEFINE paused == [r EXCEPT !.st = "Paused", !.job = client[c].put.job, !.arch = NoRun]
  <2>1. PICK place \in {"pauseCancel", "pauseStore"}, kept \in {Gone, paused} :
          /\ client' = [client EXCEPT ![c].at = place, ![c].put = kept]
          /\ kept = paused => r # Gone
    <3>1. CASE r = Gone
      <4>1. client' = [client EXCEPT ![c].at = "pauseCancel", ![c].put = Gone]
        BY <1>3, <3>1 DEF PauseFetch
      <4>2. paused # Gone
        BY DEF Gone
      <4>3. QED
        BY <4>1, <4>2
    <3>2. CASE r # Gone
      BY <1>3, <3>2 DEF PauseFetch
    <3>3. QED
      BY <3>1, <3>2
  <2>2. kept.arch = NoRun
    <3>1. CASE kept = Gone
      BY <3>1, GoneHasNoArchives, NoneIsEarned
    <3>2. CASE kept = paused
      <4>1. r \in Rows
        BY <2>1, <3>2, HandlerFields DEF IndInv
      <4>2. paused.arch = NoRun
        BY <4>1 DEF Rows
      <4>3. QED
        BY <3>2, <4>2
    <3>3. QED
      BY <3>1, <3>2
  <2>3. place \in HandlerPlaces \ {"idle"}
    BY DEF HandlerPlaces
  <2>4. UNCHANGED <<row, lastRun, item, put, aside, meta, sweep>>
    BY <1>3 DEF PauseFetch, runVars
  <2> HIDE DEF paused
  <2>5. QED
    BY <2>1, <2>2, <2>3, <2>4, NoneIsEarned, HandlerGoesOn, HonestParts
<1>4. CASE PauseStore(c)
  <2>1. \A i \in Items : row'[i].arch \in Earned(i)
    BY <1>4, StoresHeld DEF PauseStore
  <2>2. client' = [client EXCEPT ![c].at = "pauseCancel", ![c].put = Gone]
    BY <1>4 DEF PauseStore
  <2>3. UNCHANGED <<lastRun, item, put, aside, meta, sweep>>
    BY <1>4 DEF PauseStore, runVars
  <2>4. "pauseCancel" \in HandlerPlaces \ {"idle"}
    BY DEF HandlerPlaces
  <2>5. QED
    BY <2>1, <2>2, <2>3, <2>4, GoneHasNoArchives, NoneIsEarned, HandlerGoesOn, HonestParts
<1>5. CASE DeleteRow(c)
  <2>1. \A i \in Items : row'[i].arch \in Earned(i)
    BY <1>5, GoneHasNoArchives, NoneIsEarned, HonestParts DEF DeleteRow
  <2>2. QED
    BY <1>5, <2>1, RequestEnds DEF DeleteRow, runVars
<1>6. CASE PatchRow(c)
  <2>1. \A i \in Items : row'[i].arch \in Earned(i)
    BY <1>6, StoresHeld DEF PatchRow
  <2>2. QED
    BY <1>6, <2>1, RequestEnds DEF PatchRow, runVars
<1>7. CASE StoreAnswer(c)
  <2>1. \A i \in Items : row'[i].arch \in Earned(i)
    BY <1>7, StoresHeld DEF StoreAnswer
  <2>2. UNCHANGED <<lastRun, item, put, aside, meta, sweep>>
    BY <1>7 DEF StoreAnswer, runVars
  <2>3. CASE Finish(c)
    BY <2>1, <2>2, <2>3, RequestEnds
  <2>4. CASE client' = [client EXCEPT ![c].at = "answered", ![c].put = Gone]
    <3>1. "answered" \in HandlerPlaces \ {"idle"}
      BY DEF HandlerPlaces
    <3>2. QED
      BY <2>1, <2>2, <2>4, <3>1, GoneHasNoArchives, NoneIsEarned, HandlerGoesOn, HonestParts
  <2>5. QED
    BY <1>7, <2>3, <2>4 DEF StoreAnswer
<1>8. QED
  BY <1>1, <1>2, <1>3, <1>4, <1>5, <1>6, <1>7

\* Every step keeps every copy honest.
LEMMA NextHonest == IndInv /\ Honest /\ [Next]_vars => Honest'
<1> SUFFICES ASSUME IndInv, Honest, [Next]_vars
             PROVE  HonestCopies'
  BY NextIngested DEF Honest
<1>1. CASE UNCHANGED vars
  BY <1>1 DEF vars, Honest, HonestCopies, Earned
<1>2. ASSUME NEW c \in Clients, ClientStep(c)
      PROVE  HonestCopies'
  BY <1>2, RequestsHonest, StartHonest, CreateHonest, LaunchHonest, HandlersHonest DEF ClientStep
<1>3. QED
  BY <1>1, <1>2, RunStepHonest, AsidesHonest, MetaHonest, SweepHonest, RestartHonest DEF Next

\* No copy of a row, stored or held, claims archives that no run of it ingested,
\* and every ingested run goes on to its success.
THEOREM SpecHonest == Spec => []Honest
BY InitHonest, NextHonest, SpecIndInv, PTL DEF Spec, Honest

\* The archive ids of a row are none, or those of a run of that very row whose
\* downloads got through ingestion (plugins.rs:3042-3142) and which did not report
\* a failure, whatever stale copies of the row are stored in between by requests,
\* detached writers, the metadata fetch and the sweeps, before and after a
\* restart.
THEOREM AlwaysArchivesOnlyAfterIngest == Spec => []ArchivesOnlyAfterIngest
<1>1. IndInv /\ Honest => ArchivesOnlyAfterIngest
  BY DEF IndInv, RunsInv, TypeOK, Honest, HonestCopies, IngestedSucceed, Earned,
     ArchivesOnlyAfterIngest
<1>2. QED
  BY <1>1, SpecIndInv, SpecHonest, PTL
=============================================================================

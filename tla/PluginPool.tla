----------------------------- MODULE PluginPool -----------------------------
(***************************************************************************)
(* The plugin pool (lanrurugi-plugin/src/pool.rs) and the loop of the       *)
(* process it keeps for each plugin (dispatcher/dispatcher.ts).  A call     *)
(* holds the lock on the map of workers from the look-up to the answer; the *)
(* process outlives its calls, so what an abandoned call sent, or is owed,  *)
(* is still on the two pipes when the next call comes.  The plugin's own    *)
(* HTTP requests travel on the same pipes.                                  *)
(*                                                                          *)
(* A worker is named by the call that spawned it.  Its map of calls that    *)
(* wait for a reply is read off `at': the entry an abandoned call leaves in *)
(* it has no effect.  The throwaway process that is asked for the           *)
(* permissions, the permissions themselves and what calls say are left out. *)
(***************************************************************************)
EXTENDS Naturals, Sequences

CONSTANTS
  NCalls,      \* calls of execute, numbered in the order in which they queue
  Plugins,
  plugin,      \* call -> plugin
  PipeRoom,    \* lines a pipe holds
  MaxFetches,  \* bound on a process's HTTP requests
  MaxUpsets    \* bound on edits, lost clients, failures, and processes that loop or exit

ASSUME PoolAssumption ==
  /\ NCalls \in Nat /\ plugin \in [1..NCalls -> Plugins]
  /\ PipeRoom \in Nat \ {0} /\ MaxFetches \in Nat /\ MaxUpsets \in Nat

Calls == 1..NCalls
Nothing == 0  \* no call, no worker, no line

\* A line on a pipe is a call, an HTTP request of the plugin (or its answer), or no JSON.
Http == NCalls + 1
Torn == NCalls + 2

VARIABLES
  \* A call: where it is, the mtime it found (0: none), and the worker that
  \* answered or failed it.
  at, found, by,
  \* plugin -> mtime of its file; who holds PluginPool.workers; plugin -> worker.
  file, lock, workers,
  \* A worker: the mtime read for it, its pipes, and whether the last line to it
  \* was left unfinished.
  stamp, stdin, stdout, cut,
  \* Its process: its state, the version of the file it imported, the calls it
  \* is working on, the line it is writing, its requests, those being relayed.
  state, code, doing, out, fetched, relays,
  upsets

calls == <<at, found, by>>
pool == <<file, lock, workers>>
pipes == <<stamp, stdin, stdout, cut>>
process == <<state, code, doing, out, fetched, relays>>
vars == <<calls, pool, pipes, process, upsets>>

Holding == {"spawn", "writing", "waiting"}
Ended == {"done", "failed", "dropped"}

CallsType ==
  /\ at \in [Calls -> {"queued"} \union Holding \union Ended]
  /\ found \in [Calls -> Nat] /\ by \in [Calls -> Calls \union {Nothing}]

PoolType ==
  /\ file \in [Plugins -> Nat \ {0}]
  /\ lock \in Calls \union {Nothing} /\ workers \in [Plugins -> Calls \union {Nothing}]

PipesType ==
  /\ stamp \in [Calls -> Nat] /\ cut \in [Calls -> BOOLEAN]
  /\ stdin \in [Calls -> Seq(Calls \union {Http, Torn})]
  /\ stdout \in [Calls -> Seq(Calls \union {Http})]

ProcessType ==
  /\ state \in [Calls -> {"none", "up", "looping", "gone"}] /\ code \in [Calls -> Nat]
  /\ doing \in [Calls -> SUBSET Calls] /\ out \in [Calls -> Calls \union {Http, Nothing}]
  /\ fetched \in [Calls -> 0..MaxFetches] /\ relays \in [Calls -> Nat]

TypeOK == CallsType /\ PoolType /\ PipesType /\ ProcessType /\ upsets \in 0..MaxUpsets

Init ==
  /\ at = [k \in Calls |-> "queued"]
  /\ found = [k \in Calls |-> 0] /\ by = [k \in Calls |-> Nothing]
  /\ file = [p \in Plugins |-> 1] /\ lock = Nothing
  /\ workers = [p \in Plugins |-> Nothing]
  /\ stamp = [w \in Calls |-> 0] /\ cut = [w \in Calls |-> FALSE]
  /\ stdin = [w \in Calls |-> << >>] /\ stdout = [w \in Calls |-> << >>]
  /\ state = [w \in Calls |-> "none"] /\ code = [w \in Calls |-> 0]
  /\ doing = [w \in Calls |-> {}] /\ out = [w \in Calls |-> Nothing]
  /\ fetched = [w \in Calls |-> 0] /\ relays = [w \in Calls |-> 0]
  /\ upsets = 0

-----------------------------------------------------------------------------
(* A call: execute, and Worker::call under it *)

Worker(k) == workers[plugin[k]]
Goto(k, place) == at' = [at EXCEPT ![k] = place]
Upset == upsets < MaxUpsets /\ upsets' = upsets + 1
HasRoom(pipe) == Len(pipe) < PipeRoom

\* A process ends: what it was to read, did and was relayed for is gone; what it
\* wrote is still read.
End(w) ==
  /\ state' = [state EXCEPT ![w] = "gone"]
  /\ stdin' = [stdin EXCEPT ![w] = << >>]
  /\ doing' = [doing EXCEPT ![w] = {}]
  /\ out' = [out EXCEPT ![w] = Nothing]
  /\ relays' = [relays EXCEPT ![w] = 0]
  /\ fetched' = [fetched EXCEPT ![w] = 0]
  /\ cut' = [cut EXCEPT ![w] = FALSE]

\* The worker leaves the map and is dropped, which kills its process; nobody waits
\* for what it wrote.
Discard(p) ==
  /\ workers' = [workers EXCEPT ![p] = Nothing]
  /\ IF workers[p] = Nothing
     THEN UNCHANGED <<state, stdin, stdout, cut, doing, out, fetched, relays>>
     ELSE End(workers[p]) /\ stdout' = [stdout EXCEPT ![workers[p]] = << >>]

\* The call returns an error of its worker, or of a spawn without one.
Fail(k) ==
  /\ Goto(k, "failed")
  /\ by' = [by EXCEPT ![k] = Worker(k)]
  /\ Discard(plugin[k])
  /\ lock' = Nothing
  /\ UNCHANGED <<found, file, stamp, code>>

\* The lock is free and k first in its queue (tokio's Mutex is fair).
Turn(k) ==
  /\ at[k] = "queued" /\ lock = Nothing
  /\ \A j \in 1..(k - 1) : at[j] # "queued"

\* Mutant: a worker that runs is used, and merely stamped, when its file changed.
LookUpTouching(k) ==
  /\ Turn(k)
  /\ lock' = k
  /\ found' = [found EXCEPT ![k] = file[plugin[k]]]
  /\ IF Worker(k) = Nothing
     THEN Goto(k, "spawn") /\ UNCHANGED stamp
     ELSE Goto(k, "writing") /\ stamp' = [stamp EXCEPT ![Worker(k)] = file[plugin[k]]]
  /\ UNCHANGED <<by, file, workers, stdin, stdout, cut, process, upsets>>

\* The call's turn: a worker is stale if its file is newer than its stamp.
LookUp(k) ==
  /\ Turn(k)
  /\ lock' = k
  /\ found' = [found EXCEPT ![k] = file[plugin[k]]]
  /\ IF Worker(k) # Nothing /\ file[plugin[k]] > stamp[Worker(k)]
     THEN Discard(plugin[k]) /\ Goto(k, "spawn")
     ELSE /\ Goto(k, IF Worker(k) = Nothing THEN "spawn" ELSE "writing")
          /\ UNCHANGED <<workers, stdin, stdout, cut, state, doing, out, fetched, relays>>
  /\ UNCHANGED <<by, file, stamp, code, upsets>>

\* A file that cannot be read now is not compared.
LookUpUnread(k) ==
  /\ Turn(k) /\ Upset
  /\ lock' = k
  /\ Goto(k, IF Worker(k) = Nothing THEN "spawn" ELSE "writing")
  /\ UNCHANGED <<found, by, file, workers, pipes, process>>

\* plugin_info has answered. The mtime is read before the process starts, which
\* imports the file later.
SpawnWorker(k) ==
  /\ at[k] = "spawn"
  /\ stamp' = [stamp EXCEPT ![k] = file[plugin[k]]]
  /\ state' = [state EXCEPT ![k] = "up"]
  /\ workers' = [workers EXCEPT ![plugin[k]] = k]
  /\ Goto(k, "writing")
  /\ UNCHANGED <<found, by, file, lock, stdin, stdout, cut>>
  /\ UNCHANGED <<code, doing, out, fetched, relays, upsets>>

\* plugin_info or the spawn fails.
SpawnFails(k) == at[k] = "spawn" /\ Upset /\ Fail(k)

\* A line that follows an unfinished one is part of it.
WriteLine(w, line) ==
  /\ state[w] # "gone" /\ HasRoom(stdin[w])
  /\ stdin' = [stdin EXCEPT ![w] = Append(@, IF cut[w] THEN Torn ELSE line)]
  /\ cut' = [cut EXCEPT ![w] = FALSE]

Write(k) ==
  /\ at[k] = "writing"
  /\ WriteLine(Worker(k), k)
  /\ Goto(k, "waiting")
  /\ UNCHANGED <<found, by, pool, stamp, stdout, process, upsets>>

\* The pipe is broken.
WriteFails(k) ==
  /\ at[k] = "writing" /\ state[Worker(k)] = "gone"
  /\ Fail(k)
  /\ UNCHANGED upsets

\* Mutant: only a broken pipe removes the worker.
TimeOutKeeping(k) ==
  /\ at[k] = "waiting"
  /\ by' = [by EXCEPT ![k] = Worker(k)]
  /\ lock' = Nothing
  /\ Goto(k, "failed")
  /\ UNCHANGED <<found, file, workers, pipes, process, upsets>>

\* Thirty seconds without a reply.
TimeOut(k) == at[k] = "waiting" /\ Fail(k) /\ UNCHANGED upsets

\* The caller's future is dropped: its lock goes, and a line it was writing may
\* remain unfinished.
Drop(k) ==
  /\ at[k] \in Holding \union {"queued"} /\ Upset
  /\ Goto(k, "dropped")
  /\ lock' = IF lock = k THEN Nothing ELSE lock
  /\ \/ UNCHANGED cut
     \/ at[k] = "writing" /\ cut' = [cut EXCEPT ![Worker(k)] = TRUE]
  /\ UNCHANGED <<found, by, file, workers, stamp, stdin, stdout, process>>

CallStep(k) == LookUp(k) \/ SpawnWorker(k) \/ Write(k) \/ WriteFails(k) \/ TimeOut(k)

-----------------------------------------------------------------------------
(* The reader task and the relay tasks it spawns *)

\* A reply goes to the call that waits for its id, which returns it; nobody waits
\* for the reply to an abandoned call.
Reach(w, k) ==
  IF at[k] = "waiting"
  THEN /\ Goto(k, "done")
       /\ by' = [by EXCEPT ![k] = w]
       /\ lock' = Nothing
  ELSE UNCHANGED <<at, by, lock>>

\* Mutant: the reader serves a plugin's request itself, before the next line.
DeliverInline(w) ==
  /\ stdout[w] # << >>
  /\ stdout' = [stdout EXCEPT ![w] = Tail(@)]
  /\ \/ /\ Head(stdout[w]) = Http
        /\ WriteLine(w, Http)
        /\ UNCHANGED <<at, by, lock>>
     \/ /\ Head(stdout[w]) # Http
        /\ Reach(w, Head(stdout[w]))
        /\ UNCHANGED <<stdin, cut>>
  /\ UNCHANGED <<found, file, workers, stamp, process, upsets>>

Deliver(w) ==
  /\ stdout[w] # << >>
  /\ stdout' = [stdout EXCEPT ![w] = Tail(@)]
  /\ \/ /\ Head(stdout[w]) = Http
        /\ relays' = [relays EXCEPT ![w] = IF state[w] = "gone" THEN 0 ELSE @ + 1]
        /\ UNCHANGED <<at, by, lock>>
     \/ /\ Head(stdout[w]) # Http
        /\ Reach(w, Head(stdout[w]))
        /\ UNCHANGED relays
  /\ UNCHANGED <<found, file, workers, stamp, stdin, cut>>
  /\ UNCHANGED <<state, code, doing, out, fetched, upsets>>

\* The origin has answered, or twenty seconds are over.
RelayAnswers(w) ==
  /\ relays[w] > 0
  /\ relays' = [relays EXCEPT ![w] = @ - 1]
  /\ WriteLine(w, Http)
  /\ UNCHANGED <<calls, pool, stamp, stdout, state, code, doing, out, fetched, upsets>>

-----------------------------------------------------------------------------
(* The process: one thread, which reads a line, or works, or writes one *)

Idle(w) == state[w] = "up" /\ out[w] = Nothing

Import(w) ==
  /\ state[w] = "up" /\ code[w] = 0
  /\ code' = [code EXCEPT ![w] = file[plugin[w]]]
  /\ UNCHANGED <<calls, pool, pipes, state, doing, out, fetched, relays, upsets>>

\* Mutant: an answer is handled as a request as well.
ReadAll(w) ==
  /\ Idle(w) /\ stdin[w] # << >> /\ Head(stdin[w]) # Torn
  /\ stdin' = [stdin EXCEPT ![w] = Tail(@)]
  /\ doing' = [doing EXCEPT ![w] = @ \union {Head(stdin[w])}]
  /\ UNCHANGED <<calls, pool, stamp, stdout, cut, state, code, out, fetched, relays, upsets>>

Read(w) ==
  /\ Idle(w) /\ stdin[w] # << >> /\ Head(stdin[w]) # Torn
  /\ stdin' = [stdin EXCEPT ![w] = Tail(@)]
  /\ doing' = [doing EXCEPT ![w] = @ \union ({Head(stdin[w])} \intersect Calls)]
  /\ UNCHANGED <<calls, pool, stamp, stdout, cut, state, code, out, fetched, relays, upsets>>

\* A line that is no JSON ends the process.
ReadTorn(w) ==
  /\ Idle(w) /\ stdin[w] # << >> /\ Head(stdin[w]) = Torn
  /\ End(w)
  /\ UNCHANGED <<calls, pool, stamp, stdout, code, upsets>>

Reply(w) ==
  /\ Idle(w) /\ code[w] # 0
  /\ \E k \in doing[w] :
       /\ out' = [out EXCEPT ![w] = k]
       /\ doing' = [doing EXCEPT ![w] = @ \ {k}]
  /\ UNCHANGED <<calls, pool, pipes, state, code, fetched, relays, upsets>>

\* A plugin's fetch(); it may have several at once.
Fetch(w) ==
  /\ Idle(w) /\ code[w] # 0 /\ doing[w] # {} /\ fetched[w] < MaxFetches
  /\ out' = [out EXCEPT ![w] = Http]
  /\ fetched' = [fetched EXCEPT ![w] = @ + 1]
  /\ UNCHANGED <<calls, pool, pipes, state, code, doing, relays, upsets>>

\* writeSync: nothing else happens in the process until the pipe has room.
Flush(w) ==
  /\ state[w] = "up" /\ out[w] # Nothing /\ HasRoom(stdout[w])
  /\ stdout' = [stdout EXCEPT ![w] = Append(@, out[w])]
  /\ out' = [out EXCEPT ![w] = Nothing]
  /\ UNCHANGED <<calls, pool, stamp, stdin, cut, state, code, doing, fetched, relays, upsets>>

\* The plugin computes for ever.
Loop(w) ==
  /\ state[w] = "up" /\ Upset
  /\ state' = [state EXCEPT ![w] = "looping"]
  /\ UNCHANGED <<calls, pool, pipes, code, doing, out, fetched, relays>>

Exit(w) ==
  /\ state[w] = "up" /\ Upset
  /\ End(w)
  /\ UNCHANGED <<calls, pool, stamp, stdout, code>>

\* A plugin's file is edited, which advances its mtime.
Edit(p) ==
  /\ Upset
  /\ file' = [file EXCEPT ![p] = @ + 1]
  /\ UNCHANGED <<calls, lock, workers, pipes, process>>

WorkerStep(w) == Deliver(w) \/ RelayAnswers(w) \/ Read(w) \/ ReadTorn(w) \/ Flush(w)

Next ==
  \/ \E k \in Calls : CallStep(k) \/ LookUpUnread(k) \/ SpawnFails(k) \/ Drop(k)
  \/ \E w \in Calls : WorkerStep(w) \/ Import(w) \/ Reply(w) \/ Fetch(w) \/ Loop(w) \/ Exit(w)
  \/ \E p \in Plugins : Edit(p)

\* Tasks run on; a process that does not loop reads and writes. Whether a plugin
\* replies is its own affair.
Fairness ==
  /\ \A k \in Calls : WF_vars(CallStep(k))
  /\ \A w \in Calls : WF_vars(Deliver(w)) /\ WF_vars(RelayAnswers(w))
  /\ \A w \in Calls : WF_vars(Read(w) \/ ReadTorn(w)) /\ WF_vars(Flush(w))

Spec == Init /\ [][Next]_vars /\ Fairness

-----------------------------------------------------------------------------
(* Properties *)

\* An answer comes from code no older than the file was when the call's turn came,
\* however edits, spawns and imports interleave: "never a missed edit"
\* (pool.rs:137, 480-482). A call that could not read the mtime is not promised it.
NewCodeAnswers == \A k \in Calls : at[k] = "done" => code[by[k]] >= found[k]

\* A process fails one call at most, whether it exits, hangs or is fed a torn line:
\* the next call of the plugin gets a fresh one (pool.rs:12-14, 529-530).
OneFailurePerProcess ==
  \A j, k \in Calls :
    at[j] = "failed" /\ at[k] = "failed" /\ by[j] = by[k] /\ by[k] # Nothing => j = k

\* A plugin that neither reads nor ends, with a full pipe and a call writing to it:
\* no time-out covers the write (pool.rs:279).
Jammed ==
  \E k \in Calls :
    at[k] = "writing" /\ state[Worker(k)] = "looping" /\ ~HasRoom(stdin[Worker(k)])

\* Every call comes back, and the lock on all plugins with it: processes that exit
\* or hang, abandoned calls and the plugins' own requests on the same pipes never
\* leave everyone waiting on everyone (pool.rs:194-196), but for a jammed plugin.
EveryCallReturns == \A k \in Calls : at[k] = "queued" ~> at[k] \in Ended \/ Jammed
=============================================================================

----------------------------- MODULE JobTurns ------------------------------
(***************************************************************************)
(* The job gate of one plugin, crates/lanrurugi-api/src/download_manager/   *)
(* mod.rs: a chain of turns (oneshot channels, each job waiting for the one *)
(* before it) in front of a pool of permits whose capacity may change.      *)
(*                                                                          *)
(* A job is named by the place of its turn in the chain, and a pool by the  *)
(* job that put it in the slot.                                             *)
(***************************************************************************)
EXTENDS Naturals, FiniteSets

CONSTANTS
  MaxJobs,     \* bound: jobs ever started
  Capacities,  \* the values a plugin's declared concurrency takes
  NoLimit,     \* no concurrency declared
  MaxChanges   \* bound: changes of the declared concurrency

ASSUME TurnsAssumption ==
  /\ MaxJobs \in Nat
  /\ Capacities \subseteq Nat \ {0}
  /\ NoLimit \notin Nat
  /\ MaxChanges \in Nat

Jobs == 1 .. MaxJobs
NoPool == 0

VARIABLES
  pc,         \* where each job stands
  capacity,   \* the capacity each job resolved
  signalled,  \* jobs whose end of the chain has been dropped
  relays,     \* jobs whose dropped turn left a task waiting for its predecessor
  cancelled,  \* jobs whose token is cancelled
  poolOf,     \* the pool a job asks, or holds a permit of
  slot,       \* the pool new jobs find
  declared,   \* the capacity the settings declare now
  changes

vars == <<pc, capacity, signalled, relays, cancelled, poolOf, slot, declared, changes>>

Limits == Capacities \union {NoLimit}

\* Where a job stands: before its turn was taken, resolving its capacity, at the
\* chain, with its turn, at a pool, in the plugin call with what the gate gave,
\* in the plugin call after a cancelled acquire, at its end.
Places == {"none", "preparing", "turn", "asking", "queued", "holding", "loose", "gone"}

Init ==
  /\ pc = [k \in Jobs |-> "none"]
  /\ capacity = [k \in Jobs |-> NoLimit]
  /\ signalled = {}
  /\ relays = {}
  /\ cancelled = {}
  /\ poolOf = [k \in Jobs |-> NoPool]
  /\ slot = NoPool
  /\ declared \in Limits
  /\ changes = 0

Goto(k, place) == pc' = [pc EXCEPT ![k] = place]

-----------------------------------------------------------------------------
\* start_download takes the turn before it spawns the task.
TakeTurn(k) ==
  /\ pc[k] = "none"
  /\ \A a \in Jobs : a < k => pc[a] # "none"
  /\ Goto(k, "preparing")
  /\ UNCHANGED <<capacity, signalled, relays, cancelled, poolOf, slot, declared, changes>>

\* The capacity is resolved before the job waits for its turn.
Resolve(k) ==
  /\ pc[k] = "preparing"
  /\ capacity' = [capacity EXCEPT ![k] = declared]
  /\ Goto(k, "turn")
  /\ UNCHANGED <<signalled, relays, cancelled, poolOf, slot, declared, changes>>

\* The predecessor's sender is gone; the first job of all has none.
TurnHasCome(k) == k - 1 \in signalled \union {0}

ComeForward(k) ==
  /\ pc[k] = "turn"
  /\ k = 1 \/ k \notin cancelled
  /\ TurnHasCome(k)
  /\ Goto(k, "asking")
  /\ UNCHANGED <<capacity, signalled, relays, cancelled, poolOf, slot, declared, changes>>

\* Mutant: dropping a turn lets the next job through at once.
DropTurnAtOnce(k) ==
  /\ signalled' = signalled \union {k}
  /\ UNCHANGED relays

\* Mutant: the dropped turn drops the end it received on, not the one it sends on.
DropTurnWrongEnd(k) ==
  /\ signalled' = signalled \union {k - 1}
  /\ relays' = relays \union {k}

\* Mutant: dropping a turn early never passes it on.
DropTurnForgotten(k) ==
  /\ signalled' = IF k = 1 THEN signalled \union {k} ELSE signalled
  /\ UNCHANGED relays

\* JobTurn::drop with the predecessor still pending: a task will pass the turn on.
DropTurn(k) ==
  /\ signalled' = IF k = 1 THEN signalled \union {k} ELSE signalled
  /\ relays' = IF k = 1 THEN relays ELSE relays \union {k}

\* The cancellation is looked at first (biased): acquire_job returns Err, and
\* the plugin is called without a permit.
CancelledInLine(k) ==
  /\ pc[k] = "turn"
  /\ k # 1 /\ k \in cancelled
  /\ DropTurn(k)
  /\ Goto(k, "loose")
  /\ UNCHANGED <<capacity, cancelled, poolOf, slot, declared, changes>>

\* The task ends before it calls acquire_job.
EndEarly(k) ==
  /\ pc[k] \in {"preparing", "turn"}
  /\ DropTurn(k)
  /\ Goto(k, "gone")
  /\ UNCHANGED <<capacity, cancelled, poolOf, slot, declared, changes>>

Relay(k) ==
  /\ k \in relays
  /\ TurnHasCome(k)
  /\ relays' = relays \ {k}
  /\ signalled' = signalled \union {k}
  /\ UNCHANGED <<pc, capacity, cancelled, poolOf, slot, declared, changes>>

Holders(p) == {k \in Jobs : pc[k] = "holding" /\ poolOf[k] = p}

\* Mutant: the pool in the slot is compared by the permits it has left.
AskPoolByPermitsLeft(k) ==
  /\ pc[k] = "asking"
  /\ capacity[k] # NoLimit
  /\ LET fits == slot # NoPool /\ capacity[slot] - Cardinality(Holders(slot)) = capacity[k]
         p == IF fits THEN slot ELSE k IN
       /\ slot' = p
       /\ poolOf' = [poolOf EXCEPT ![k] = p]
  /\ Goto(k, "queued")
  /\ UNCHANGED <<capacity, signalled, relays, cancelled, declared, changes>>

\* A pool of another capacity is replaced; permits of the old one stay valid.
AskPool(k) ==
  /\ pc[k] = "asking"
  /\ capacity[k] # NoLimit
  /\ LET p == IF slot # NoPool /\ capacity[slot] = capacity[k] THEN slot ELSE k IN
       /\ slot' = p
       /\ poolOf' = [poolOf EXCEPT ![k] = p]
  /\ Goto(k, "queued")
  /\ UNCHANGED <<capacity, signalled, relays, cancelled, declared, changes>>

PassFree(k) ==
  /\ pc[k] = "asking"
  /\ capacity[k] = NoLimit
  /\ signalled' = signalled \union {k}
  /\ Goto(k, "holding")
  /\ UNCHANGED <<capacity, relays, cancelled, poolOf, slot, declared, changes>>

\* A permit, and the turn is dropped after it.
Grant(k) ==
  /\ pc[k] = "queued"
  /\ k \notin cancelled
  /\ Cardinality(Holders(poolOf[k])) < capacity[poolOf[k]]
  /\ signalled' = signalled \union {k}
  /\ Goto(k, "holding")
  /\ UNCHANGED <<capacity, relays, cancelled, poolOf, slot, declared, changes>>

CancelledAtPool(k) ==
  /\ pc[k] = "queued"
  /\ k \in cancelled
  /\ signalled' = signalled \union {k}
  /\ Goto(k, "loose")
  /\ UNCHANGED <<capacity, relays, cancelled, poolOf, slot, declared, changes>>

\* The plugin call returned; a permit held is dropped with it.
CallEnds(k) ==
  /\ pc[k] \in {"holding", "loose"}
  /\ Goto(k, "gone")
  /\ UNCHANGED <<capacity, signalled, relays, cancelled, poolOf, slot, declared, changes>>

\* Stop or Pause.
Cancel(k) ==
  /\ pc[k] \notin {"none", "gone"}
  /\ cancelled' = cancelled \union {k}
  /\ UNCHANGED <<pc, capacity, signalled, relays, poolOf, slot, declared, changes>>

\* The user edits the plugin's domain rules.
ChangeRules(c) ==
  /\ changes < MaxChanges
  /\ changes' = changes + 1
  /\ declared' = c
  /\ UNCHANGED <<pc, capacity, signalled, relays, cancelled, poolOf, slot>>

JobStep(k) ==
  \/ Resolve(k) \/ ComeForward(k) \/ CancelledInLine(k) \/ Relay(k)
  \/ AskPool(k) \/ PassFree(k) \/ Grant(k) \/ CancelledAtPool(k) \/ CallEnds(k)

Next ==
  \/ \E k \in Jobs : TakeTurn(k) \/ JobStep(k) \/ EndEarly(k) \/ Cancel(k)
  \/ \E c \in Limits : ChangeRules(c)

Spec == Init /\ [][Next]_vars

\* Tasks run, and plugin calls end: the plugin pool gives each a timeout.
FairSpec == Spec /\ \A k \in Jobs : WF_vars(JobStep(k))

-----------------------------------------------------------------------------
TypeOK ==
  /\ pc \in [Jobs -> Places]
  /\ capacity \in [Jobs -> Limits]
  /\ signalled \subseteq Jobs
  /\ relays \subseteq Jobs
  /\ cancelled \subseteq Jobs
  /\ poolOf \in [Jobs -> Jobs \union {NoPool}]
  /\ slot \in Jobs \union {NoPool}
  /\ declared \in Limits
  /\ changes \in 0 .. MaxChanges

Waiting == {"preparing", "turn", "asking", "queued"}

\* Jobs are served in the order their turns were taken: when a job has come
\* through the gate, no job started before it is still waiting at it, however
\* long their preparations took and whoever was cancelled on the way.
ServedInOrder ==
  \A b \in Jobs : pc[b] = "holding" => \A a \in Jobs : a < b => pc[a] \notin Waiting

\* Job k has come as far as the pools, and got one.
Asked(k) == poolOf[k] # NoPool

\* The limit holds for as long as it stands: of any stretch of jobs, whenever the
\* settings changed and whatever was done in the meantime, no more hold permits at
\* once than the capacity that all of them found that asked for one.  A job of
\* another capacity among them replaces the pool, and then the permits of the old
\* and the new pool come on top of each other.
LimitHoldsWhileItStands ==
  \A a, b \in Jobs, limit \in Capacities :
    (\A k \in a .. b : Asked(k) => capacity[k] = limit)
      => Cardinality({k \in a .. b : Asked(k) /\ pc[k] = "holding"}) <= limit

\* The slot changes hands under one job at a time: two jobs are never past the
\* chain and not yet through, so a pool is not replaced under a job queued at it.
OneAtTheHead ==
  \A a, b \in Jobs : pc[a] \in {"asking", "queued"} /\ pc[b] \in {"asking", "queued"} => a = b

\* The chain: its ends are dropped from the front on, none under a job that still
\* waits, and only a job whose predecessor's end is gone has come forward.
ChainFromTheFront ==
  /\ \A a, b \in Jobs : a < b /\ pc[b] # "none" => pc[a] # "none"
  /\ \A a, b \in Jobs : a < b /\ b \in signalled => a \in signalled
  /\ \A k \in signalled : pc[k] \in {"holding", "loose", "gone"}
  /\ \A k \in Jobs : pc[k] = "holding" => k \in signalled
  /\ \A k \in Jobs : pc[k] \in {"asking", "queued", "holding"} => TurnHasCome(k)
  /\ \A k \in relays : pc[k] \in {"loose", "gone"}

\* A job has a pool once it has asked for one, of the capacity it resolved, and
\* so has the slot.
PoolsHaveMakers ==
  /\ slot # NoPool => poolOf[slot] = slot
  /\ \A k \in Jobs : pc[k] = "queued" => poolOf[k] # NoPool
  /\ \A k \in Jobs : poolOf[k] # NoPool =>
       /\ pc[k] \in {"queued", "holding", "loose", "gone"}
       /\ poolOf[poolOf[k]] = poolOf[k]
       /\ capacity[poolOf[k]] \in Capacities

\* Jobs ask in the order of the chain, and while they ask for the same capacity
\* they get the same pool, which stays in the slot.
PoolsStayWhileTheyFit ==
  /\ \A k \in Jobs : Asked(k) => TurnHasCome(k) /\ capacity[poolOf[k]] = capacity[k]
  /\ \A a \in Jobs :
       Asked(a) /\ (\A m \in Jobs : a < m /\ Asked(m) => capacity[m] = capacity[a])
         => slot = poolOf[a]
  /\ \A a, b \in Jobs :
       /\ a < b /\ Asked(a) /\ Asked(b)
       /\ \A m \in a .. b : Asked(m) => capacity[m] = capacity[a]
       => poolOf[a] = poolOf[b]

\* No pool has more permits out than its capacity, replaced pools included.
PoolsRespectCapacity ==
  \A p \in Jobs : poolOf[p] = p => Cardinality(Holders(p)) <= capacity[p]

IndInv == TypeOK /\ ChainFromTheFront /\ PoolsHaveMakers

\* Every job that was started gets through or gives up: no dropped turn breaks
\* the chain for those behind it.
NobodyIsStranded == \A k \in Jobs : pc[k] = "preparing" ~> pc[k] = "gone"

\* The gate is the line TurnLine describes.
Stage ==
  [k \in Jobs |-> CASE pc[k] = "none" -> "out"
                    [] pc[k] \in Waiting -> "line"
                    [] pc[k] = "holding" -> "served"
                    [] OTHER -> "left"]
Line == INSTANCE TurnLine WITH stage <- Stage
ImplementsTurnLine == Line!Spec
=============================================================================

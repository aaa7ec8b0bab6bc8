--------------------------- MODULE Singleflight ----------------------------
(***************************************************************************)
(* Singleflight::run, crates/lanrurugi-core/src/singleflight.rs: calls of   *)
(* one key share a OnceCell, whose first user runs the work under one of    *)
(* MaxConcurrency permits; the call that put the cell in the map takes it   *)
(* out again.  A call is a request's future, and a request whose client is  *)
(* gone drops it at any await.                                              *)
(*                                                                          *)
(* A cell is named by the call that made it, a value by the call that ran   *)
(* the work.                                                                *)
(***************************************************************************)
EXTENDS Naturals, FiniteSets

CONSTANTS
  Calls,
  Keys,
  Nothing,        \* no cell, no value
  MaxConcurrency,
  Impatient       \* the calls that may be dropped

ASSUME SingleflightAssumption ==
  /\ Nothing \notin Calls
  /\ MaxConcurrency \in Nat \ {0}
  /\ Impatient \subseteq Calls

VARIABLES
  pc,      \* where each call stands
  key,     \* the key it asks for
  cell,    \* the cell it found or made
  entry,   \* inflight: the cell of each key
  value,   \* what each cell holds
  free     \* permits left in the semaphore

vars == <<pc, key, cell, entry, value, free>>

\* Not called, at the cell, waiting for a permit inside the cell's initialiser,
\* at work, owner with the value in hand, returned, dropped.
Places == {"out", "atCell", "init", "work", "owning", "done", "dropped"}

Init ==
  /\ pc = [c \in Calls |-> "out"]
  /\ key \in [Calls -> Keys]
  /\ cell = [c \in Calls |-> Nothing]
  /\ entry = [k \in Keys |-> Nothing]
  /\ value = [c \in Calls |-> Nothing]
  /\ free = MaxConcurrency

Goto(c, place) == pc' = [pc EXCEPT ![c] = place]

IsOwner(c) == cell[c] = c

-----------------------------------------------------------------------------
\* Mutant: the cell is put in the map under something else than the key.
RunMisfiled(c) ==
  /\ pc[c] = "out"
  /\ cell' = [cell EXCEPT ![c] = c]
  /\ entry' = [k \in DOMAIN entry \union {c} |-> IF k = c THEN c ELSE entry[k]]
  /\ Goto(c, "atCell")
  /\ UNCHANGED <<key, value, free>>

\* The cell of the key, made if there is none, under the lock of the map.
Run(c) ==
  /\ pc[c] = "out"
  /\ \/ /\ entry[key[c]] # Nothing
        /\ cell' = [cell EXCEPT ![c] = entry[key[c]]]
        /\ UNCHANGED entry
     \/ /\ entry[key[c]] = Nothing
        /\ cell' = [cell EXCEPT ![c] = c]
        /\ entry' = [entry EXCEPT ![key[c]] = c]
  /\ Goto(c, "atCell")
  /\ UNCHANGED <<key, value, free>>

\* Mutant: a dropped call keeps the cell locked.
InitialisingOrDropped(x) == {d \in Calls : cell[d] = x /\ pc[d] \in {"init", "work", "dropped"}}

Initialising(x) == {d \in Calls : cell[d] = x /\ pc[d] \in {"init", "work"}}

\* get_or_init on an empty cell nobody is initialising: any call of the key,
\* the owner or one that joined.
BeginInit(c) ==
  /\ pc[c] = "atCell"
  /\ value[cell[c]] = Nothing
  /\ Initialising(cell[c]) = {}
  /\ Goto(c, "init")
  /\ UNCHANGED <<key, cell, entry, value, free>>

Working == {c \in Calls : pc[c] = "work"}

\* Mutant: the permit is not bound to a name ("let _ ="), and dropped at once.
AcquireUnbound(c) ==
  /\ pc[c] = "init"
  /\ free > 0
  /\ Goto(c, "work")
  /\ UNCHANGED <<key, cell, entry, value, free>>

Acquire(c) ==
  /\ pc[c] = "init"
  /\ free > 0
  /\ free' = free - 1
  /\ Goto(c, "work")
  /\ UNCHANGED <<key, cell, entry, value>>

\* With the value in hand only the owner has something left to do.
Take(c) == Goto(c, IF IsOwner(c) THEN "owning" ELSE "done")

\* The value is set, and the permit dropped, before run goes on.
Finish(c) ==
  /\ pc[c] = "work"
  /\ value' = [value EXCEPT ![cell[c]] = c]
  /\ free' = free + 1
  /\ Take(c)
  /\ UNCHANGED <<key, cell, entry>>

Receive(c) ==
  /\ pc[c] = "atCell"
  /\ value[cell[c]] # Nothing
  /\ Take(c)
  /\ UNCHANGED <<key, cell, entry, value, free>>

\* Mutant: the owner returns and leaves the entry.
RemoveForgotten(c) ==
  /\ pc[c] = "owning"
  /\ Goto(c, "done")
  /\ UNCHANGED <<key, cell, entry, value, free>>

Remove(c) ==
  /\ pc[c] = "owning"
  /\ entry' = [entry EXCEPT ![key[c]] = Nothing]
  /\ Goto(c, "done")
  /\ UNCHANGED <<key, cell, value, free>>

Underway(c) == pc[c] \notin {"out", "done", "dropped"}

\* Mutant: an owner that is dropped takes its entry with it.
AbandonTakingEntry(c) ==
  /\ c \in Impatient
  /\ Underway(c)
  /\ Goto(c, "dropped")
  /\ free' = IF pc[c] = "work" THEN free + 1 ELSE free
  /\ entry' = IF IsOwner(c) THEN [entry EXCEPT ![key[c]] = Nothing] ELSE entry
  /\ UNCHANGED <<key, cell, value>>

\* The future is dropped (or the work panics): the cell is free to be
\* initialised by another, a permit is given back, and an owner's entry stays.
Abandon(c) ==
  /\ c \in Impatient
  /\ Underway(c)
  /\ Goto(c, "dropped")
  /\ free' = IF pc[c] = "work" THEN free + 1 ELSE free
  /\ UNCHANGED <<key, cell, entry, value>>

Step(c) == BeginInit(c) \/ Acquire(c) \/ Finish(c) \/ Receive(c) \/ Remove(c)

Next == \E c \in Calls : Run(c) \/ Step(c) \/ Abandon(c)

Spec == Init /\ [][Next]_vars

\* The runtime polls what is ready, and work ends.
FairSpec == Spec /\ \A c \in Calls : WF_vars(Step(c))

-----------------------------------------------------------------------------
TypeOK ==
  /\ pc \in [Calls -> Places]
  /\ key \in [Calls -> Keys]
  /\ cell \in [Calls -> Calls \union {Nothing}]
  /\ entry \in [Keys -> Calls \union {Nothing}]
  /\ value \in [Calls -> Calls \union {Nothing}]
  /\ free \in Nat

\* The work of a key is never run twice at once, even when the call that made
\* the cell is dropped while another is at work in it.
OneWorkPerKey ==
  \A c, d \in Calls : pc[c] = "work" /\ pc[d] = "work" /\ key[c] = key[d] => c = d

\* A permit is out exactly as long as a work runs: none is lost with a call that
\* is dropped, at the semaphore or at work, none comes back twice, and nobody who
\* waits at a cell keeps one.  So no more keys are worked on than there are
\* permits, and never fewer can be.
PermitsAreOutForWork == free + Cardinality(Working) = MaxConcurrency

\* A value does not outlive the burst it was computed in, as long as the call
\* that made its cell is not dropped: a call that overlaps no other of its key
\* finds no value.
Alone(c) == \A d \in Calls \ {c} : key[d] = key[c] => ~Underway(d)
FreshUnlessOwnerDropped ==
  [][\A c \in Calls : Run(c) /\ Alone(c) /\ pc[cell'[c]] # "dropped" =>
        value[cell'[c]] = Nothing]_vars

\* What ties calls, cells and entries together: a cell and an entry are of the
\* key, made by the call they are named after.
CellsMatchKeys ==
  /\ \A c \in Calls : IF pc[c] = "out"
       THEN cell[c] = Nothing /\ value[c] = Nothing
       ELSE cell[c] # Nothing /\ IsOwner(cell[c]) /\ key[cell[c]] = key[c]
  /\ \A k \in Keys : entry[k] # Nothing =>
       IsOwner(entry[k]) /\ key[entry[k]] = k /\ pc[entry[k]] \notin {"out", "done"}

\* A cell has one initialiser, and is empty meanwhile.
OneInitialiser ==
  \A c \in Calls : pc[c] \in {"init", "work"} =>
    /\ value[cell[c]] = Nothing
    /\ \A d \in Calls : pc[d] \in {"init", "work"} /\ cell[c] = cell[d] => c = d

\* An owner on its way still has its entry in the map, and so has whoever is at
\* an empty cell: no second cell of the key is made.
EmptyCellIsListed ==
  /\ \A c \in Calls : IsOwner(c) /\ Underway(c) => entry[key[c]] = c
  /\ \A c \in Calls : pc[c] = "owning" => IsOwner(c) /\ value[c] # Nothing
  /\ \A c \in Calls : pc[c] \in {"atCell", "init", "work"} /\ value[cell[c]] = Nothing =>
       entry[key[c]] = cell[c]

IndInv == TypeOK /\ CellsMatchKeys /\ OneInitialiser /\ EmptyCellIsListed

\* Every call that is not dropped returns, whoever else is dropped.
EveryCallReturns == \A c \in Calls : pc[c] = "atCell" ~> pc[c] \in {"done", "dropped"}
=============================================================================

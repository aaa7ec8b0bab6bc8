--------------------------- MODULE FilenameLocks ---------------------------
(***************************************************************************)
(* crates/lanrurugi-core/src/filename_lock.rs: a set of reserved filenames *)
(* behind a mutex.  A caller polls until its insert succeeds, sleeping      *)
(* between attempts; dropping the guard does not remove the name itself but *)
(* spawns a task that will.  A caller's future may be dropped at any await  *)
(* point (a client that disconnects, a timeout around the caller).          *)
(***************************************************************************)
EXTENDS Naturals, FiniteSets

CONSTANTS Callers,   \* ingest tasks: downloads, uploads, the watcher loop
          Filenames  \* destination filenames

VARIABLES
  locked,    \* the shared set of reserved names
  at,        \* where each caller stands in lock() or in its guarded section
  want,      \* the filename of each caller's current call
  removals   \* per name, spawned removals that have not run yet

lockVars == <<locked, at, want, removals>>

LockPlaces == {"idle", "polling", "sleeping", "holding"}

LockInit ==
  /\ locked = {}
  /\ at = [c \in Callers |-> "idle"]
  /\ want \in [Callers -> Filenames]
  /\ removals = [f \in Filenames |-> 0]

-----------------------------------------------------------------------------
Call(c, f) ==
  /\ at[c] = "idle"
  /\ at' = [at EXCEPT ![c] = "polling"]
  /\ want' = [want EXCEPT ![c] = f]
  /\ UNCHANGED <<locked, removals>>

\* One turn of the loop finds the name free: the insert and the guard are made
\* without an await between them.
Reserve(c) ==
  /\ at[c] = "polling"
  /\ want[c] \notin locked
  /\ locked' = locked \union {want[c]}
  /\ at' = [at EXCEPT ![c] = "holding"]
  /\ UNCHANGED <<want, removals>>

FindTaken(c) ==
  /\ at[c] = "polling"
  /\ want[c] \in locked
  /\ at' = [at EXCEPT ![c] = "sleeping"]
  /\ UNCHANGED <<locked, want, removals>>

PollAgain(c) ==
  /\ at[c] = "sleeping"
  /\ at' = [at EXCEPT ![c] = "polling"]
  /\ UNCHANGED <<locked, want, removals>>

\* The caller's future is dropped before it owns a guard.
GiveUp(c) ==
  /\ at[c] \in {"polling", "sleeping"}
  /\ at' = [at EXCEPT ![c] = "idle"]
  /\ UNCHANGED <<locked, want, removals>>

\* Mutant: the drop does not spawn the removal.
DropGuardLeaking(c) ==
  /\ at[c] = "holding"
  /\ at' = [at EXCEPT ![c] = "idle"]
  /\ UNCHANGED <<locked, want, removals>>

\* Mutant: the drop removes the name at once and spawns the removal as well.
DropGuardEager(c) ==
  /\ at[c] = "holding"
  /\ at' = [at EXCEPT ![c] = "idle"]
  /\ locked' = locked \ {want[c]}
  /\ removals' = [removals EXCEPT ![want[c]] = @ + 1]
  /\ UNCHANGED want

\* The guard goes out of scope, by return, error or cancellation alike.
DropGuard(c) ==
  /\ at[c] = "holding"
  /\ at' = [at EXCEPT ![c] = "idle"]
  /\ removals' = [removals EXCEPT ![want[c]] = @ + 1]
  /\ UNCHANGED <<locked, want>>

\* Mutant: the name is removed without consuming a spawned removal.
RunRemovalUnspawned(f) ==
  /\ f \in locked
  /\ removals' = [removals EXCEPT ![f] = @ - 1]
  /\ locked' = locked \ {f}
  /\ UNCHANGED <<at, want>>

\* A spawned removal runs; it removes the name, whoever reserved it.
RunRemoval(f) ==
  /\ removals[f] > 0
  /\ removals' = [removals EXCEPT ![f] = @ - 1]
  /\ locked' = locked \ {f}
  /\ UNCHANGED <<at, want>>

LockStep(c) == Reserve(c) \/ FindTaken(c) \/ PollAgain(c)

LockNext ==
  \/ \E c \in Callers :
       \/ \E f \in Filenames : Call(c, f)
       \/ Reserve(c)
       \/ FindTaken(c)
       \/ PollAgain(c)
       \/ GiveUp(c)
       \/ DropGuard(c)
  \/ \E f \in Filenames : RunRemoval(f)

LockSpec == LockInit /\ [][LockNext]_lockVars

\* The runtime polls every ready task, a guarded section ends (the watcher
\* bounds it with INGEST_TIMEOUT), and a spawned removal runs.  Nothing makes a
\* caller call, and nothing keeps one poller from losing every race.
LockFairness ==
  /\ \A c \in Callers : WF_lockVars(LockStep(c)) /\ WF_lockVars(DropGuard(c))
  /\ \A f \in Filenames : WF_lockVars(RunRemoval(f))

LockFairSpec == LockSpec /\ LockFairness

-----------------------------------------------------------------------------
Holders(f) == {c \in Callers : at[c] = "holding" /\ want[c] = f}

LockTypeOK ==
  /\ locked \subseteq Filenames
  /\ at \in [Callers -> LockPlaces]
  /\ want \in [Callers -> Filenames]
  /\ removals \in [Filenames -> Nat]

\* Two callers are never inside the section of one filename: the promise of
\* the module docs (filename_lock.rs:1-5).
MutualExclusion ==
  \A c, d \in Callers :
    at[c] = "holding" /\ at[d] = "holding" /\ want[c] = want[d] => c = d

\* A removal that was spawned by an earlier guard never runs while a later
\* holder relies on the reservation (filename_lock.rs:64-71 removes by name,
\* without checking who reserved it).
LateRemovalIsHarmless ==
  \A f \in Filenames : removals[f] > 0 => Holders(f) = {}

\* The reservations are exactly the live guards and the pending removals, and
\* a name has at most one of either: nothing leaks, nothing is freed twice.
ReservationsAccounted ==
  /\ \A f \in Filenames : f \in locked <=> (Holders(f) # {} \/ removals[f] = 1)
  /\ \A f \in Filenames : removals[f] <= 1

LockIndInv ==
  /\ LockTypeOK
  /\ MutualExclusion
  /\ LateRemovalIsHarmless
  /\ ReservationsAccounted

\* A caller that waits for ever can only be losing races: the name it waits
\* for keeps being held by others, a delayed removal never strands it
\* (filename_lock.rs:35-38).
NeverStranded ==
  \A c \in Callers, f \in Filenames :
    []<>(Holders(f) # {} \/ ~(at[c] \in {"polling", "sleeping"} /\ want[c] = f))

\* The set of reserved names behaves as one mutex per filename: seen from the
\* callers, taking and giving back are atomic although the release is not.
Mutex == INSTANCE KeyedMutex
           WITH holders <- [f \in Filenames |-> Holders(f)]
ImplementsKeyedMutex == Mutex!Spec
=============================================================================

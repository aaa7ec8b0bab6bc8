-------------------------- MODULE Primitives_proofs -------------------------
(***************************************************************************)
(* The two primitives of lanrurugi-core that the rest of the server shares, *)
(* each for any callers: the filename reservations and the single flight.   *)
(***************************************************************************)
EXTENDS FilenameLocks, Singleflight, FiniteSetTheorems, TLAPS

-----------------------------------------------------------------------------
(* FilenameLocks for any callers and any filenames: the invariant LockIndInv is *)
(* inductive, and the reservation set implements one mutex per filename.        *)

USE DEF LockPlaces

\* The initial state satisfies the inductive invariant.
LEMMA LockInitIndInv == LockInit => LockIndInv
BY DEF LockInit, LockIndInv, LockTypeOK, MutualExclusion, LateRemovalIsHarmless,
       ReservationsAccounted, Holders

\* Every step preserves the inductive invariant.
LEMMA LockNextIndInv == LockIndInv /\ [LockNext]_lockVars => LockIndInv'
<1> SUFFICES ASSUME LockIndInv, [LockNext]_lockVars
             PROVE  LockIndInv'
  OBVIOUS
<1> USE DEF LockIndInv, LockTypeOK, MutualExclusion, LateRemovalIsHarmless,
            ReservationsAccounted, Holders
<1>1. ASSUME NEW c \in Callers, NEW f \in Filenames, Call(c, f)
      PROVE  LockIndInv'
  BY <1>1 DEF Call
<1>2. ASSUME NEW c \in Callers, Reserve(c)
      PROVE  LockIndInv'
  BY <1>2 DEF Reserve
<1>3. ASSUME NEW c \in Callers, FindTaken(c)
      PROVE  LockIndInv'
  BY <1>3 DEF FindTaken
<1>4. ASSUME NEW c \in Callers, PollAgain(c)
      PROVE  LockIndInv'
  BY <1>4 DEF PollAgain
<1>5. ASSUME NEW c \in Callers, GiveUp(c)
      PROVE  LockIndInv'
  BY <1>5 DEF GiveUp
<1>6. ASSUME NEW c \in Callers, DropGuard(c)
      PROVE  LockIndInv'
  BY <1>6 DEF DropGuard
<1>7. ASSUME NEW f \in Filenames, RunRemoval(f)
      PROVE  LockIndInv'
  BY <1>7 DEF RunRemoval
<1>8. CASE UNCHANGED lockVars
  BY <1>8 DEF lockVars
<1>9. QED
  BY <1>1, <1>2, <1>3, <1>4, <1>5, <1>6, <1>7, <1>8 DEF LockNext

\* The inductive invariant holds in every reachable state.
THEOREM LockSpecIndInv == LockSpec => []LockIndInv
BY LockInitIndInv, LockNextIndInv, PTL DEF LockSpec

\* No two callers are ever inside the section of one filename
\* (filename_lock.rs:1-5), for any number of callers and names.
THEOREM AlwaysMutualExclusion == LockSpec => []MutualExclusion
BY LockSpecIndInv, PTL DEF LockIndInv

\* A removal spawned by an old guard never runs under a later holder
\* (filename_lock.rs:64-71).
THEOREM AlwaysLateRemovalIsHarmless == LockSpec => []LateRemovalIsHarmless
BY LockSpecIndInv, PTL DEF LockIndInv

\* A name stays reserved only on account of a live guard or of a removal that
\* is still to run (filename_lock.rs:41-49, 64-71): no reservation leaks.
THEOREM AlwaysReservationsAccounted == LockSpec => []ReservationsAccounted
BY LockSpecIndInv, PTL DEF LockIndInv

\* Every reachable state has its type (filename_lock.rs:25-33).
THEOREM LockAlwaysTypeOK == LockSpec => []LockTypeOK
BY LockSpecIndInv, PTL DEF LockIndInv

\* What each kind of step does to the set of holders of a name.
LEMMA StepHolders ==
  ASSUME LockIndInv, [LockNext]_lockVars, NEW f \in Filenames
  PROVE  \/ Holders(f)' = Holders(f)
         \/ \E c \in Callers :
              /\ Reserve(c) /\ want[c] = f
              /\ Holders(f) = {} /\ Holders(f)' = {c}
         \/ \E c \in Callers :
              /\ DropGuard(c) /\ want[c] = f
              /\ c \in Holders(f) /\ Holders(f)' = {}
<1> USE DEF LockIndInv, LockTypeOK, MutualExclusion, LateRemovalIsHarmless,
            ReservationsAccounted, Holders
<1>1. ASSUME NEW c \in Callers, Reserve(c)
      PROVE  \/ Holders(f)' = Holders(f)
             \/ want[c] = f /\ Holders(f) = {} /\ Holders(f)' = {c}
  BY <1>1 DEF Reserve
<1>2. ASSUME NEW c \in Callers, DropGuard(c)
      PROVE  \/ Holders(f)' = Holders(f)
             \/ want[c] = f /\ c \in Holders(f) /\ Holders(f)' = {}
  BY <1>2 DEF DropGuard
<1>3. ASSUME NEW c \in Callers,
             \/ \E g \in Filenames : Call(c, g)
             \/ FindTaken(c) \/ PollAgain(c) \/ GiveUp(c)
      PROVE  Holders(f)' = Holders(f)
  BY <1>3 DEF Call, FindTaken, PollAgain, GiveUp
<1>4. ASSUME NEW g \in Filenames, RunRemoval(g)
      PROVE  Holders(f)' = Holders(f)
  BY <1>4 DEF RunRemoval
<1>5. CASE UNCHANGED lockVars
  BY <1>5 DEF lockVars
<1>6. QED
  BY <1>1, <1>2, <1>3, <1>4, <1>5 DEF LockNext

\* A step moves at most one name's holders: the other names keep theirs.
LEMMA StepOthers ==
  ASSUME LockIndInv, NEW c \in Callers, Reserve(c) \/ DropGuard(c),
         NEW g \in Filenames, g # want[c]
  PROVE  Holders(g)' = Holders(g)
BY DEF LockIndInv, LockTypeOK, Reserve, DropGuard, Holders

\* The reservation set with its delayed release implements one atomic mutex
\* per filename, as the callers of FilenameLocks::lock rely on.
THEOREM FilenameLocksImplementKeyedMutex == LockSpec => ImplementsKeyedMutex
<1>1. LockInit => Mutex!Init
  BY DEF LockInit, Mutex!Init, Holders
<1>2. LockIndInv /\ [LockNext]_lockVars => [Mutex!Next]_([f \in Filenames |-> Holders(f)])
  <2> SUFFICES ASSUME LockIndInv, [LockNext]_lockVars
               PROVE  [Mutex!Next]_([f \in Filenames |-> Holders(f)])
    OBVIOUS
  <2>1. CASE \A f \in Filenames : Holders(f)' = Holders(f)
    BY <2>1
  <2>2. ASSUME NEW f \in Filenames, NEW c \in Callers, Reserve(c), want[c] = f,
               Holders(f) = {}, Holders(f)' = {c}
        PROVE  Mutex!Next
    <3>1. \A g \in Filenames : g # f => Holders(g)' = Holders(g)
      BY <2>2, StepOthers
    <3>2. Mutex!Take(c, f)
      BY <2>2, <3>1 DEF Mutex!Take
    <3>3. QED
      BY <3>2 DEF Mutex!Next
  <2>3. ASSUME NEW f \in Filenames, NEW c \in Callers, DropGuard(c), want[c] = f,
               c \in Holders(f), Holders(f)' = {}
        PROVE  Mutex!Next
    <3>1. \A g \in Filenames : g # f => Holders(g)' = Holders(g)
      BY <2>3, StepOthers
    <3>2. Mutex!Give(c, f)
      BY <2>3, <3>1 DEF Mutex!Give
    <3>3. QED
      BY <3>2 DEF Mutex!Next
  <2>4. QED
    BY <2>1, <2>2, <2>3, StepHolders
<1>3. QED
  BY <1>1, <1>2, LockSpecIndInv, PTL DEF LockSpec, ImplementsKeyedMutex, Mutex!Spec

-----------------------------------------------------------------------------
(* Singleflight for any calls, keys and number of permits, and any set of calls *)
(* that may be dropped. *)

HIDE DEF LockPlaces
USE SingleflightAssumption DEF Places, Goto, IsOwner, Underway

\* The initial state satisfies the inductive invariant.
LEMMA InitIndInv == Init => IndInv
BY DEF Init, IndInv, TypeOK, CellsMatchKeys, OneInitialiser, EmptyCellIsListed

\* Every step preserves the inductive invariant.
LEMMA NextIndInv == IndInv /\ [Next]_vars => IndInv'
<1> SUFFICES ASSUME IndInv, [Next]_vars
             PROVE  IndInv'
  OBVIOUS
<1> USE DEF IndInv, TypeOK, CellsMatchKeys, OneInitialiser, EmptyCellIsListed
<1>1. ASSUME NEW c \in Calls, Run(c)
      PROVE  IndInv'
  BY <1>1 DEF Run
<1>2. ASSUME NEW c \in Calls, BeginInit(c)
      PROVE  IndInv'
  BY <1>2 DEF BeginInit, Initialising
<1>3. ASSUME NEW c \in Calls, Acquire(c)
      PROVE  IndInv'
  BY <1>3 DEF Acquire
<1>4. ASSUME NEW c \in Calls, Finish(c)
      PROVE  IndInv'
  BY <1>4 DEF Finish, Take
<1>5. ASSUME NEW c \in Calls, Receive(c)
      PROVE  IndInv'
  BY <1>5 DEF Receive, Take
<1>6. ASSUME NEW c \in Calls, Remove(c)
      PROVE  IndInv'
  BY <1>6 DEF Remove
<1>7. ASSUME NEW c \in Calls, Abandon(c)
      PROVE  IndInv'
  BY <1>7 DEF Abandon
<1>8. CASE UNCHANGED vars
  BY <1>8 DEF vars
<1>9. QED
  BY <1>1, <1>2, <1>3, <1>4, <1>5, <1>6, <1>7, <1>8 DEF Next, Step

\* The inductive invariant holds in every reachable state.
THEOREM SpecIndInv == Spec => []IndInv
BY InitIndInv, NextIndInv, PTL DEF Spec

\* Calls, cells and entries have their types in every reachable state of run.
THEOREM AlwaysTypeOK == Spec => []TypeOK
BY SpecIndInv, PTL DEF IndInv

\* The work of one key never runs twice at once (singleflight.rs:10-15), with
\* owners and workers dropped at any await.
THEOREM AlwaysOneWorkPerKey == Spec => []OneWorkPerKey
<1>1. IndInv => OneWorkPerKey
  BY DEF IndInv, TypeOK, OneInitialiser, EmptyCellIsListed, OneWorkPerKey
<1>2. QED
  BY <1>1, SpecIndInv, PTL

\* A permit is out exactly as long as a work runs (singleflight.rs:16-20, 78), the
\* calls that are dropped included: at most MaxConcurrency keys are worked on.
THEOREM AlwaysPermitsAreOutForWork ==
  Spec => [](PermitsAreOutForWork /\ Cardinality(Working) <= MaxConcurrency)
<1> DEFINE Permits == IsFiniteSet(Working) /\ free + Cardinality(Working) = MaxConcurrency
<1>1. Init => Permits
  <2>1. Init => Working = {} /\ free = MaxConcurrency
    BY DEF Init, Working
  <2>2. QED
    BY <2>1, FS_EmptySet
<1>2. IndInv /\ Permits /\ [Next]_vars => Permits'
  <2> SUFFICES ASSUME IndInv, Permits, [Next]_vars
               PROVE  Permits'
    OBVIOUS
  <2> USE DEF IndInv, TypeOK
  <2>1. Cardinality(Working) \in Nat
    BY FS_CardinalityType
  <2>2. ASSUME NEW c \in Calls, Acquire(c)
        PROVE  Permits'
    <3>1. Working' = Working \union {c} /\ c \notin Working
      BY <2>2 DEF Acquire, Working
    <3>2. Cardinality(Working') = Cardinality(Working) + 1 /\ IsFiniteSet(Working')
      BY <3>1, FS_AddElement
    <3>3. QED
      BY <2>1, <2>2, <3>2 DEF Acquire
  <2>3. ASSUME NEW c \in Calls, c \in Working, Finish(c) \/ Abandon(c)
        PROVE  Permits'
    <3>1. Working' = Working \ {c} /\ free' = free + 1
      BY <2>3 DEF Finish, Abandon, Take, Working
    <3>2. Cardinality(Working') = Cardinality(Working) - 1 /\ IsFiniteSet(Working')
      BY <2>3, <3>1, FS_RemoveElement
    <3>3. QED
      BY <2>1, <3>1, <3>2
  <2>4. ASSUME Working' = Working, free' = free
        PROVE  Permits'
    BY <2>4
  <2>5. ASSUME NEW c \in Calls,
               \/ Run(c) \/ BeginInit(c) \/ Receive(c) \/ Remove(c)
               \/ Abandon(c) /\ c \notin Working
        PROVE  Working' = Working /\ free' = free
    BY <2>5 DEF Run, BeginInit, Receive, Remove, Abandon, Take, Working
  <2>6. \A c \in Calls : Finish(c) => c \in Working
    BY DEF Finish, Working
  <2>7. CASE UNCHANGED vars
    BY <2>4, <2>7 DEF vars, Working
  <2>8. QED
    BY <2>2, <2>3, <2>4, <2>5, <2>6, <2>7 DEF Next, Step
<1>3. IndInv /\ Permits => PermitsAreOutForWork /\ Cardinality(Working) <= MaxConcurrency
  <2>1. IsFiniteSet(Working) => Cardinality(Working) \in Nat
    BY FS_CardinalityType
  <2>2. QED
    BY <2>1 DEF IndInv, TypeOK, PermitsAreOutForWork
<1>4. QED
  BY <1>1, <1>2, <1>3, SpecIndInv, PTL DEF Spec

\* A call that overlaps no other of its key finds no value, unless the call
\* that made the cell was dropped (singleflight.rs:22-26, 84-91).
THEOREM AlwaysFreshUnlessOwnerDropped == Spec => FreshUnlessOwnerDropped
<1> DEFINE Fresh == \A c \in Calls : Run(c) /\ Alone(c) /\ pc[cell'[c]] # "dropped" =>
                       value[cell'[c]] = Nothing
<1>1. IndInv => Fresh
  <2> SUFFICES ASSUME IndInv, NEW c \in Calls, Run(c), Alone(c), pc[cell'[c]] # "dropped"
               PROVE  value[cell'[c]] = Nothing
    OBVIOUS
  <2>1. QED
    BY DEF Run, Alone, IndInv, TypeOK, CellsMatchKeys
<1>2. QED
  BY <1>1, SpecIndInv, PTL DEF Spec, FreshUnlessOwnerDropped
=============================================================================

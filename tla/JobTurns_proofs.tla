-------------------------- MODULE JobTurns_proofs ---------------------------
(***************************************************************************)
(* The job gate for any number of jobs, any capacities and any number of    *)
(* changes: IndInv is inductive, the declared limit holds for as long as it  *)
(* stands, and the gate is a first-come first-served line.                  *)
(***************************************************************************)
EXTENDS JobTurns, FiniteSetTheorems, TLAPS

USE TurnsAssumption DEF Jobs, NoPool, Limits, Places, Goto

\* The initial state satisfies the inductive invariant.
LEMMA InitIndInv == Init => IndInv
BY DEF Init, IndInv, TypeOK, ChainFromTheFront, PoolsHaveMakers, TurnHasCome

\* When a job's turn has come, the ends of all before it have been dropped.
LEMMA TurnsBefore ==
  ASSUME TypeOK, ChainFromTheFront, NEW k \in Jobs, TurnHasCome(k), NEW a \in Jobs, a < k
  PROVE  a \in signalled
<1>1. k # 1 /\ k - 1 \in Jobs /\ (a = k - 1 \/ a < k - 1)
  OBVIOUS
<1>2. k - 1 \in signalled
  BY <1>1 DEF TurnHasCome
<1>3. QED
  BY <1>1, <1>2 DEF ChainFromTheFront

\* Every step of a job, of the relay task of a dropped turn and of the user
\* preserves the inductive invariant.
LEMMA NextIndInv == IndInv /\ [Next]_vars => IndInv'
<1> SUFFICES ASSUME IndInv, [Next]_vars
             PROVE  IndInv'
  OBVIOUS
<1> USE DEF IndInv, TypeOK, ChainFromTheFront, PoolsHaveMakers, TurnHasCome
<1>1. ASSUME NEW k \in Jobs, TakeTurn(k)
      PROVE  IndInv'
  BY <1>1 DEF TakeTurn
<1>2. ASSUME NEW k \in Jobs, Resolve(k)
      PROVE  IndInv'
  BY <1>2 DEF Resolve
<1>3. ASSUME NEW k \in Jobs, ComeForward(k)
      PROVE  IndInv'
  BY <1>3 DEF ComeForward
<1>4. ASSUME NEW k \in Jobs, CancelledInLine(k)
      PROVE  IndInv'
  BY <1>4 DEF CancelledInLine, DropTurn
<1>5. ASSUME NEW k \in Jobs, EndEarly(k)
      PROVE  IndInv'
  BY <1>5 DEF EndEarly, DropTurn
<1>6. ASSUME NEW k \in Jobs, Relay(k)
      PROVE  IndInv'
  BY <1>6, TurnsBefore DEF Relay
<1>7. ASSUME NEW k \in Jobs, AskPool(k)
      PROVE  IndInv'
  BY <1>7 DEF AskPool
<1>8. ASSUME NEW k \in Jobs, PassFree(k)
      PROVE  IndInv'
  BY <1>8, TurnsBefore DEF PassFree
<1>9. ASSUME NEW k \in Jobs, Grant(k)
      PROVE  IndInv'
  BY <1>9, TurnsBefore DEF Grant
<1>10. ASSUME NEW k \in Jobs, CancelledAtPool(k)
       PROVE  IndInv'
  BY <1>10, TurnsBefore DEF CancelledAtPool
<1>11. ASSUME NEW k \in Jobs, CallEnds(k)
       PROVE  IndInv'
  BY <1>11 DEF CallEnds
<1>12. ASSUME NEW k \in Jobs, Cancel(k)
       PROVE  IndInv'
  BY <1>12 DEF Cancel
<1>13. ASSUME NEW c \in Limits, ChangeRules(c)
       PROVE  IndInv'
  BY <1>13 DEF ChangeRules
<1>14. CASE UNCHANGED vars
  BY <1>14 DEF vars
<1>15. QED
  BY <1>1, <1>2, <1>3, <1>4, <1>5, <1>6, <1>7, <1>8, <1>9, <1>10, <1>11, <1>12,
     <1>13, <1>14 DEF Next, JobStep

\* The inductive invariant holds in every reachable state.
THEOREM SpecIndInv == Spec => []IndInv
BY InitIndInv, NextIndInv, PTL DEF Spec

\* When a job comes forward its predecessors are out of the line.
LEMMA FrontIsClear ==
  ASSUME IndInv, NEW k \in Jobs, pc[k] \in {"asking", "queued", "holding"},
         NEW a \in Jobs, a < k
  PROVE  pc[a] \in {"holding", "loose", "gone"}
<1>1. a \in signalled
  BY TurnsBefore DEF IndInv, ChainFromTheFront
<1>2. QED
  BY <1>1 DEF IndInv, ChainFromTheFront

\* Type correctness of the job gate.
THEOREM AlwaysTypeOK == Spec => []TypeOK
BY SpecIndInv, PTL DEF IndInv

\* Jobs come through the gate in the order their turns were taken
\* (download_manager/mod.rs:59-61, 168), whoever is cancelled or ends early.
THEOREM AlwaysServedInOrder == Spec => []ServedInOrder
<1>1. IndInv => ServedInOrder
  BY FrontIsClear DEF ServedInOrder, Waiting
<1>2. QED
  BY <1>1, SpecIndInv, PTL

\* One job at a time is between the chain and its permit
\* (download_manager/mod.rs:177-188).
THEOREM AlwaysOneAtTheHead == Spec => []OneAtTheHead
<1>1. IndInv => OneAtTheHead
  <2> SUFFICES ASSUME IndInv, NEW a \in Jobs, NEW b \in Jobs,
                      pc[a] \in {"asking", "queued"}, pc[b] \in {"asking", "queued"}
               PROVE  a = b
    BY DEF OneAtTheHead
  <2>1. ~(a < b)
    BY FrontIsClear
  <2>2. ~(b < a)
    BY FrontIsClear
  <2>3. QED
    BY <2>1, <2>2
<1>2. QED
  BY <1>1, SpecIndInv, PTL

\* The holders of a pool's permits are finitely many.
LEMMA HoldersFinite ==
  ASSUME NEW p \in Jobs
  PROVE  IsFiniteSet(Holders(p)) /\ Cardinality(Holders(p)) \in Nat
<1>1. IsFiniteSet(1 .. MaxJobs)
  BY FS_Interval
<1>2. Holders(p) \subseteq 1 .. MaxJobs
  BY DEF Holders
<1>3. QED
  BY <1>1, <1>2, FS_Subset, FS_CardinalityType

\* No pool, the replaced ones included, has more permits out than its capacity
\* (download_manager/mod.rs:204-220).
LEMMA SpecPoolsRespectCapacity == Spec => []PoolsRespectCapacity
<1>1. Init => PoolsRespectCapacity
  BY DEF Init, PoolsRespectCapacity
<1>2. IndInv /\ PoolsRespectCapacity /\ [Next]_vars => PoolsRespectCapacity'
  <2> SUFFICES ASSUME IndInv, PoolsRespectCapacity, [Next]_vars,
                      NEW p \in Jobs, poolOf'[p] = p
               PROVE  Cardinality(Holders(p)') <= capacity'[p]
    BY DEF PoolsRespectCapacity
  <2> USE DEF IndInv, TypeOK, PoolsHaveMakers
  <2>1. ASSUME poolOf[p] = p, capacity'[p] = capacity[p], Holders(p)' \subseteq Holders(p)
        PROVE  Cardinality(Holders(p)') <= capacity'[p]
    <3>1. Cardinality(Holders(p)') <= Cardinality(Holders(p)) /\ Cardinality(Holders(p)') \in Nat
      BY <2>1, HoldersFinite, FS_Subset, FS_CardinalityType
    <3>2. Cardinality(Holders(p)) <= capacity[p]
      BY <2>1 DEF PoolsRespectCapacity
    <3>3. capacity[p] \in Nat
      <4>1. capacity[poolOf[p]] \in Capacities
        BY <2>1
      <4>2. QED
        BY <2>1, <4>1
    <3>4. Cardinality(Holders(p)) \in Nat
      BY HoldersFinite
    <3>5. QED
      BY <2>1, <3>1, <3>2, <3>3, <3>4
  <2>2. ASSUME NEW k \in Jobs, Grant(k)
        PROVE  Cardinality(Holders(p)') <= capacity'[p]
    <3>1. CASE poolOf[k] = p
      <4>1. Holders(p)' = Holders(p) \union {k} /\ k \notin Holders(p)
        BY <2>2, <3>1 DEF Grant, Holders
      <4>2. Cardinality(Holders(p)') = Cardinality(Holders(p)) + 1
        BY <4>1, HoldersFinite, FS_AddElement
      <4>3. Cardinality(Holders(p)) < capacity[p] /\ capacity' = capacity /\ capacity[p] \in Nat
        BY <2>2, <3>1 DEF Grant
      <4>4. QED
        BY <4>2, <4>3, HoldersFinite
    <3>2. CASE poolOf[k] # p
      <4>1. Holders(p)' = Holders(p)
        BY <2>2, <3>2 DEF Grant, Holders
      <4>2. QED
        BY <2>1, <2>2, <4>1 DEF Grant
    <3>3. QED
      BY <3>1, <3>2
  <2>3. ASSUME NEW k \in Jobs, AskPool(k)
        PROVE  Cardinality(Holders(p)') <= capacity'[p]
    <3>1. CASE poolOf[p] = p
      <4>1. Holders(p)' \subseteq Holders(p) /\ capacity' = capacity
        BY <2>3 DEF AskPool, Holders
      <4>2. QED
        BY <2>1, <3>1, <4>1
    <3>2. CASE poolOf[p] # p
      <4>1. p = k
        BY <2>3, <3>2 DEF AskPool
      <4>2. Holders(p)' = {}
        BY <2>3, <4>1 DEF AskPool, Holders
      <4>3. capacity'[p] \in Nat
        BY <2>3, <4>1 DEF AskPool
      <4>4. QED
        BY <4>2, <4>3, FS_EmptySet
    <3>3. QED
      BY <3>1, <3>2
  <2>4. ASSUME NEW k \in Jobs,
               \/ TakeTurn(k) \/ ComeForward(k) \/ CancelledInLine(k) \/ EndEarly(k)
               \/ Relay(k) \/ PassFree(k) \/ CancelledAtPool(k) \/ CallEnds(k) \/ Cancel(k)
        PROVE  Cardinality(Holders(p)') <= capacity'[p]
    <3>1. Holders(p)' \subseteq Holders(p) /\ capacity' = capacity /\ poolOf' = poolOf
      BY <2>4 DEF TakeTurn, ComeForward, CancelledInLine, EndEarly, Relay, PassFree,
                  CancelledAtPool, CallEnds, Cancel, Holders
    <3>2. QED
      BY <2>1, <3>1
  <2>5. ASSUME NEW k \in Jobs, Resolve(k)
        PROVE  Cardinality(Holders(p)') <= capacity'[p]
    <3>1. k # p /\ poolOf' = poolOf
      <4>1. poolOf[k] = NoPool
        BY <2>5 DEF Resolve
      <4>2. QED
        BY <2>5, <4>1 DEF Resolve
    <3>2. Holders(p)' \subseteq Holders(p) /\ capacity'[p] = capacity[p]
      BY <2>5, <3>1 DEF Resolve, Holders
    <3>3. QED
      BY <2>1, <3>1, <3>2
  <2>6. ASSUME NEW c \in Limits, ChangeRules(c)
        PROVE  Cardinality(Holders(p)') <= capacity'[p]
    BY <2>1, <2>6 DEF ChangeRules, Holders
  <2>7. CASE UNCHANGED vars
    BY <2>1, <2>7 DEF vars, Holders
  <2>8. QED
    BY <2>2, <2>3, <2>4, <2>5, <2>6, <2>7 DEF Next, JobStep
<1>3. QED
  BY <1>1, <1>2, SpecIndInv, PTL DEF Spec

\* A step at which nobody asks for a pool leaves the pools as they are: who asked
\* keeps its capacity and its turn.
LEMMA NobodyAsks ==
  ASSUME IndInv, PoolsStayWhileTheyFit, UNCHANGED <<poolOf, slot>>, signalled \subseteq signalled',
         \A k \in Jobs : Asked(k) => capacity'[k] = capacity[k]
  PROVE  PoolsStayWhileTheyFit'
<1>1. \A k \in Jobs : Asked(k)' <=> Asked(k)
  BY DEF Asked
<1>2. \A k \in Jobs : Asked(k) => poolOf[k] \in Jobs /\ Asked(poolOf[k])
  BY DEF IndInv, TypeOK, PoolsHaveMakers, Asked
<1>3. \A k \in Jobs : Asked(k) => TurnHasCome(k)' /\ capacity'[poolOf'[k]] = capacity'[k]
  BY <1>2 DEF PoolsStayWhileTheyFit, TurnHasCome
<1>4. \A a \in Jobs :
        Asked(a) /\ (\A m \in Jobs : a < m /\ Asked(m) => capacity'[m] = capacity'[a])
          => slot' = poolOf'[a]
  BY DEF PoolsStayWhileTheyFit
<1>5. ASSUME NEW a \in Jobs, NEW b \in Jobs, a < b, Asked(a), Asked(b),
             \A m \in a .. b : Asked(m) => capacity'[m] = capacity'[a]
      PROVE  poolOf'[a] = poolOf'[b]
  <2>1. \A m \in a .. b : m \in Jobs
    OBVIOUS
  <2>2. \A m \in a .. b : Asked(m) => capacity[m] = capacity[a]
    BY <1>5, <2>1
  <2>3. QED
    BY <1>5, <2>2 DEF PoolsStayWhileTheyFit
<1>6. \A a, b \in Jobs : \A m \in a .. b : m \in Jobs
  OBVIOUS
<1>7. QED
  BY <1>1, <1>3, <1>4, <1>5, <1>6 DEF PoolsStayWhileTheyFit

\* The job at the head asks: it gets the pool of those before it when that fits,
\* and its own otherwise.
LEMMA HeadAsks ==
  ASSUME IndInv, PoolsStayWhileTheyFit, NEW k \in Jobs, AskPool(k)
  PROVE  PoolsStayWhileTheyFit'
<1> USE DEF IndInv, TypeOK
<1>1. ~Asked(k) /\ TurnHasCome(k) /\ capacity[k] \in Capacities
  BY DEF AskPool, ChainFromTheFront, PoolsHaveMakers, Asked
<1>2. /\ UNCHANGED <<capacity, signalled>>
      /\ slot' = poolOf'[k] /\ Asked(k)'
      /\ \A j \in Jobs \ {k} : poolOf'[j] = poolOf[j] /\ (Asked(j)' <=> Asked(j))
      /\ slot # NoPool /\ capacity[slot] = capacity[k] => poolOf'[k] = slot
      /\ capacity[poolOf'[k]] = capacity[k]
  BY DEF AskPool, Asked
<1>3. \A j \in Jobs : Asked(j) => j < k
  <2> SUFFICES ASSUME NEW j \in Jobs, Asked(j), k < j
               PROVE  FALSE
    BY <1>1
  <2>1. TurnHasCome(j)
    BY DEF PoolsStayWhileTheyFit
  <2>2. k \in signalled
    BY <2>1, TurnsBefore
  <2>3. QED
    BY <2>2 DEF AskPool, ChainFromTheFront
<1>4. \A j \in Jobs : Asked(j)' => TurnHasCome(j)' /\ capacity'[poolOf'[j]] = capacity'[j]
  BY <1>1, <1>2 DEF PoolsStayWhileTheyFit, TurnHasCome
<1>5. ASSUME NEW a \in Jobs, Asked(a), \A m \in a .. k : Asked(m)' => capacity[m] = capacity[a]
      PROVE  poolOf'[k] = poolOf[a]
  <2>1. a < k /\ capacity[k] = capacity[a]
    BY <1>2, <1>3, <1>5
  <2>2. \A m \in Jobs : a < m /\ Asked(m) => capacity[m] = capacity[a]
    <3> SUFFICES ASSUME NEW m \in Jobs, a < m, Asked(m)
                 PROVE  capacity[m] = capacity[a]
      OBVIOUS
    <3>1. m \in a .. k /\ Asked(m)'
      BY <1>1, <1>2, <1>3
    <3>2. QED
      BY <1>5, <3>1
  <2>3. slot = poolOf[a] /\ capacity[poolOf[a]] = capacity[a]
    BY <1>5, <2>2 DEF PoolsStayWhileTheyFit
  <2>4. QED
    BY <1>2, <1>5, <2>1, <2>3 DEF Asked
<1>6. ASSUME NEW a \in Jobs, Asked(a)', \A m \in Jobs : a < m /\ Asked(m)' => capacity[m] = capacity[a]
      PROVE  slot' = poolOf'[a]
  <2>1. CASE a = k
    BY <1>2, <2>1
  <2>2. CASE a # k
    <3>1. Asked(a) /\ poolOf'[a] = poolOf[a] /\ a < k
      BY <1>2, <1>3, <1>6, <2>2
    <3>2. \A m \in a .. k : Asked(m)' => capacity[m] = capacity[a]
      <4>1. \A m \in a .. k : m \in Jobs /\ (m = a \/ a < m)
        OBVIOUS
      <4>2. QED
        BY <1>6, <4>1
    <3>3. QED
      BY <1>2, <1>5, <3>1, <3>2
  <2>3. QED
    BY <2>1, <2>2
<1>7. ASSUME NEW a \in Jobs, NEW b \in Jobs, a < b, Asked(a)', Asked(b)',
             \A m \in a .. b : Asked(m)' => capacity[m] = capacity[a]
      PROVE  poolOf'[a] = poolOf'[b]
  <2>1. a # k /\ Asked(a)
    BY <1>2, <1>3, <1>7
  <2>2. CASE b = k
    BY <1>2, <1>5, <1>7, <2>1, <2>2
  <2>3. CASE b # k
    <3>1. Asked(b) /\ b < k
      BY <1>2, <1>3, <1>7, <2>3
    <3>2. \A m \in a .. b : m \in Jobs \ {k}
      BY <3>1
    <3>3. \A m \in a .. b : Asked(m) => capacity[m] = capacity[a]
      BY <1>2, <1>7, <3>2
    <3>4. QED
      BY <1>2, <1>7, <2>1, <2>3, <3>1, <3>3 DEF PoolsStayWhileTheyFit
  <2>4. QED
    BY <2>2, <2>3
<1>8. QED
  BY <1>2, <1>4, <1>6, <1>7 DEF PoolsStayWhileTheyFit

\* The pool stays in the slot as long as it fits.
LEMMA SpecPoolsStay == Spec => []PoolsStayWhileTheyFit
<1>1. Init => PoolsStayWhileTheyFit
  BY DEF Init, PoolsStayWhileTheyFit, Asked
<1>2. IndInv /\ PoolsStayWhileTheyFit /\ [Next]_vars => PoolsStayWhileTheyFit'
  <2> SUFFICES ASSUME IndInv, PoolsStayWhileTheyFit, [Next]_vars
               PROVE  PoolsStayWhileTheyFit'
    OBVIOUS
  <2>1. ASSUME NEW k \in Jobs, Resolve(k)
        PROVE  PoolsStayWhileTheyFit'
    <3>1. ~Asked(k)
      BY <2>1 DEF Resolve, IndInv, PoolsHaveMakers, Asked
    <3>2. \A j \in Jobs \ {k} : capacity'[j] = capacity[j]
      BY <2>1 DEF Resolve, IndInv, TypeOK
    <3>3. UNCHANGED <<poolOf, slot, signalled>>
      BY <2>1 DEF Resolve
    <3>4. QED
      BY <3>1, <3>2, <3>3, NobodyAsks
  <2>2. ASSUME NEW k \in Jobs,
               \/ TakeTurn(k) \/ ComeForward(k) \/ CancelledInLine(k) \/ EndEarly(k) \/ Relay(k)
               \/ PassFree(k) \/ Grant(k) \/ CancelledAtPool(k) \/ CallEnds(k) \/ Cancel(k)
        PROVE  PoolsStayWhileTheyFit'
    <3>1. UNCHANGED <<poolOf, slot, capacity>> /\ signalled \subseteq signalled'
      BY <2>2 DEF TakeTurn, ComeForward, CancelledInLine, EndEarly, DropTurn, Relay, PassFree,
         Grant, CancelledAtPool, CallEnds, Cancel
    <3>2. QED
      BY <3>1, NobodyAsks
  <2>3. ASSUME UNCHANGED <<poolOf, slot, capacity, signalled>>
        PROVE  PoolsStayWhileTheyFit'
    BY <2>3, NobodyAsks
  <2>4. QED
    BY <2>1, <2>2, <2>3, HeadAsks DEF Next, JobStep, ChangeRules, vars
<1>3. QED
  BY <1>1, <1>2, SpecIndInv, PTL DEF Spec

\* Of any stretch of jobs that found the same capacity no more hold permits at
\* once than that capacity, whatever was cancelled, dropped or changed
\* (download_manager/mod.rs:204-220): a pool is replaced by a job of another
\* capacity, never by one it fits.
THEOREM AlwaysLimitHoldsWhileItStands == Spec => []LimitHoldsWhileItStands
<1>1. IndInv /\ PoolsRespectCapacity /\ PoolsStayWhileTheyFit => LimitHoldsWhileItStands
  <2> SUFFICES ASSUME IndInv, PoolsRespectCapacity, PoolsStayWhileTheyFit,
                      NEW a \in Jobs, NEW b \in Jobs, NEW limit \in Capacities,
                      \A k \in a .. b : Asked(k) => capacity[k] = limit
               PROVE  Cardinality({k \in a .. b : Asked(k) /\ pc[k] = "holding"}) <= limit
    BY DEF LimitHoldsWhileItStands
  <2> DEFINE H == {k \in a .. b : Asked(k) /\ pc[k] = "holding"}
  <2>0. \A k \in H : k \in Jobs /\ k \in a .. b /\ Asked(k)
    OBVIOUS
  <2>1. CASE H = {}
    BY <2>1, FS_EmptySet
  <2>2. CASE H # {}
    <3>1. PICK h \in H : TRUE
      BY <2>2
    <3>2. ASSUME NEW k \in H
          PROVE  poolOf[k] = poolOf[h]
      <4>1. ASSUME NEW c \in H, NEW d \in H, c < d
            PROVE  poolOf[c] = poolOf[d]
        <5>1. \A m \in c .. d : m \in a .. b
          BY <2>0, <4>1
        <5>2. \A m \in c .. d : Asked(m) => capacity[m] = capacity[c]
          BY <2>0, <5>1
        <5>3. QED
          BY <2>0, <4>1, <5>2 DEF PoolsStayWhileTheyFit
      <4>2. k = h \/ k < h \/ h < k
        BY <2>0, <3>1
      <4>3. QED
        BY <3>1, <4>1, <4>2
    <3> DEFINE p == poolOf[h]
    <3>3. p \in Jobs /\ poolOf[p] = p /\ capacity[p] = limit
      BY <2>0, <3>1 DEF IndInv, TypeOK, PoolsHaveMakers, PoolsStayWhileTheyFit, Asked
    <3>4. H \subseteq Holders(p)
      BY <2>0, <3>2 DEF Holders
    <3>5. Cardinality(H) <= Cardinality(Holders(p)) /\ Cardinality(H) \in Nat
      BY <3>3, <3>4, HoldersFinite, FS_Subset, FS_CardinalityType
    <3>6. Cardinality(Holders(p)) <= limit /\ Cardinality(Holders(p)) \in Nat /\ limit \in Nat
      BY <3>3, HoldersFinite DEF PoolsRespectCapacity
    <3>7. QED
      BY <3>5, <3>6
  <2>3. QED
    BY <2>1, <2>2
<1>2. QED
  BY <1>1, SpecIndInv, SpecPoolsRespectCapacity, SpecPoolsStay, PTL

\* The chain of turns with its early drops and relay tasks is the line TurnLine
\* promises: acquire_job serves jobs in the order of take_job_turn.
THEOREM JobTurnsImplementTurnLine == Spec => ImplementsTurnLine
<1>1. Init => Line!Init
  BY DEF Init, Line!Init, Stage, Waiting
<1>2. IndInv /\ [Next]_vars => [Line!Next]_Stage
  <2> SUFFICES ASSUME IndInv, [Next]_vars
               PROVE  [Line!Next]_Stage
    OBVIOUS
  <2> USE DEF IndInv, TypeOK, Waiting
  <2>1. ASSUME NEW k \in Jobs, TakeTurn(k)
        PROVE  Line!Join(k)
    BY <2>1 DEF TakeTurn, Stage, Line!Join
  <2>2. ASSUME NEW k \in Jobs, PassFree(k) \/ Grant(k)
        PROVE  Line!Serve(k)
    <3>1. pc' = [pc EXCEPT ![k] = "holding"] /\ pc[k] \in {"asking", "queued"}
      BY <2>2 DEF PassFree, Grant
    <3>2. \A a \in Jobs : a < k => Stage[a] \in {"served", "left"}
      BY <3>1, FrontIsClear DEF Stage
    <3>3. Stage[k] = "line" /\ Stage' = [Stage EXCEPT ![k] = "served"]
      BY <3>1 DEF Stage
    <3>4. QED
      BY <3>2, <3>3 DEF Line!Serve
  <2>3. ASSUME NEW k \in Jobs,
               CancelledInLine(k) \/ EndEarly(k) \/ CancelledAtPool(k)
        PROVE  Line!Leave(k)
    BY <2>3 DEF CancelledInLine, EndEarly, CancelledAtPool, Stage, Line!Leave
  <2>4. ASSUME NEW k \in Jobs, CallEnds(k)
        PROVE  Line!Leave(k) \/ Stage' = Stage
    <3>1. CASE pc[k] = "holding"
      BY <2>4, <3>1 DEF CallEnds, Stage, Line!Leave
    <3>2. CASE pc[k] = "loose"
      BY <2>4, <3>2 DEF CallEnds, Stage
    <3>3. QED
      BY <2>4, <3>1, <3>2 DEF CallEnds
  <2>5. ASSUME NEW k \in Jobs, Resolve(k) \/ ComeForward(k) \/ AskPool(k)
        PROVE  Stage' = Stage
    BY <2>5 DEF Resolve, ComeForward, AskPool, Stage
  <2>6. ASSUME NEW k \in Jobs, Relay(k) \/ Cancel(k)
        PROVE  Stage' = Stage
    BY <2>6 DEF Relay, Cancel, Stage
  <2>7. ASSUME NEW c \in Limits, ChangeRules(c)
        PROVE  Stage' = Stage
    BY <2>7 DEF ChangeRules, Stage
  <2>8. CASE UNCHANGED vars
    BY <2>8 DEF vars, Stage
  <2>9. QED
    BY <2>1, <2>2, <2>3, <2>4, <2>5, <2>6, <2>7, <2>8 DEF Next, JobStep, Line!Next
<1>3. QED
  BY <1>1, <1>2, SpecIndInv, PTL DEF Spec, ImplementsTurnLine, Line!Spec
=============================================================================

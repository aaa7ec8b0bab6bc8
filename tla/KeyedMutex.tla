----------------------------- MODULE KeyedMutex -----------------------------
(***************************************************************************)
(* What FilenameLocks promises its callers (filename_lock.rs:1-16): one     *)
(* mutex per filename.  `holders[f]' is the set of callers inside the       *)
(* section guarded by f; taking and giving back are atomic.                 *)
(***************************************************************************)
CONSTANTS Callers,   \* tasks that may ask for a reservation
          Filenames  \* destination filenames

VARIABLE holders     \* who is inside each filename's section

Init == holders = [f \in Filenames |-> {}]

Take(c, f) ==
  /\ holders[f] = {}
  /\ holders' = [holders EXCEPT ![f] = {c}]

Give(c, f) ==
  /\ c \in holders[f]
  /\ holders' = [holders EXCEPT ![f] = {}]

Next == \E c \in Callers, f \in Filenames : Take(c, f) \/ Give(c, f)

Spec == Init /\ [][Next]_holders
=============================================================================

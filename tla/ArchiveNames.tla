---------------------------- MODULE ArchiveNames ----------------------------
(***************************************************************************)
(* What a rename promises: an archive is shown under one file name, and the  *)
(* name changes in one step to one that no other archive has, whatever       *)
(* fails or crashes in between.  A rename that Redis refused to journal (it   *)
(* is best effort), or to resolve at startup, exposes its archive, and renames *)
(* that get in each other's way expose all of theirs: what those are shown   *)
(* under is no longer promised.                                              *)
(***************************************************************************)
CONSTANTS Archives, Names, Nothing

VARIABLES shown,    \* archive -> the name it is shown under
          exposed   \* archives of which nothing is promised

Init ==
  /\ shown \in [Archives -> Names]
  /\ \A i, j \in Archives : shown[i] = shown[j] => i = j
  /\ exposed = {}

Rename(i, n) ==
  /\ \A j \in Archives \ exposed : shown[j] # n
  /\ shown' = [shown EXCEPT ![i] = n]
  /\ exposed' \in {exposed, exposed \ {i}}

Expose(some) == exposed' = exposed \union some /\ UNCHANGED shown

Cover(i) == exposed' = exposed \ {i} /\ UNCHANGED shown

\* Exposed archives may lose their records, or be shown under names that look like
\* their own.
Lose ==
  /\ shown' \in [Archives -> Names \union {Nothing}]
  /\ \A i \in Archives \ exposed : shown'[i] = shown[i]
  /\ UNCHANGED exposed

Next ==
  \/ Lose \/ \E some \in SUBSET Archives : Expose(some)
  \/ \E i \in Archives : Cover(i) \/ \E n \in Names : Rename(i, n)

Spec == Init /\ [][Next]_<<shown, exposed>>
=============================================================================

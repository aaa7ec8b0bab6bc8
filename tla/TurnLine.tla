----------------------------- MODULE TurnLine ------------------------------
(***************************************************************************)
(* What DownloadManager::acquire_job promises of the jobs of one plugin:    *)
(* "Jobs are served in the order their turns were taken."  A job joins the  *)
(* line, is served when nobody before it is still in the line, and may       *)
(* leave the line at any time.                                               *)
(***************************************************************************)
EXTENDS Naturals

CONSTANT Jobs  \* jobs, numbered in the order their turns are taken

VARIABLE stage  \* where each job is: out, in the line, served, or left

Init == stage = [k \in Jobs |-> "out"]

Join(k) ==
  /\ stage[k] = "out"
  /\ \A a \in Jobs : a < k => stage[a] # "out"
  /\ stage' = [stage EXCEPT ![k] = "line"]

Serve(k) ==
  /\ stage[k] = "line"
  /\ \A a \in Jobs : a < k => stage[a] \in {"served", "left"}
  /\ stage' = [stage EXCEPT ![k] = "served"]

Leave(k) ==
  /\ stage[k] \in {"line", "served"}
  /\ stage' = [stage EXCEPT ![k] = "left"]

Next == \E k \in Jobs : Join(k) \/ Serve(k) \/ Leave(k)

Spec == Init /\ [][Next]_stage
=============================================================================

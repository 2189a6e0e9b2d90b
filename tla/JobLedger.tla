------------------------------ MODULE JobLedger ------------------------------
(***************************************************************************)
(* What the index of the durable model jobs promises, without the handlers, *)
(* writes and crashes that make it: every job goes through its life once,   *)
(* forward, and whatever has been recorded of it is never taken back.       *)
(* ModelJobs implements it with its index.json.                             *)
(***************************************************************************)
CONSTANT Jobs

VARIABLES stage,   \* of each job: how far it has come
          claimed  \* the jobs whose claim is recorded

Ends   == {"done", "failed", "aborted"}
Stages == Ends \cup {"new", "running", "gone"}

Init == stage = [j \in Jobs |-> "new"] /\ claimed = {}

\* The stages a job may be found in after stage s: an end is final.
After(s) ==
  {t \in Stages : t \in {s, "gone"} \/ s = "new" \/ (s = "running" /\ t # "new")}

\* One write of the index records what has become of any number of jobs.  Only
\* an ended job is claimed, and a claim lasts as long as its job.
Record ==
  /\ stage' \in [Jobs -> Stages]
  /\ \A j \in Jobs : stage'[j] \in After(stage[j])
  /\ claimed' \subseteq {j \in Jobs : stage'[j] \in Ends}
  /\ {j \in claimed : stage'[j] # "gone"} \subseteq claimed'

Next == Record
Spec == Init /\ [][Next]_<<stage, claimed>>
=============================================================================

------------------------------- MODULE JobLife -------------------------------
(***************************************************************************)
(* What the jobs table promises to its readers: a job is submitted once,   *)
(* may be started and requeued several times, and once it has a final      *)
(* status it keeps one: a later failure to store the report may still turn *)
(* it into "failed".  Batches are built on this promise.                   *)
(***************************************************************************)
CONSTANTS
  Jobs,
  Finished  \* the final statuses, "failed" among them

VARIABLE status

JobStatuses == {"none", "pending", "running"} \cup Finished

JobInit == status = [j \in Jobs |-> "none"]

Move(j, from, to) == status[j] = from /\ status' = [status EXCEPT ![j] = to]

SubmitJob(j) == Move(j, "none", "pending")
StartJob(j) == Move(j, "pending", "running")
FinishJob(j) == \E s \in Finished : Move(j, "running", s)
FailLate(j) == \E s \in Finished : Move(j, s, "failed")
RequeueJobs(S) ==
  /\ \A j \in S : status[j] = "running"
  /\ status' = [j \in Jobs |-> IF j \in S THEN "pending" ELSE status[j]]

JobNext ==
  \/ \E j \in Jobs : SubmitJob(j) \/ StartJob(j) \/ FinishJob(j) \/ FailLate(j)
  \/ \E S \in SUBSET Jobs : RequeueJobs(S)

JobSpec == JobInit /\ [][JobNext]_status
==============================================================================

------------------------------ MODULE ScanJobs ------------------------------
(***************************************************************************)
(* Scan jobs: the jobs table (service/store.py) and the ScanService        *)
(* processes that share it (service/service.py).                           *)
(*                                                                         *)
(* A process dispatches every job twice, as a task of its executor and as  *)
(* a 0.25 s timer that runs the job on its own thread when the row is      *)
(* still pending; claim() lets one of them through.  A process that starts *)
(* requeues the rows that have been running for too long and dispatches    *)
(* the pending ones.  Each store call is one transaction and one step,     *)
(* except recover_running, which reads and writes in two; create() and     *)
(* update() read the row back after the commit, and may raise with their   *)
(* write done.                                                             *)
(***************************************************************************)
EXTENDS Naturals, FiniteSets

CONSTANTS
  Finished,     \* final statuses: those of a report, and "failed"
  Procs,        \* server processes on one database
  MaxWorkers,   \* threads of one executor
  RecoverLimit, \* rows a starting process schedules (1000)
  MayOverrun,   \* may an analysis take longer than recover_stale_seconds?
  StartsOverlap,  \* may two processes be in recover_running at once?
  MaxJobs, MaxFailures  \* bounds (MaxFailures: with the crashes)

ASSUME ScanJobsAssumption ==
  /\ "failed" \in Finished /\ Finished \cap {"none", "pending", "running"} = {}
  /\ MaxWorkers \in Nat \ {0} /\ RecoverLimit \in Nat \ {0}
  /\ {MayOverrun, StartsOverlap} \subseteq BOOLEAN
  /\ MaxJobs \in Nat /\ MaxFailures \in Nat

VARIABLES
  job,      \* the jobs table; jobs are numbered in the order of created_at
  old,      \* running rows whose updated_at is recover_stale_seconds ago
  proc,     \* process -> "down", "recovering", "starting" or "up"
  stale,    \* process -> the rows recover_running has read and not yet requeued
  disp,     \* dispatch -> where its thread is
  accepted, \* history: the jobs submit() has handed to the executor
  crashes,
  failures  \* failed store calls

vars == <<job, old, proc, stale, disp, accepted, crashes, failures>>

Jobs == 1..MaxJobs
Paths == {"pool", "timer"}
Dispatches == Procs \X Paths \X Jobs

JobRows == [status : {"none", "pending", "running"} \cup Finished, attempts : Nat]

Holding == {"run", "fail"}  \* between a successful claim and the last update
Pcs == {"none", "queued", "armed", "claim"} \cup Holding

TypeOK ==
  /\ job \in [Jobs -> JobRows]
  /\ old \subseteq Jobs
  /\ proc \in [Procs -> {"down", "recovering", "starting", "up"}]
  /\ stale \in [Procs -> SUBSET Jobs]
  /\ disp \in [Dispatches -> Pcs]
  /\ accepted \subseteq Jobs
  /\ crashes \in Nat /\ failures \in Nat

Init ==
  /\ job = [j \in Jobs |-> [status |-> "none", attempts |-> 0]]
  /\ old = {}
  /\ proc = [p \in Procs |-> "down"]
  /\ stale = [p \in Procs |-> {}]
  /\ disp = [d \in Dispatches |-> "none"]
  /\ accepted = {}
  /\ crashes = 0 /\ failures = 0

Created(j) == job[j].status # "none"
Live(j) == \E d \in Dispatches : d[3] = j /\ disp[d] \in Holding
Goto(d, pc) == disp' = [disp EXCEPT ![d] = pc]
MayFail == crashes + failures < MaxFailures
Unfailing == UNCHANGED <<proc, stale, accepted, crashes, failures>>

-----------------------------------------------------------------------------
(* submit and _schedule *)

\* Process p hands the jobs of S to its executor and arms a timer for each.
Dispatched(p, S) ==
  [d \in Dispatches |->
     IF d[1] = p /\ d[3] \in S
     THEN IF d[2] = "pool" THEN "queued" ELSE "armed" ELSE disp[d]]

\* The row as create() commits it.
NewRow(p, j) ==
  /\ proc[p] = "up"
  /\ ~Created(j) /\ \A k \in Jobs : k < j => Created(k)
  /\ job' = [job EXCEPT ![j].status = "pending"]

\* The row, then its dispatches; a crash in between leaves what a crash right
\* after leaves.  rerun submits the stored request under a new id: the same step.
Submit(p, j) ==
  /\ NewRow(p, j)
  /\ disp' = Dispatched(p, {j})
  /\ accepted' = accepted \cup {j}
  /\ UNCHANGED <<old, proc, stale, crashes, failures>>

\* create() commits and its get() raises: submit() leaves before _schedule, and
\* the row waits for a process that starts.
SubmitError(p, j) ==
  /\ MayFail /\ failures' = failures + 1
  /\ NewRow(p, j)
  /\ UNCHANGED <<old, proc, stale, disp, accepted, crashes>>

-----------------------------------------------------------------------------
(* The threads *)

Busy(p) == Cardinality({j \in Jobs : disp[<<p, "pool", j>>] \in Holding})

\* The dispatch has a thread: a free one of the executor, or the timer's own.
Ready(d) == disp[d] = "claim" \/ (disp[d] = "queued" /\ Busy(d[1]) < MaxWorkers)

\* _fallback_schedule
Fire(d) ==
  /\ disp[d] = "armed"
  /\ Goto(d, IF job[d[3]].status = "pending" THEN "claim" ELSE "none")
  /\ Unfailing /\ UNCHANGED <<job, old>>

\* Mutant: the row is not asked whether it is pending.
ClaimAnyway(d) ==
  /\ Ready(d)
  /\ job' = [job EXCEPT ![d[3]].status = "running", ![d[3]].attempts = @ + 1]
  /\ old' = old \ {d[3]}
  /\ Goto(d, "run")
  /\ Unfailing

\* Mutant: WHERE status!='running'.
ClaimUnlessRunning(d) ==
  LET j == d[3] IN
  /\ Ready(d)
  /\ \/ /\ job[j].status # "running"
        /\ job' = [job EXCEPT ![j].status = "running", ![j].attempts = @ + 1]
        /\ old' = old \ {j}
        /\ Goto(d, "run")
     \/ /\ job[j].status = "running"
        /\ Goto(d, "none") /\ UNCHANGED <<job, old>>
  /\ Unfailing

\* UPDATE ... WHERE status='pending'; the thread goes on if a row was changed.
Claim(d) ==
  LET j == d[3] IN
  /\ Ready(d)
  /\ \/ /\ job[j].status = "pending"
        /\ job' = [job EXCEPT ![j].status = "running", ![j].attempts = @ + 1]
        /\ old' = old \ {j}
        /\ Goto(d, "run")
     \/ /\ job[j].status # "pending"
        /\ Goto(d, "none") /\ UNCHANGED <<job, old>>
  /\ Unfailing

\* update() does not look at the row's status.
Update(j, s) == job' = [job EXCEPT ![j].status = s] /\ old' = old \ {j}

\* The engine returned a report, or raised.
Save(d) ==
  /\ disp[d] = "run"
  /\ \E s \in Finished : Update(d[3], s)
  /\ Goto(d, "none") /\ Unfailing

\* The report could not be stored.
Fail(d) ==
  /\ disp[d] = "fail"
  /\ Update(d[3], "failed")
  /\ Goto(d, "none") /\ Unfailing

Run(d) == Fire(d) \/ Claim(d) \/ Save(d) \/ Fail(d)

\* A store call raises, and update() may have committed.  When it was to store a
\* report, a failure is stored next, over the report if need be; after any other
\* the thread ends and nobody sees it.
StoreError(d) ==
  /\ MayFail /\ failures' = failures + 1
  /\ \/ /\ Ready(d) \/ disp[d] = "armed"
        /\ Goto(d, "none") /\ UNCHANGED <<job, old>>
     \/ /\ disp[d] \in Holding
        /\ Goto(d, "none")
        /\ Update(d[3], "failed") \/ UNCHANGED <<job, old>>
     \/ /\ disp[d] = "run"
        /\ Goto(d, "fail")
        /\ (\E s \in Finished : Update(d[3], s)) \/ UNCHANGED <<job, old>>
  /\ UNCHANGED <<proc, stale, accepted, crashes>>

-----------------------------------------------------------------------------
(* Start and death of a process *)

Age(j) ==
  /\ job[j].status = "running" /\ j \notin old
  /\ MayOverrun \/ ~Live(j)
  /\ old' = old \cup {j}
  /\ Unfailing /\ UNCHANGED <<job, disp>>

\* Mutant: rows of any age are read.
ReadRunning(p) ==
  /\ proc[p] = "down" /\ proc' = [proc EXCEPT ![p] = "recovering"]
  /\ StartsOverlap \/ \A q \in Procs : proc[q] # "recovering"
  /\ stale' = [stale EXCEPT ![p] = {j \in Jobs : job[j].status = "running"}]
  /\ UNCHANGED <<job, old, disp, accepted, crashes, failures>>

\* recover_running reads the running rows and their age ...
ReadStale(p) ==
  /\ proc[p] = "down" /\ proc' = [proc EXCEPT ![p] = "recovering"]
  /\ StartsOverlap \/ \A q \in Procs : proc[q] # "recovering"
  /\ stale' = [stale EXCEPT ![p] = {j \in old : job[j].status = "running"}]
  /\ UNCHANGED <<job, old, disp, accepted, crashes, failures>>

\* ... and requeues those that are still running; their age is not asked again.
Requeue(p) ==
  LET rows == {j \in stale[p] : job[j].status = "running"} IN
  /\ proc[p] = "recovering" /\ proc' = [proc EXCEPT ![p] = "starting"]
  /\ job' = [j \in Jobs |-> IF j \in rows THEN [job[j] EXCEPT !.status = "pending"] ELSE job[j]]
  /\ old' = old \ rows
  /\ stale' = [stale EXCEPT ![p] = {}]
  /\ UNCHANGED <<disp, accepted, crashes, failures>>

\* Mutant: only what recover_running requeued would be scheduled; here, nothing.
ResumeNothing(p) ==
  /\ proc[p] = "starting" /\ proc' = [proc EXCEPT ![p] = "up"]
  /\ UNCHANGED <<job, old, stale, disp, accepted, crashes, failures>>

\* list_by_status("pending", limit), oldest first, and _schedule for each.
Resume(p) ==
  /\ proc[p] = "starting" /\ proc' = [proc EXCEPT ![p] = "up"]
  /\ LET pending == {j \in Jobs : job[j].status = "pending"} IN
       disp' = Dispatched(p, {j \in pending :
                 Cardinality({k \in pending : k < j}) < RecoverLimit})
  /\ UNCHANGED <<job, old, stale, accepted, crashes, failures>>

Start(p) == ReadStale(p) \/ Requeue(p) \/ Resume(p)

Crash(p) ==
  /\ MayFail /\ crashes' = crashes + 1
  /\ proc[p] # "down" /\ proc' = [proc EXCEPT ![p] = "down"]
  /\ stale' = [stale EXCEPT ![p] = {}]
  /\ disp' = [d \in Dispatches |-> IF d[1] = p THEN "none" ELSE disp[d]]
  /\ UNCHANGED <<job, old, accepted, failures>>

-----------------------------------------------------------------------------
Next ==
  \/ \E p \in Procs, j \in Jobs : Submit(p, j) \/ SubmitError(p, j)
  \/ \E d \in Dispatches : Run(d) \/ StoreError(d)
  \/ \E j \in Jobs : Age(j)
  \/ \E p \in Procs : Start(p) \/ Crash(p)

Spec == Init /\ [][Next]_vars

\* Threads run, analyses end, and a process that died is started again.
FairSpec ==
  /\ Spec
  /\ \A d \in Dispatches : WF_vars(Run(d))
  /\ \A p \in Procs : WF_vars(Start(p))

-----------------------------------------------------------------------------
(* Properties *)

\* Of all the threads of all the processes at most one works on a job, although
\* it is dispatched twice in each of them and again after a restart, as long as
\* no analysis outlives recover_stale_seconds and processes start one after the
\* other; and the row says so, until update() has committed the outcome and the
\* call raises all the same.
OneRunner ==
  MayOverrun \/ StartsOverlap \/
  \A d \in Dispatches : disp[d] \in Holding =>
    /\ job[d[3]].status = "running" \/ (disp[d] = "fail" /\ job[d[3]].status \in Finished)
    /\ \A e \in Dispatches : e[3] = d[3] /\ disp[e] \in Holding => e = d

\* An analysis is repeated only after a crash or a failed store call.
RepeatsAreRecoveries ==
  MayOverrun \/ StartsOverlap \/ \A j \in Jobs : job[j].attempts <= 1 + crashes + failures

\* Left 'running' by a thread that is gone.
Stranded(j) == job[j].status = "running" /\ ~Live(j)

\* Every job submit() handed to the executor is finished although processes die or
\* a store call fails.  Two exceptions: a row that was claimed by a thread that is
\* gone waits for a start more than recover_stale_seconds later, and nothing promises
\* one; and two failed store calls may take both dispatches of a job.
JobsFinish ==
  \A j \in Jobs : j \in accepted ~> job[j].status \in Finished \/ Stranded(j) \/ failures > 1

\* The table keeps the promise batches rely on.
Life == INSTANCE JobLife WITH status <- [j \in Jobs |-> job[j].status]

\* Each step of the threads submits, starts or finishes one job or requeues some: a
\* job is never started when not pending, and once finished neither lost nor run
\* again; only "failed" may replace the status it was finished with.
ImplementsJobLife == Life!JobSpec

\* "Recovery is conservative: only jobs older than max_age_seconds are reset" (store.py:78),
\* although the ages are read before the transaction that resets the rows: no row is
\* taken from a thread that works on it while another process starts.
ResetIsConservative ==
  [][MayOverrun \/ StartsOverlap \/
     \A j \in Jobs : job[j].status = "running" /\ job'[j].status = "pending" => j \in old]_vars
=============================================================================

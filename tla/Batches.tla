------------------------------- MODULE Batches -------------------------------
(***************************************************************************)
(* The batches of the developer API (service/developer_api.py): creation   *)
(* under a quota and an idempotency key, the coordinator thread of each    *)
(* batch with the threads that submit its items as scan jobs, the count    *)
(* that closes it, and the recovery at start.                              *)
(*                                                                         *)
(* The jobs themselves move by JobLife, which ScanJobs implements.  One    *)
(* user, one process; every store call is one transaction and one step.    *)
(***************************************************************************)
EXTENDS Naturals, FiniteSets, FiniteSetsExt, JobLife

CONSTANTS
  Keys, NoKey,   \* values of Idempotency-Key, and its absence
  Sizes,         \* numbers of distinct items requests come with
  Quota,         \* monthly_scan_limit
  MaxActive,     \* max_active_batches
  Concurrency,   \* submitting threads of one batch
  Coordinators,  \* threads of the batch executor
  MaxBatches, MaxRepeats, MaxFailures  \* bounds (MaxFailures: with the crashes)

ASSUME BatchesAssumption ==
  /\ NoKey \notin Keys
  /\ Jobs \subseteq Nat \ {0}
  /\ "failed" \in Finished /\ Finished \cap {"none", "pending", "running"} = {}
  /\ Sizes \subseteq Nat \ {0}
  /\ {Quota, MaxActive, MaxBatches, MaxRepeats, MaxFailures} \subseteq Nat
  /\ {Concurrency, Coordinators} \subseteq Nat \ {0}

VARIABLES
  batch,    \* api_batches
  item,     \* api_batch_items: batch -> position -> row
  usage,    \* api_usage_monthly
  coord,    \* where the coordinator of a batch is; not "none": in _running
  sub,      \* batch -> position -> where the thread that submits the item is
  repeats,  \* requests that got an existing batch back
  crashes,
  failures, \* failed store calls
  late      \* history: jobs whose stored report was replaced by "failed"

counters == <<repeats, crashes, failures, late>>
vars == <<batch, item, usage, coord, sub, counters, status>>

BatchIds == 1..MaxBatches
Positions == 1..Max(Sizes \cup {0})
NoJob == 0
Counts == [queued : Nat, running : Nat, completed : Nat, failed : Nat]
Active == {"queued", "running"}
Closed == {"complete", "partial", "failed"}
Succeeded == {"complete", "partial", "unknown"}

TypeOK ==
  /\ batch \in [BatchIds -> [status : {"none"} \cup Active \cup Closed,
                             key : Keys \cup {NoKey}, total : Nat, counts : Counts]]
  /\ item \in [BatchIds -> [Positions ->
       [status : {"none", "queued", "running", "completed", "failed"},
        job : Jobs \cup {NoJob}]]]
  /\ usage \in [reserved : Nat, completed : Nat, failed : Nat]
  /\ coord \in [BatchIds -> {"none", "waiting", "submit", "watch", "more", "close", "tally"}]
  /\ sub \in [BatchIds -> [Positions ->
       [pc : {"none", "todo", "resolve", "link"}, job : Jobs \cup {NoJob}]]]
  /\ repeats \in Nat /\ crashes \in Nat /\ failures \in Nat /\ late \subseteq Jobs
  /\ status \in [Jobs -> JobStatuses]

Zero == [queued |-> 0, running |-> 0, completed |-> 0, failed |-> 0]
NoItem == [status |-> "none", job |-> NoJob]

Gone == [pc |-> "none", job |-> NoJob]

Init ==
  /\ batch = [b \in BatchIds |->
                [status |-> "none", key |-> NoKey, total |-> 0, counts |-> Zero]]
  /\ item = [b \in BatchIds |-> [i \in Positions |-> NoItem]]
  /\ usage = [reserved |-> 0, completed |-> 0, failed |-> 0]
  /\ coord = [b \in BatchIds |-> "none"]
  /\ sub = [b \in BatchIds |-> [i \in Positions |-> Gone]]
  /\ repeats = 0 /\ crashes = 0 /\ failures = 0 /\ late = {}
  /\ JobInit

Exists(b) == batch[b].status # "none"
ItemsOf(b) == 1..batch[b].total
CountOf(b, s) == Cardinality({i \in ItemsOf(b) : item[b][i].status = s})
Counted(b) == [s \in DOMAIN Zero |-> CountOf(b, s)]

-----------------------------------------------------------------------------
(* create_batch *)

\* Hand the batch to the executor unless it is in _running.
Coordinate(b) == coord' = [coord EXCEPT ![b] = IF @ = "none" THEN "waiting" ELSE @]

Holders(key) == {b \in BatchIds : Exists(b) /\ key # NoKey /\ batch[b].key = key}

\* Mutant: a repeated request reserves its scans again.
RepeatReserves(key, n) ==
  /\ repeats < MaxRepeats /\ repeats' = repeats + 1
  /\ \E b \in Holders(key) : batch[b].total = n /\ Coordinate(b)
  /\ usage' = [usage EXCEPT !.reserved = @ + n]
  /\ UNCHANGED <<batch, item, sub, failures, status, crashes, late>>

\* A request whose key is known gets that batch back, whatever its state; with
\* other items than the first it is refused (409).
RepeatBatch(key, n) ==
  /\ repeats < MaxRepeats /\ repeats' = repeats + 1
  /\ \E b \in Holders(key) : batch[b].total = n /\ Coordinate(b)
  /\ UNCHANGED <<batch, item, usage, sub, failures, status, crashes, late>>

NewBatch(key, n) ==
  /\ Holders(key) = {}
  /\ Cardinality({b \in BatchIds : batch[b].status \in Active}) < MaxActive
  /\ usage.reserved + n <= Quota
  /\ usage' = [usage EXCEPT !.reserved = @ + n]
  /\ \E b \in BatchIds :
       /\ ~Exists(b) /\ \A c \in BatchIds : c < b => Exists(c)
       /\ batch' = [batch EXCEPT ![b] =
            [status |-> "queued", key |-> key, total |-> n, counts |-> [Zero EXCEPT !.queued = n]]]
       /\ item' = [item EXCEPT ![b] = [i \in Positions |->
            IF i <= n THEN [NoItem EXCEPT !.status = "queued"] ELSE NoItem]]
       /\ Coordinate(b)
  /\ UNCHANGED <<sub, status, counters>>

-----------------------------------------------------------------------------
(* _process_batch *)

\* A thread of the executor is free for a waiting coordinator.
ThreadFree == Cardinality({b \in BatchIds : coord[b] \notin {"none", "waiting"}}) < Coordinators

\* The batch runs again, whatever its status was; the queued items are submitted.
Begin(b) ==
  /\ coord[b] = "waiting" /\ ThreadFree
  /\ coord' = [coord EXCEPT ![b] = "submit"]
  /\ batch' = [batch EXCEPT ![b].status = "running"]
  /\ sub' = [sub EXCEPT ![b] = [i \in Positions |->
               IF item[b][i].status = "queued" THEN [Gone EXCEPT !.pc = "todo"] ELSE Gone]]
  /\ UNCHANGED <<item, usage, status, counters>>

\* _submit_one
Submitting(b) == {i \in Positions : sub[b][i].pc \notin {"none", "todo"}}

MarkItem(b, i) ==
  /\ sub[b][i].pc = "todo" /\ Cardinality(Submitting(b)) < Concurrency
  /\ item' = [item EXCEPT ![b][i].status = "running"]
  /\ sub' = [sub EXCEPT ![b][i].pc = "resolve"]
  /\ UNCHANGED <<batch, usage, coord, status, counters>>

\* The network of the address is not found.
RejectItem(b, i) ==
  /\ sub[b][i].pc = "resolve"
  /\ item' = [item EXCEPT ![b][i].status = "failed"]
  /\ sub' = [sub EXCEPT ![b][i] = Gone]
  /\ UNCHANGED <<batch, usage, coord, status, counters>>

\* Two store calls: the job exists before the item refers to it.
SubmitItem(b, i) ==
  /\ sub[b][i].pc = "resolve"
  /\ \E j \in Jobs :
       /\ \A k \in Jobs : k < j => status[k] # "none"
       /\ SubmitJob(j)
       /\ sub' = [sub EXCEPT ![b][i] = [pc |-> "link", job |-> j]]
  /\ UNCHANGED <<batch, item, usage, coord, failures, repeats, crashes, late>>

LinkItem(b, i) ==
  /\ sub[b][i].pc = "link"
  /\ item' = [item EXCEPT ![b][i] = [status |-> "running", job |-> sub[b][i].job]]
  /\ sub' = [sub EXCEPT ![b][i] = Gone]
  /\ UNCHANGED <<batch, usage, coord, status, counters>>

Submitted(b) ==
  /\ coord[b] = "submit" /\ \A i \in Positions : sub[b][i] = Gone
  /\ coord' = [coord EXCEPT ![b] = "watch"]
  /\ UNCHANGED <<batch, item, usage, sub, status, counters>>

-----------------------------------------------------------------------------
(* _monitor_batch *)

\* Mutant: an item is completed as soon as its job is no longer pending.
OutcomeEarly(row) ==
  IF row.status # "running" \/ row.job = NoJob THEN row.status
  ELSE IF status[row.job] = "failed" THEN "failed"
  ELSE IF status[row.job] # "pending" THEN "completed" ELSE "running"

\* What one look at the child job makes of an item.
Outcome(row) ==
  IF row.status # "running" \/ row.job = NoJob THEN row.status
  ELSE IF status[row.job] \in Succeeded THEN "completed"
  ELSE IF status[row.job] = "failed" THEN "failed" ELSE "running"

\* remaining: the pass met an item with a job before it looked at the job.
Remaining(b) == \E i \in ItemsOf(b) : item[b][i].status = "running" /\ item[b][i].job # NoJob

\* One pass over the items.
Watch(b) ==
  /\ coord[b] = "watch"
  /\ item' = [item EXCEPT ![b] = [i \in Positions |->
               [item[b][i] EXCEPT !.status = Outcome(item[b][i])]]]
  /\ coord' = [coord EXCEPT ![b] = IF Remaining(b) THEN "more" ELSE "close"]
  /\ UNCHANGED <<batch, usage, sub, status, counters>>

Total(c) == c.queued + c.running + c.completed + c.failed
Verdict(c) ==
  IF c.failed = 0 /\ c.completed = Total(c) THEN "complete"
  ELSE IF c.completed > 0 THEN "partial" ELSE "failed"

\* Another pass is due only while the counts do not add up to the total.
Close(b) ==
  LET c == Counted(b)
      again == coord[b] = "more" /\ Total(c) < batch[b].total IN
  /\ coord[b] \in {"more", "close"}
  /\ batch' = [batch EXCEPT ![b].counts = c,
                            ![b].status = IF again THEN "running" ELSE Verdict(c)]
  /\ coord' = [coord EXCEPT ![b] = IF again THEN "watch" ELSE "tally"]
  /\ UNCHANGED <<item, usage, sub, status, counters>>

Tally(b) ==
  /\ coord[b] = "tally"
  /\ usage' = [usage EXCEPT !.completed = @ + batch[b].counts.completed,
                            !.failed = @ + batch[b].counts.failed]
  /\ coord' = [coord EXCEPT ![b] = "none"]
  /\ UNCHANGED <<batch, item, sub, status, counters>>

-----------------------------------------------------------------------------
(* Failures *)

MayFail == crashes + failures < MaxFailures
Failure == MayFail /\ failures' = failures + 1

\* The first update of an item raises; process_batch fails the item itself.
MarkFails(b, i) ==
  /\ Failure
  /\ sub[b][i].pc = "todo" /\ Cardinality(Submitting(b)) < Concurrency
  /\ item' = [item EXCEPT ![b][i].status = "failed"]
  /\ batch' = [batch EXCEPT ![b].counts.failed = CountOf(b, "failed") + 1]
  /\ sub' = [sub EXCEPT ![b][i] = Gone]
  /\ UNCHANGED <<usage, coord, status, repeats, crashes, late>>

\* The row of the job is stored, and submit() raises after it or the job's id
\* cannot be stored.
LinkFails(b, i) ==
  /\ Failure
  /\ sub[b][i].pc = "link"
  /\ item' = [item EXCEPT ![b][i].status = "failed"]
  /\ sub' = [sub EXCEPT ![b][i] = Gone]
  /\ UNCHANGED <<batch, usage, coord, status, repeats, crashes, late>>

\* A store call of the coordinator raises: it leaves _running, and that is all.
\* (Before it submits items, it may have marked the batch.)
CoordinatorFails(b) ==
  /\ Failure
  /\ coord[b] \notin {"none", "submit"} /\ (coord[b] = "waiting" => ThreadFree)
  /\ \/ UNCHANGED batch
     \/ coord[b] = "waiting" /\ batch' = [batch EXCEPT ![b].status = "running"]
  /\ coord' = [coord EXCEPT ![b] = "none"]
  /\ UNCHANGED <<item, usage, sub, status, repeats, crashes, late>>

\* Mutant: only the batches that ran are taken up.
CrashForgetsQueued ==
  /\ MayFail /\ crashes' = crashes + 1
  /\ coord' = [b \in BatchIds |-> IF batch[b].status = "running" THEN "waiting" ELSE "none"]
  /\ sub' = [b \in BatchIds |-> [i \in Positions |-> Gone]]
  /\ UNCHANGED <<batch, usage, status, item, repeats, failures, late>>

\* The process dies and starts again: _recover_active_batches takes up the
\* active batches and requeues the items that have no job.
Crash ==
  /\ MayFail /\ crashes' = crashes + 1
  /\ coord' = [b \in BatchIds |-> IF batch[b].status \in Active THEN "waiting" ELSE "none"]
  /\ item' = [b \in BatchIds |-> [i \in Positions |->
               IF batch[b].status \in Active /\ item[b][i] = [status |-> "running", job |-> NoJob]
               THEN [item[b][i] EXCEPT !.status = "queued"] ELSE item[b][i]]]
  /\ sub' = [b \in BatchIds |-> [i \in Positions |-> Gone]]
  /\ UNCHANGED <<batch, usage, status, repeats, failures, late>>

-----------------------------------------------------------------------------
Submitter(b, i) == MarkItem(b, i) \/ RejectItem(b, i) \/ SubmitItem(b, i) \/ LinkItem(b, i)
Coordinator(b) == Begin(b) \/ Submitted(b) \/ Watch(b) \/ Close(b) \/ Tally(b)

\* A job whose report was stored still becomes "failed" when that call raised.
JobsMove ==
  /\ \/ /\ \/ \E j \in Jobs : StartJob(j) \/ FinishJob(j)
           \/ \E S \in SUBSET Jobs : RequeueJobs(S)
        /\ UNCHANGED <<failures, late>>
     \/ /\ Failure
        /\ \E j \in Jobs : FailLate(j) /\ late' = late \cup {j}
  /\ UNCHANGED <<batch, item, usage, coord, sub, repeats, crashes>>

Next ==
  \/ \E key \in Keys \cup {NoKey}, n \in Sizes : RepeatBatch(key, n) \/ NewBatch(key, n)
  \/ \E b \in BatchIds : Coordinator(b) \/ CoordinatorFails(b)
  \/ \E b \in BatchIds, i \in Positions :
       Submitter(b, i) \/ MarkFails(b, i) \/ LinkFails(b, i)
  \/ JobsMove \/ Crash

Spec == Init /\ [][Next]_vars

\* The threads of the process run.  Nothing is asked of the jobs: no thread of a
\* batch waits for them.
FairSpec ==
  /\ Spec
  /\ \A b \in BatchIds : WF_vars(Coordinator(b))
  /\ \A b \in BatchIds, i \in Positions : WF_vars(Submitter(b, i))

-----------------------------------------------------------------------------
(* Properties *)

Reserved == MapThenSumSet(LAMBDA b : batch[b].total, BatchIds)

\* However requests and their repetitions interleave, the reserved scans are those
\* of the batches that exist, each counted once, within the monthly limit.
ReservedExactly == usage.reserved = Reserved /\ usage.reserved <= Quota

\* The job ended with a report, which may have turned into a failure since.
Reported(j) == status[j] \in Succeeded \/ j \in late

\* An item says 'completed' only if its own job ended with a report, and 'failed'
\* with a job only if that job failed; no job serves two items.
ItemsMatchJobs ==
  \A b \in BatchIds, i \in Positions :
    LET r == item[b][i] IN
    /\ r.status = "completed" => r.job # NoJob /\ Reported(r.job)
    /\ r.status = "failed" /\ r.job # NoJob => status[r.job] = "failed"
    /\ r.job # NoJob => \A c \in BatchIds, k \in Positions :
                          item[c][k].job = r.job => c = b /\ k = i

\* A batch that says 'complete' has no item that waits, runs or failed.
CompleteIsDone ==
  \A b \in BatchIds : batch[b].status = "complete" =>
    \A i \in ItemsOf(b) : item[b][i].status \notin {"queued", "running", "failed"}

\* Without a failure no scan runs for nothing: every job belongs to an item or is
\* about to be linked to one, however often the batch is posted again.
NoOrphanJobs ==
  crashes + failures > 0 \/ \A j \in Jobs : status[j] # "none" =>
    \E b \in BatchIds, i \in Positions : j \in {item[b][i].job, sub[b][i].job}

\* When nobody works on a closed batch, the counts its owner reads are those of its
\* items, also after the coordinator died between two writes.
CountsAgree ==
  \A b \in BatchIds :
    coord[b] = "none" /\ batch[b].status \in Closed => batch[b].counts = Counted(b)

\* What a batch calls finished is: 'completed' and 'failed' items and a 'complete' batch
\* say what their jobs did, the counts are those of the items, and every job is read
\* through one item, although the process dies between a submission and the write of
\* the job's id and the batch is taken up again.  The converse is not claimed and is
\* false: the monitor closes a batch on its first pass, and then items stay 'running',
\* and the batch 'failed' or 'partial', whatever their jobs still do (ClosedIsDone).
FinishedIsTrue == ItemsMatchJobs /\ CompleteIsDone /\ NoOrphanJobs /\ CountsAgree

\* An accepted batch is closed in the end, although the process dies, unless a
\* store call failed: that may end its coordinator.
BatchCloses ==
  \A b \in BatchIds :
    batch[b].status \in Active ~> batch[b].status \in Closed \/ failures > 0

\* A closed batch has no item that waits or runs (the end-to-end test asserts that
\* a batch whose scans succeed is 'complete' with all of them counted).
ClosedIsDone ==
  \A b \in BatchIds : batch[b].status \in Closed =>
    \A i \in ItemsOf(b) : item[b][i].status \notin {"queued", "running"}
==============================================================================

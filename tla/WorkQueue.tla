------------------------------ MODULE WorkQueue ------------------------------
(***************************************************************************)
(* The distributed queue (service/distributed.py): job records and a       *)
(* stream with one consumer group in Redis, the processes that create      *)
(* jobs, and the workers.                                                  *)
(*                                                                         *)
(* A worker claims a message that has been idle for claim_idle_ms, or else *)
(* reads a new one, runs the scan, writes the result and acknowledges.     *)
(* Every Redis command is one step; a record is changed by a GET and a SET *)
(* with nothing in between that would keep others out.                     *)
(***************************************************************************)
EXTENDS Naturals

CONSTANTS
  Jobs, Workers,
  NoJob,
  Reports,      \* statuses of a report
  MaxAttempts,
  MaxFailures   \* bound

ASSUME WorkQueueAssumption ==
  /\ NoJob \notin Jobs
  /\ Reports \cap {"none", "pending", "running", "pending_retry", "failed"} = {}
  /\ MaxAttempts \in Nat \ {0}
  /\ MaxFailures \in Nat

VARIABLES
  record,   \* smartrisk:job:<id>
  message,  \* the stream entry of a job
  idle,     \* jobs whose message was delivered claim_idle_ms ago
  producer, \* where the call of create for a job is
  worker,   \* worker -> what it has in hand
  failures, \* deaths of processes, failed commands and overlong scans so far
  spoiled   \* history: what went wrong with a job that the queue does not mend

vars == <<record, message, idle, producer, worker, failures, spoiled>>

\* "overrun": a scan of it took longer than claim_idle_ms;
\* "overtaken": create wrote the record again after a worker had changed it;
\* "unanswered": XACK was carried out and raised, its reply being lost.
Spoils == {"overrun", "overtaken", "unanswered"}

Final == Reports \cup {"failed"}
Records == [status : {"none", "pending", "running", "pending_retry"} \cup Final, attempts : Nat]

\* copy: the record as the worker read it; tries: its attempts when the scan began;
\* out: the status to be stored.
WorkerStates ==
  [pc : {"idle", "get", "mark", "scan", "load", "save", "ack"}, job : Jobs \cup {NoJob},
   copy : Records, tries : Nat, out : Final \cup {"none", "pending_retry"}]

NoRecord == [status |-> "none", attempts |-> 0]
Waiting == [pc |-> "idle", job |-> NoJob, copy |-> NoRecord, tries |-> 0, out |-> "none"]

TypeOK ==
  /\ record \in [Jobs -> Records]
  /\ message \in [Jobs -> {"none", "new", "delivered", "acked"}]
  /\ idle \subseteq Jobs
  /\ producer \in [Jobs -> {"none", "add", "again", "done", "dead"}]
  /\ worker \in [Workers -> WorkerStates]
  /\ failures \in Nat
  /\ spoiled \in [Jobs -> SUBSET Spoils]

Init ==
  /\ record = [j \in Jobs |-> NoRecord]
  /\ message = [j \in Jobs |-> "none"]
  /\ idle = {}
  /\ producer = [j \in Jobs |-> "none"]
  /\ worker = [w \in Workers |-> Waiting]
  /\ failures = 0
  /\ spoiled = [j \in Jobs |-> {}]

Unspoiled(j, S) == spoiled[j] \cap S = {}
Spoil(j, what) == spoiled' = [spoiled EXCEPT ![j] = @ \cup what]

-----------------------------------------------------------------------------
(* create *)

Fresh == [status |-> "pending", attempts |-> 0]

Produce(j, from, to) ==
  /\ producer[j] = from /\ producer' = [producer EXCEPT ![j] = to]
  /\ UNCHANGED <<idle, worker, failures>>

CreateRecord(j) ==
  /\ Produce(j, "none", "add")
  /\ record' = [record EXCEPT ![j] = Fresh]
  /\ UNCHANGED <<message, spoiled>>

AddMessage(j) ==
  /\ Produce(j, "add", "again")
  /\ message' = [message EXCEPT ![j] = "new"]
  /\ UNCHANGED <<record, spoiled>>

\* The record is written again, for its stream_id, as it was at the beginning; a
\* worker may have received the message since it was added.
CreateAgain(j) ==
  /\ Produce(j, "again", "done")
  /\ record' = [record EXCEPT ![j] = Fresh]
  /\ Spoil(j, IF record[j] = Fresh THEN {} ELSE {"overtaken"})
  /\ UNCHANGED message

-----------------------------------------------------------------------------
(* consume *)

HasJob(w) == worker[w].pc # "idle"
WorkedOn(j) == \E w \in Workers : HasJob(w) /\ worker[w].job = j

Receive(w, j) ==
  /\ worker[w].pc = "idle"
  /\ worker' = [worker EXCEPT ![w] = [Waiting EXCEPT !.pc = "get", !.job = j]]
  /\ UNCHANGED <<record, producer, failures>>

\* Mutant: jobs that wait for a retry are left to their worker.
ClaimUnlessRetry(w, j) ==
  /\ j \in idle /\ message[j] = "delivered" /\ record[j].status # "pending_retry"
  /\ Receive(w, j)
  /\ idle' = idle \ {j} /\ UNCHANGED <<message, spoiled>>

\* XAUTOCLAIM
Claim(w, j) ==
  /\ j \in idle /\ message[j] = "delivered"
  /\ Receive(w, j)
  /\ idle' = idle \ {j} /\ UNCHANGED <<message, spoiled>>

\* XREADGROUP; a message may have become idle since the worker asked for those.
Read(w, j) ==
  /\ message[j] = "new"
  /\ Receive(w, j)
  /\ message' = [message EXCEPT ![j] = "delivered"] /\ UNCHANGED <<idle, spoiled>>

\* The message was delivered claim_idle_ms ago.
Age(j) ==
  /\ message[j] = "delivered" /\ j \notin idle /\ ~WorkedOn(j)
  /\ idle' = idle \cup {j}
  /\ UNCHANGED <<record, message, producer, worker, failures, spoiled>>

-----------------------------------------------------------------------------
(* process_message *)

\* The step of worker w from one place to the next, with the other fields of its row.
Goes(w, from, row) ==
  /\ worker[w].pc = from /\ worker' = [worker EXCEPT ![w] = row]
  /\ UNCHANGED <<idle, producer, failures, spoiled>>

\* mark_running: GET, SET.  The status is not looked at.
MarkGet(w) ==
  /\ Goes(w, "get", [worker[w] EXCEPT !.pc = "mark", !.copy = record[worker[w].job]])
  /\ UNCHANGED <<record, message>>

MarkSet(w) ==
  LET n == worker[w].copy.attempts + 1 IN
  /\ Goes(w, "mark", [worker[w] EXCEPT !.pc = "scan", !.tries = n])
  /\ record' = [record EXCEPT ![worker[w].job] = [status |-> "running", attempts |-> n]]
  /\ UNCHANGED message

\* What an exception makes of the job.
AfterException(tries) == IF tries >= MaxAttempts THEN "failed" ELSE "pending_retry"

\* The scan returns a report, or it raises: an engine error, or an isolated child
\* that failed, died or did not answer in time.
Scan(w) ==
  /\ \E s \in Reports \cup {AfterException(worker[w].tries)} :
       Goes(w, "scan", [worker[w] EXCEPT !.pc = "load", !.out = s])
  /\ UNCHANGED <<record, message>>

\* update: GET, SET.
Load(w) ==
  /\ Goes(w, "load", [worker[w] EXCEPT !.pc = "save", !.copy = record[worker[w].job]])
  /\ UNCHANGED <<record, message>>

\* Mutant: a retry is acknowledged too.
SaveAndAck(w) ==
  LET row == worker[w] IN
  /\ Goes(w, "save", [row EXCEPT !.pc = "ack"])
  /\ record' = [record EXCEPT ![row.job] = [row.copy EXCEPT !.status = row.out]]
  /\ UNCHANGED message

Save(w) ==
  LET row == worker[w] IN
  /\ Goes(w, "save", IF row.out = "pending_retry" THEN Waiting ELSE [row EXCEPT !.pc = "ack"])
  /\ record' = [record EXCEPT ![row.job] = [row.copy EXCEPT !.status = row.out]]
  /\ UNCHANGED message

Ack(w) ==
  /\ worker[w].pc = "ack" /\ worker' = [worker EXCEPT ![w] = Waiting]
  /\ message' = [message EXCEPT ![worker[w].job] = "acked"]
  /\ idle' = idle \ {worker[w].job}
  /\ UNCHANGED <<record, producer, failures, spoiled>>

-----------------------------------------------------------------------------
(* Failures *)

Failure == failures < MaxFailures /\ failures' = failures + 1

\* The same while its worker is still at work.
Overrun(j) ==
  /\ Failure
  /\ message[j] = "delivered" /\ j \notin idle /\ WorkedOn(j)
  /\ idle' = idle \cup {j}
  /\ Spoil(j, {"overrun"})
  /\ UNCHANGED <<record, message, producer, worker>>

\* Storing a report, or acknowledging it, raises: the job is handled like a scan
\* that failed, whatever was stored.
StoreFails(w) ==
  LET row == worker[w] IN
  /\ Failure
  /\ row.pc \in {"load", "save", "ack"} /\ row.out \in Reports
  /\ worker' = [worker EXCEPT ![w] = [row EXCEPT !.pc = "load", !.out = AfterException(row.tries)]]
  /\ \/ UNCHANGED <<message, idle, spoiled>>
     \/ /\ row.pc = "ack"
        /\ message' = [message EXCEPT ![row.job] = "acked"]
        /\ idle' = idle \ {row.job}
        /\ Spoil(row.job, {"unanswered"})
  /\ UNCHANGED <<record, producer>>

\* The process dies, or a command raises outside of the scan's exception handler,
\* which ends it; a new process has another consumer name.
WorkerDies(w) ==
  /\ Failure
  /\ HasJob(w)
  /\ worker' = [worker EXCEPT ![w] = Waiting]
  /\ UNCHANGED <<record, message, idle, producer, spoiled>>

ProducerDies(j) ==
  /\ Failure
  /\ producer[j] \in {"add", "again"}
  /\ producer' = [producer EXCEPT ![j] = "dead"]
  /\ UNCHANGED <<record, message, idle, worker, spoiled>>

-----------------------------------------------------------------------------
Create(j) == CreateRecord(j) \/ AddMessage(j) \/ CreateAgain(j)

Work(w) ==
  \/ \E j \in Jobs : Claim(w, j) \/ Read(w, j)
  \/ MarkGet(w) \/ MarkSet(w) \/ Scan(w) \/ Load(w) \/ Save(w) \/ Ack(w)

Next ==
  \/ \E j \in Jobs : Create(j) \/ Age(j) \/ Overrun(j) \/ ProducerDies(j)
  \/ \E w \in Workers : Work(w) \/ StoreFails(w) \/ WorkerDies(w)

Spec == Init /\ [][Next]_vars

\* Workers loop for ever and are restarted; a call of create that began goes on;
\* time passes.
FairSpec ==
  /\ Spec
  /\ \A w \in Workers : WF_vars(Work(w))
  /\ \A j \in Jobs : WF_vars(AddMessage(j)) /\ WF_vars(CreateAgain(j)) /\ WF_vars(Age(j))

-----------------------------------------------------------------------------
(* Properties *)

\* Although messages are delivered again after a death or for a retry, no two
\* workers have one job in hand, unless a scan of it outlived claim_idle_ms.
OneWorker ==
  \A v, w \in Workers :
    HasJob(v) /\ HasJob(w) /\ worker[v].job = worker[w].job
    /\ Unspoiled(worker[v].job, {"overrun"}) => v = w

\* A job whose message is acknowledged, so that nobody will run it again, has a final
\* status (test_distributed.py asserts 'complete' together with the acknowledgement).
AckedIsFinal ==
  \A j \in Jobs : message[j] = "acked" /\ Unspoiled(j, Spoils) => record[j].status \in Final

\* A job is given up after max_attempts runs and not before, however its runs were
\* spread over workers, and though the reply to an acknowledgement may get lost.
FailedIsExhausted ==
  \A j \in Jobs : record[j].status = "failed" /\ Unspoiled(j, {"overrun", "overtaken"}) =>
    record[j].attempts >= MaxAttempts

\* A job is run more often than max_attempts only if a process died or a command failed.
AttemptsBounded ==
  \A j \in Jobs : Unspoiled(j, {"overrun"}) => record[j].attempts <= MaxAttempts + failures

\* What deliveries repeated after deaths and failed commands must not spoil: one
\* worker per job, no result lost behind an acknowledgement, and a job given up
\* after max_attempts runs, not before, and not run for ever.  What the code does not
\* prevent excepts the job it happened to, from the claims it breaks and no others.
JobsAreSafe == OneWorker /\ AckedIsFinal /\ FailedIsExhausted /\ AttemptsBounded

\* Written, but never put into the stream.
Orphaned(j) == producer[j] = "dead" /\ message[j] = "none"

\* Every job created is run to a final status and acknowledged, although workers die
\* and commands fail, unless its producer died before it sent the message or one of
\* the three things happened to it that the queue does not mend.
JobsEnd ==
  \A j \in Jobs : record[j].status # "none" ~>
    (message[j] = "acked" /\ record[j].status \in Final) \/ Orphaned(j) \/ ~Unspoiled(j, Spoils)
==============================================================================

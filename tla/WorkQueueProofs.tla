--------------------------- MODULE WorkQueueProofs ---------------------------
(***************************************************************************)
(* Proofs about WorkQueue, for any numbers of jobs, workers, attempts and  *)
(* failures: its types, that one worker at a time has a job in hand, and   *)
(* that no job is lost behind an acknowledgement, given up early or run    *)
(* for ever.                                                               *)
(***************************************************************************)
EXTENDS WorkQueue, TLAPS

Sent(j) == message[j] \in {"delivered", "acked"}

\* What has not happened to a job.
Punctual(j) == Unspoiled(j, {"overrun"})
Kept(j) == Unspoiled(j, {"overrun", "overtaken"})
Clean(j) == Unspoiled(j, Spoils)

\* A job in hand has been delivered and cannot be claimed while scans are punctual.
Held(w) ==
  HasJob(w) => /\ worker[w].job \in Jobs /\ Sent(worker[w].job)
               /\ Punctual(worker[w].job) => worker[w].job \notin idle

\* What is not in the stream yet is nobody's, and what is acknowledged is nobody's again.
UnsentInv ==
  \A j \in Jobs : /\ producer[j] \in {"none", "add"} => message[j] = "none"
                  /\ j \in idle => message[j] = "delivered"

HoldInv == TypeOK /\ OneWorker /\ UnsentInv /\ \A w \in Workers : Held(w)

Busy == {"scan", "load", "save", "ack"}
BusyOn(w, j) == worker[w].pc \in Busy /\ worker[w].job = j

\* What worker w, with job j in hand, knows of its record: its own attempt was counted
\* last, or the count began again since.
WorkerKnows(w, j) ==
  LET row == worker[w] IN
  row.pc # "idle" /\ row.job = j /\ Punctual(j) =>
    /\ row.pc \in {"get", "mark"} \/ Clean(j) => message[j] = "delivered"
    /\ row.pc = "mark" => row.copy.attempts < MaxAttempts + failures
    /\ row.pc \in Busy => record[j].attempts <= row.tries /\ row.tries <= MaxAttempts + failures
    /\ row.pc = "save" => row.copy.attempts <= row.tries
    /\ row.pc \in {"load", "save"} => row.out \in Reports \cup {AfterException(row.tries)}
    /\ row.pc = "ack" => row.out \in Final
    /\ Kept(j) => /\ row.pc \in {"mark", "save"} => row.copy = record[j]
                  /\ row.pc \in Busy => record[j].attempts = row.tries
                  /\ row.pc = "ack" => record[j].status = row.out

\* Stream and record of a job agree; its attempts have been used up only if one is
\* being made or a failure has cost one.
JobInv(j) ==
  /\ message[j] \in {"none", "new"} => record[j] \in {NoRecord, Fresh}
  /\ Clean(j) /\ message[j] = "acked" => record[j].status \in Final
  /\ Kept(j) /\ record[j].status = "failed" => record[j].attempts >= MaxAttempts
  /\ Punctual(j) => record[j].attempts <= MaxAttempts + failures
  /\ Punctual(j) /\ message[j] = "delivered" =>
       record[j].attempts < MaxAttempts + failures \/ \E w \in Workers : BusyOn(w, j)

IInv == HoldInv /\ (\A w \in Workers, j \in Jobs : WorkerKnows(w, j)) /\ \A j \in Jobs : JobInv(j)

-----------------------------------------------------------------------------
(* Rows *)

Pcs == {"idle", "get", "mark", "scan", "load", "save", "ack"}
Outs == Final \cup {"none", "pending_retry"}

Row(pc, job, copy, tries, out) ==
  [pc |-> pc, job |-> job, copy |-> copy, tries |-> tries, out |-> out]

LEMMA RowFields ==
  ASSUME NEW pc \in Pcs, NEW job \in Jobs \cup {NoJob}, NEW copy \in Records, NEW tries \in Nat, NEW out \in Outs
  PROVE  /\ Row(pc, job, copy, tries, out) \in WorkerStates
         /\ Row(pc, job, copy, tries, out).pc = pc /\ Row(pc, job, copy, tries, out).job = job
         /\ Row(pc, job, copy, tries, out).copy = copy /\ Row(pc, job, copy, tries, out).tries = tries
         /\ Row(pc, job, copy, tries, out).out = out
BY DEF WorkerStates, Row, Pcs, Outs

LEMMA WorkerFields ==
  ASSUME NEW r \in WorkerStates
  PROVE  /\ r.pc \in Pcs /\ r.job \in Jobs \cup {NoJob} /\ r.copy \in Records /\ r.tries \in Nat /\ r.out \in Outs
         /\ r = Row(r.pc, r.job, r.copy, r.tries, r.out)
BY DEF WorkerStates, Row, Pcs, Outs

\* A worker's row after a change, field by field.
SetPc(r, v) == [r EXCEPT !.pc = v]
SetJob(r, v) == [r EXCEPT !.job = v]
SetCopy(r, v) == [r EXCEPT !.copy = v]
SetTries(r, v) == [r EXCEPT !.tries = v]
SetOut(r, v) == [r EXCEPT !.out = v]

LEMMA RowChanges ==
  ASSUME NEW pc, NEW job, NEW copy, NEW tries, NEW out, NEW v
  PROVE  /\ SetPc(Row(pc, job, copy, tries, out), v) = Row(v, job, copy, tries, out)
         /\ SetJob(Row(pc, job, copy, tries, out), v) = Row(pc, v, copy, tries, out)
         /\ SetCopy(Row(pc, job, copy, tries, out), v) = Row(pc, job, v, tries, out)
         /\ SetTries(Row(pc, job, copy, tries, out), v) = Row(pc, job, copy, v, out)
         /\ SetOut(Row(pc, job, copy, tries, out), v) = Row(pc, job, copy, tries, v)
BY DEF Row, SetPc, SetJob, SetCopy, SetTries, SetOut

LEMMA RecordRows ==
  /\ NoRecord \in Records /\ Fresh \in Records
  /\ \A n \in Nat : /\ [status |-> "running", attempts |-> n] \in Records
                    /\ [status |-> "running", attempts |-> n].status = "running"
                    /\ [status |-> "running", attempts |-> n].attempts = n
  /\ NoRecord.status = "none" /\ NoRecord.attempts = 0
  /\ Fresh.status = "pending" /\ Fresh.attempts = 0
BY DEF NoRecord, Fresh, Records, Final

SetStatus(x, v) == [x EXCEPT !.status = v]

LEMMA StatusRow ==
  ASSUME NEW x \in Records, NEW out \in Outs
  PROVE  SetStatus(x, out) \in Records /\ SetStatus(x, out).status = out /\ SetStatus(x, out).attempts = x.attempts
BY DEF Records, Outs, SetStatus

LEMMA WaitingRow ==
  /\ Waiting \in WorkerStates /\ Waiting.pc = "idle" /\ NoJob \in Jobs \cup {NoJob}
  /\ Waiting = Row("idle", NoJob, NoRecord, 0, "none")
<1>1. Waiting = Row("idle", NoJob, NoRecord, 0, "none")
  BY DEF Waiting, Row
<1>2. "idle" \in Pcs /\ NoRecord \in Records /\ 0 \in Nat /\ "none" \in Outs /\ NoJob \in Jobs \cup {NoJob}
  BY RecordRows DEF Pcs, Outs
<1>. QED
  BY <1>1, <1>2, RowFields

\* Worker w, and no other, gets the row.
Becomes(w, pc, job, copy, tries, out) ==
  /\ worker' \in [Workers -> WorkerStates]
  /\ \A v \in Workers \ {w} : worker'[v] = worker[v]
  /\ worker'[w].pc = pc /\ worker'[w].job = job /\ worker'[w].copy = copy
  /\ worker'[w].tries = tries /\ worker'[w].out = out

LEMMA RowBecomes ==
  ASSUME TypeOK, NEW w \in Workers, NEW pc \in Pcs, NEW job \in Jobs \cup {NoJob}, NEW copy \in Records,
         NEW tries \in Nat, NEW out \in Outs, worker' = [worker EXCEPT ![w] = Row(pc, job, copy, tries, out)]
  PROVE  Becomes(w, pc, job, copy, tries, out)
<1>1. PICK r \in WorkerStates : /\ r = Row(pc, job, copy, tries, out)
                                /\ r.pc = pc /\ r.job = job /\ r.copy = copy /\ r.tries = tries /\ r.out = out
  BY RowFields
<1>. QED
  BY <1>1 DEF Becomes, TypeOK

LEMMA WaitingBecomes ==
  ASSUME TypeOK, NEW w \in Workers, worker' = [worker EXCEPT ![w] = Waiting]
  PROVE  Becomes(w, "idle", NoJob, NoRecord, 0, "none")
<1>1. "idle" \in Pcs /\ NoRecord \in Records /\ 0 \in Nat /\ "none" \in Outs /\ NoJob \in Jobs \cup {NoJob}
  BY RecordRows DEF Pcs, Outs
<1>. QED
  BY <1>1, WaitingRow, RowBecomes

LEMMA OwnRow ==
  ASSUME TypeOK, NEW w \in Workers
  PROVE  LET c == worker[w] IN
         /\ c \in WorkerStates /\ c.pc \in Pcs /\ c.job \in Jobs \cup {NoJob} /\ c.copy \in Records
         /\ c.tries \in Nat /\ c.out \in Outs
         /\ c = Row(c.pc, c.job, c.copy, c.tries, c.out)
BY WorkerFields DEF TypeOK

LEMMA ReceiveEffect ==
  ASSUME TypeOK, NEW w \in Workers, NEW j \in Jobs, Receive(w, j)
  PROVE  Becomes(w, "get", j, NoRecord, 0, "none")
<1>1. worker' = [worker EXCEPT ![w] = SetJob(SetPc(Waiting, "get"), j)]
  BY DEF Receive, SetJob, SetPc
<1>2. SetJob(SetPc(Waiting, "get"), j) = Row("get", j, NoRecord, 0, "none")
  BY WaitingRow, RowChanges
<1>3. "get" \in Pcs /\ NoRecord \in Records /\ 0 \in Nat /\ "none" \in Outs /\ j \in Jobs \cup {NoJob}
  BY RecordRows DEF Pcs, Outs
<1>. QED
  BY <1>1, <1>2, <1>3, RowBecomes

\* The steps with a job in hand, field by field.
LEMMA MarkGetEffect ==
  ASSUME TypeOK, NEW w \in Workers, worker[w].job \in Jobs, MarkGet(w)
  PROVE  Becomes(w, "mark", worker[w].job, record[worker[w].job], worker[w].tries, worker[w].out)
<1>. DEFINE c == worker[w]
<1>1. worker' = [worker EXCEPT ![w] = SetCopy(SetPc(c, "mark"), record[c.job])]
  BY DEF MarkGet, Goes, SetCopy, SetPc
<1>2. SetCopy(SetPc(c, "mark"), record[c.job]) = Row("mark", c.job, record[c.job], c.tries, c.out)
  BY OwnRow, RowChanges
<1>3. "mark" \in Pcs /\ record[c.job] \in Records
  BY DEF Pcs, TypeOK
<1>. QED
  BY <1>1, <1>2, <1>3, OwnRow, RowBecomes

LEMMA MarkSetEffect ==
  ASSUME TypeOK, NEW w \in Workers, worker[w].job \in Jobs, MarkSet(w)
  PROVE  LET n == worker[w].copy.attempts + 1 IN
         /\ Becomes(w, "scan", worker[w].job, worker[w].copy, n, worker[w].out) /\ n \in Nat
         /\ record' = [record EXCEPT ![worker[w].job] = [status |-> "running", attempts |-> n]]
         /\ record' \in [Jobs -> Records]
<1>. DEFINE c == worker[w]  n == c.copy.attempts + 1
<1>1. /\ worker' = [worker EXCEPT ![w] = SetTries(SetPc(c, "scan"), n)]
      /\ record' = [record EXCEPT ![c.job] = [status |-> "running", attempts |-> n]]
  BY DEF MarkSet, Goes, SetTries, SetPc
<1>2. SetTries(SetPc(c, "scan"), n) = Row("scan", c.job, c.copy, n, c.out)
  BY OwnRow, RowChanges
<1>3. c.copy \in Records
  BY OwnRow
<1>4. "scan" \in Pcs /\ n \in Nat
  BY <1>3 DEF Pcs, Records
<1>5. record' \in [Jobs -> Records]
  BY <1>1, <1>4, RecordRows DEF TypeOK
<1>. QED
  BY <1>1, <1>2, <1>4, <1>5, OwnRow, RowBecomes

LEMMA ScanEffect ==
  ASSUME TypeOK, NEW w \in Workers, Scan(w)
  PROVE  \E s \in Reports \cup {AfterException(worker[w].tries)} :
           Becomes(w, "load", worker[w].job, worker[w].copy, worker[w].tries, s)
<1>. DEFINE c == worker[w]
<1>1. PICK s \in Reports \cup {AfterException(c.tries)} : worker' = [worker EXCEPT ![w] = SetOut(SetPc(c, "load"), s)]
  BY DEF Scan, Goes, SetOut, SetPc
<1>2. SetOut(SetPc(c, "load"), s) = Row("load", c.job, c.copy, c.tries, s)
  BY OwnRow, RowChanges
<1>3. "load" \in Pcs /\ s \in Outs
  BY DEF Pcs, Outs, Final, AfterException
<1>. QED
  BY <1>1, <1>2, <1>3, OwnRow, RowBecomes

LEMMA LoadEffect ==
  ASSUME TypeOK, NEW w \in Workers, worker[w].job \in Jobs, Load(w)
  PROVE  Becomes(w, "save", worker[w].job, record[worker[w].job], worker[w].tries, worker[w].out)
<1>. DEFINE c == worker[w]
<1>1. worker' = [worker EXCEPT ![w] = SetCopy(SetPc(c, "save"), record[c.job])]
  BY DEF Load, Goes, SetCopy, SetPc
<1>2. SetCopy(SetPc(c, "save"), record[c.job]) = Row("save", c.job, record[c.job], c.tries, c.out)
  BY OwnRow, RowChanges
<1>3. "save" \in Pcs /\ record[c.job] \in Records
  BY DEF Pcs, TypeOK
<1>. QED
  BY <1>1, <1>2, <1>3, OwnRow, RowBecomes

LEMMA SaveEffect ==
  ASSUME TypeOK, NEW w \in Workers, worker[w].job \in Jobs, Save(w)
  PROVE  LET c == worker[w] IN
         /\ IF c.out = "pending_retry" THEN Becomes(w, "idle", NoJob, NoRecord, 0, "none")
            ELSE Becomes(w, "ack", c.job, c.copy, c.tries, c.out)
         /\ record' = [record EXCEPT ![c.job] = SetStatus(c.copy, c.out)]
         /\ record' \in [Jobs -> Records]
<1>. DEFINE c == worker[w]
<1>1. record' = [record EXCEPT ![c.job] = SetStatus(c.copy, c.out)]
  BY DEF Save, SetStatus
<1>2. record' \in [Jobs -> Records]
  BY <1>1, OwnRow, StatusRow DEF TypeOK
<1>3. CASE c.out = "pending_retry"
  <2>1. worker' = [worker EXCEPT ![w] = Waiting]
    BY <1>3 DEF Save, Goes
  <2>. QED
    BY <1>1, <1>2, <1>3, <2>1, WaitingBecomes
<1>4. CASE c.out # "pending_retry"
  <2>1. worker' = [worker EXCEPT ![w] = SetPc(c, "ack")]
    BY <1>4 DEF Save, Goes, SetPc
  <2>2. SetPc(c, "ack") = Row("ack", c.job, c.copy, c.tries, c.out) /\ "ack" \in Pcs
    BY OwnRow, RowChanges DEF Pcs
  <2>3. Becomes(w, "ack", c.job, c.copy, c.tries, c.out)
    BY <2>1, <2>2, OwnRow, RowBecomes
  <2>. QED
    BY <1>1, <1>2, <1>4, <2>3
<1>. QED
  BY <1>3, <1>4

LEMMA StoreFailsEffect ==
  ASSUME TypeOK, NEW w \in Workers, StoreFails(w)
  PROVE  Becomes(w, "load", worker[w].job, worker[w].copy, worker[w].tries, AfterException(worker[w].tries))
<1>. DEFINE c == worker[w]  s == AfterException(c.tries)
<1>1. worker' = [worker EXCEPT ![w] = SetOut(SetPc(c, "load"), s)]
  BY DEF StoreFails, SetOut, SetPc
<1>2. SetOut(SetPc(c, "load"), s) = Row("load", c.job, c.copy, c.tries, s)
  BY OwnRow, RowChanges
<1>3. "load" \in Pcs /\ s \in Outs
  BY DEF Pcs, Outs, Final, AfterException
<1>. QED
  BY <1>1, <1>2, <1>3, OwnRow, RowBecomes

\* What happened to a job does not unhappen.
Fades ==
  /\ spoiled' \in [Jobs -> SUBSET Spoils]
  /\ \A k \in Jobs : (Punctual(k)' => Punctual(k)) /\ (Kept(k)' => Kept(k)) /\ (Clean(k)' => Clean(k))

LEMMA Kinds ==
  ASSUME NEW j
  PROVE  (Clean(j) => Kept(j)) /\ (Kept(j) => Punctual(j))
BY DEF Clean, Kept, Punctual, Unspoiled, Spoils

LEMMA SpoilFades ==
  ASSUME TypeOK, NEW j, NEW what \in SUBSET Spoils, Spoil(j, what)
  PROVE  Fades
<1>1. spoiled \in [Jobs -> SUBSET Spoils] /\ spoiled' = [spoiled EXCEPT ![j] = spoiled[j] \cup what]
  BY DEF TypeOK, Spoil
<1>2. spoiled' \in [Jobs -> SUBSET Spoils]
  BY <1>1
<1>3. \A k \in Jobs : spoiled[k] \subseteq spoiled'[k]
  BY <1>1
<1>. QED
  BY <1>2, <1>3 DEF Fades, Punctual, Kept, Clean, Unspoiled

LEMMA HistoryStep ==
  ASSUME TypeOK, [Next]_vars
  PROVE  Fades
<1>1. ASSUME UNCHANGED spoiled  PROVE Fades
  BY <1>1 DEF TypeOK, Fades, Punctual, Kept, Clean, Unspoiled
<1>2. {} \in SUBSET Spoils /\ {"overtaken"} \in SUBSET Spoils /\ {"overrun"} \in SUBSET Spoils
      /\ {"unanswered"} \in SUBSET Spoils
  BY DEF Spoils
<1>3. ASSUME NEW j \in Jobs, Create(j) \/ Age(j) \/ Overrun(j) \/ ProducerDies(j)  PROVE Fades
  <2>1. CASE CreateAgain(j)
    BY <1>2, <2>1, SpoilFades DEF CreateAgain
  <2>2. CASE Overrun(j)
    BY <1>2, <2>2, SpoilFades DEF Overrun
  <2>. QED
    BY <1>1, <1>3, <2>1, <2>2 DEF Create, CreateRecord, AddMessage, Age, ProducerDies
<1>4. ASSUME NEW w \in Workers, Work(w) \/ StoreFails(w) \/ WorkerDies(w)  PROVE Fades
  <2>1. CASE StoreFails(w)
    BY <1>1, <1>2, <2>1, SpoilFades DEF StoreFails
  <2>. QED
    BY <1>1, <1>4, <2>1 DEF Work, Claim, Read, MarkGet, MarkSet, Scan, Load, Save, Ack, Goes, WorkerDies
<1>. QED
  BY <1>1, <1>3, <1>4 DEF Next, vars

\* The types of the steps, without the rest of the invariant.
TypeInv == TypeOK /\ \A w \in Workers : HasJob(w) => worker[w].job \in Jobs

LEMMA TypeStep ==
  ASSUME TypeInv, [Next]_vars
  PROVE  TypeInv'
<1>0. TypeOK /\ spoiled' \in [Jobs -> SUBSET Spoils]
  BY HistoryStep DEF TypeInv, Fades
<1>1. ASSUME NEW j \in Jobs, Create(j) \/ Age(j) \/ Overrun(j) \/ ProducerDies(j)  PROVE TypeInv'
  <2>1. worker' = worker /\ failures' \in Nat /\ idle' \subseteq Jobs /\ record' \in [Jobs -> Records]
    BY <1>0, <1>1, RecordRows
    DEF TypeOK, Create, CreateRecord, AddMessage, CreateAgain, Produce, Age, Overrun, ProducerDies, Failure
  <2>2. /\ message' \in [Jobs -> {"none", "new", "delivered", "acked"}]
        /\ producer' \in [Jobs -> {"none", "add", "again", "done", "dead"}]
    BY <1>0, <1>1 DEF TypeOK, Create, CreateRecord, AddMessage, CreateAgain, Produce, Age, Overrun, ProducerDies
  <2>. QED
    BY <1>0, <2>1, <2>2 DEF TypeInv, TypeOK, HasJob
<1>2. ASSUME NEW w \in Workers, Work(w) \/ StoreFails(w) \/ WorkerDies(w)  PROVE TypeInv'
  <2>1. /\ producer' = producer /\ failures' \in Nat /\ idle' \subseteq Jobs
        /\ message' \in [Jobs -> {"none", "new", "delivered", "acked"}]
    <3>1. CASE StoreFails(w) \/ WorkerDies(w)
      BY <1>0, <3>1 DEF StoreFails, WorkerDies, Failure, TypeOK
    <3>2. CASE Ack(w) \/ \E j \in Jobs : Claim(w, j) \/ Read(w, j)
      BY <1>0, <3>2 DEF Ack, Claim, Read, Receive, TypeOK
    <3>3. CASE MarkGet(w) \/ MarkSet(w) \/ Load(w) \/ Scan(w) \/ Save(w)
      <4>1. UNCHANGED <<message, idle, producer, failures>>
        BY <3>3 DEF MarkGet, MarkSet, Scan, Load, Save, Goes
      <4>. QED
        BY <1>0, <4>1 DEF TypeOK
    <3>. QED
      BY <1>2, <3>1, <3>2, <3>3 DEF Work
  <2>2. ASSUME NEW pc, NEW job, NEW copy, NEW tries, NEW out, Becomes(w, pc, job, copy, tries, out),
               pc # "idle" => job \in Jobs, record' \in [Jobs -> Records]
        PROVE  TypeInv'
    <3>1. TypeOK'
      BY <1>0, <2>1, <2>2 DEF TypeOK, Becomes
    <3>. QED
      BY <1>0, <2>2, <3>1 DEF TypeInv, Becomes, HasJob
  <2>3. ASSUME UNCHANGED record  PROVE record' \in [Jobs -> Records]
    BY <1>0, <2>3 DEF TypeOK
  <2>4. ASSUME NEW j \in Jobs, Claim(w, j) \/ Read(w, j)  PROVE TypeInv'
    <3>1. Receive(w, j) /\ UNCHANGED record
      BY <2>4 DEF Claim, Read, Receive
    <3>. QED
      BY <1>0, <2>2, <2>3, <3>1, ReceiveEffect
  <2>5. worker[w].pc # "idle" => worker[w].job \in Jobs
    BY DEF TypeInv, HasJob
  <2>6. CASE MarkGet(w) \/ Load(w)
    <3>1. worker[w].job \in Jobs /\ UNCHANGED record
      BY <2>5, <2>6 DEF MarkGet, Load, Goes
    <3>. QED
      BY <1>0, <2>2, <2>3, <2>6, <3>1, MarkGetEffect, LoadEffect
  <2>7. CASE Scan(w) \/ StoreFails(w)
    <3>1. worker[w].job \in Jobs /\ UNCHANGED record
      BY <2>5, <2>7 DEF Scan, StoreFails, Goes
    <3>. QED
      BY <1>0, <2>2, <2>3, <2>7, <3>1, ScanEffect, StoreFailsEffect
  <2>8. CASE MarkSet(w)
    <3>1. worker[w].job \in Jobs
      BY <2>5, <2>8 DEF MarkSet, Goes
    <3>. QED
      BY <1>0, <2>2, <2>8, <3>1, MarkSetEffect
  <2>9. CASE Save(w)
    <3>1. worker[w].job \in Jobs
      BY <2>5, <2>9 DEF Save, Goes
    <3>. QED
      BY <1>0, <2>2, <2>9, <3>1, SaveEffect
  <2>10. CASE Ack(w) \/ WorkerDies(w)
    <3>1. worker' = [worker EXCEPT ![w] = Waiting] /\ UNCHANGED record
      BY <2>10 DEF Ack, WorkerDies
    <3>. QED
      BY <1>0, <2>2, <2>3, <3>1, WaitingBecomes
  <2>. QED
    BY <1>2, <2>4, <2>6, <2>7, <2>8, <2>9, <2>10 DEF Work
<1>3. CASE UNCHANGED vars
  BY <1>0, <1>3 DEF TypeInv, TypeOK, HasJob, vars
<1>. QED
  BY <1>1, <1>2, <1>3 DEF Next

-----------------------------------------------------------------------------
(* One worker *)

\* A worker that drops its job, or goes on with it, disturbs nobody.
LEMMA HoldKept ==
  ASSUME HoldInv, NEW w \in Workers, NEW pc \in Pcs, NEW job, NEW copy, NEW tries, NEW out,
         Becomes(w, pc, job, copy, tries, out),
         pc # "idle" => HasJob(w) /\ job = worker[w].job,
         Fades, idle' \subseteq idle, \A j \in Jobs : Sent(j) => Sent(j)'
  PROVE  OneWorker' /\ \A v \in Workers : Held(v)'
<1>0. worker'[w].pc = pc /\ worker'[w].job = job /\ \A v \in Workers \ {w} : worker'[v] = worker[v]
  BY DEF Becomes
<1>1. \A v \in Workers : HasJob(v)' => HasJob(v) /\ worker'[v].job = worker[v].job
  BY <1>0 DEF HasJob
<1>2. \A v \in Workers : HasJob(v) => /\ worker[v].job \in Jobs /\ Sent(worker[v].job)
                                      /\ Punctual(worker[v].job) => worker[v].job \notin idle
  BY DEF HoldInv, Held
<1>3. \A k \in Jobs : Punctual(k)' => Punctual(k)
  BY DEF Fades
<1>4. OneWorker'
  <2>1. SUFFICES ASSUME NEW u \in Workers, NEW v \in Workers, HasJob(u)', HasJob(v)', worker'[u].job = worker'[v].job,
                        Unspoiled(worker[u].job, {"overrun"})'
                 PROVE  u = v
    BY DEF OneWorker
  <2>2. PICK k \in Jobs : k = worker[u].job
    BY <1>1, <1>2, <2>1
  <2>3. worker'[u].job = k /\ worker[v].job = k /\ HasJob(u) /\ HasJob(v)
    BY <1>1, <2>1, <2>2
  <2>4. Punctual(k)'
    BY <2>1, <2>3 DEF Punctual, Unspoiled
  <2>5. Punctual(k)
    BY <1>3, <2>4
  <2>. QED
    BY <2>2, <2>3, <2>5 DEF HoldInv, OneWorker, Punctual
<1>5. ASSUME NEW v \in Workers, HasJob(v)'
      PROVE  /\ worker'[v].job \in Jobs /\ Sent(worker[v].job)'
             /\ Punctual(worker[v].job)' => worker'[v].job \notin idle'
  <2>1. PICK k \in Jobs : k = worker[v].job
    BY <1>1, <1>2, <1>5
  <2>2. worker'[v].job = k /\ Sent(k)' /\ (Punctual(k)' => k \notin idle')
    BY <1>1, <1>2, <1>3, <1>5, <2>1
  <2>. QED
    BY <2>2 DEF Sent, Punctual, Unspoiled
<1>. QED
  BY <1>4, <1>5 DEF Held

\* A job that nobody has goes to worker w.
LEMMA HoldReceived ==
  ASSUME HoldInv, NEW w \in Workers, NEW j \in Jobs, Receive(w, j),
         j \in idle \/ ~Sent(j), j \notin idle', idle' \subseteq idle, Fades,
         \A k \in Jobs : Sent(k) \/ k = j => Sent(k)'
  PROVE  OneWorker' /\ \A v \in Workers : Held(v)'
<1>0. /\ worker'[w].pc = "get" /\ worker'[w].job = j
      /\ \A v \in Workers \ {w} : worker'[v] = worker[v]
  BY ReceiveEffect DEF Becomes, HoldInv
<1>1. \A v \in Workers : HasJob(v) => /\ worker[v].job \in Jobs /\ Sent(worker[v].job)
                                      /\ Punctual(worker[v].job) => worker[v].job \notin idle
  BY DEF HoldInv, Held
<1>2. \A k \in Jobs : Punctual(k)' => Punctual(k)
  BY DEF Fades
<1>3. Punctual(j) => \A v \in Workers : HasJob(v) => worker[v].job # j
  BY <1>1
<1>4. OneWorker'
  <2>1. SUFFICES ASSUME NEW u \in Workers, NEW v \in Workers, HasJob(u)', HasJob(v)', worker'[u].job = worker'[v].job,
                        Unspoiled(worker[u].job, {"overrun"})'
                 PROVE  u = v
    BY DEF OneWorker
  <2>2. PICK k \in Jobs : k = worker'[u].job
    BY <1>0, <1>1, <2>1 DEF HasJob
  <2>3. Punctual(k)'
    BY <2>1, <2>2 DEF Punctual, Unspoiled
  <2>4. Punctual(k)
    BY <1>2, <2>3
  <2>5. CASE k = j
    <3>1. \A x \in Workers \ {w} : HasJob(x)' => worker'[x].job # j
      BY <1>0, <1>3, <2>4, <2>5 DEF HasJob
    <3>. QED
      BY <2>1, <2>2, <2>5, <3>1
  <2>6. CASE k # j
    <3>1. worker'[u] = worker[u] /\ worker'[v] = worker[v]
      BY <1>0, <2>1, <2>2, <2>6
    <3>2. HasJob(u) /\ HasJob(v) /\ worker[u].job = k /\ worker[v].job = k
      BY <2>1, <2>2, <3>1 DEF HasJob
    <3>. QED
      BY <2>4, <3>2 DEF HoldInv, OneWorker, Punctual
  <2>. QED
    BY <2>5, <2>6
<1>5. ASSUME NEW v \in Workers, HasJob(v)'
      PROVE  /\ worker'[v].job \in Jobs /\ Sent(worker[v].job)'
             /\ Punctual(worker[v].job)' => worker'[v].job \notin idle'
  <2>1. PICK k \in Jobs : k = worker'[v].job
    BY <1>0, <1>1, <1>5 DEF HasJob
  <2>2. Sent(k)' /\ (Punctual(k)' => k \notin idle')
    <3>1. CASE v = w
      BY <1>0, <2>1, <3>1
    <3>2. CASE v # w
      <4>1. HasJob(v) /\ worker[v].job = k
        BY <1>0, <1>5, <2>1, <3>2 DEF HasJob
      <4>. QED
        BY <1>1, <1>2, <4>1
    <3>. QED
      BY <3>1, <3>2
  <2>. QED
    BY <2>1, <2>2 DEF Sent, Punctual, Unspoiled
<1>. QED
  BY <1>4, <1>5 DEF Held

\* Workers stay as they are, and no message becomes idle.
LEMMA NobodyMoves ==
  ASSUME HoldInv, Fades, UNCHANGED <<idle, worker>>, \A j \in Jobs : Sent(j) => Sent(j)'
  PROVE  OneWorker' /\ \A v \in Workers : Held(v)'
<1>1. \A v \in Workers : HasJob(v) => /\ worker[v].job \in Jobs /\ Sent(worker[v].job)
                                      /\ Punctual(worker[v].job) => worker[v].job \notin idle
  BY DEF HoldInv, Held
<1>2. \A k \in Jobs : Punctual(k)' => Punctual(k)
  BY DEF Fades
<1>3. \A v \in Workers : HasJob(v)' <=> HasJob(v)
  BY DEF HasJob
<1>4. OneWorker'
  <2>1. SUFFICES ASSUME NEW u \in Workers, NEW v \in Workers, HasJob(u)', HasJob(v)', worker'[u].job = worker'[v].job,
                        Unspoiled(worker[u].job, {"overrun"})'
                 PROVE  u = v
    BY DEF OneWorker
  <2>2. PICK k \in Jobs : k = worker[u].job
    BY <1>1, <1>3, <2>1
  <2>3. Punctual(k)'
    BY <2>1, <2>2 DEF Punctual, Unspoiled
  <2>. QED
    BY <1>2, <1>3, <2>1, <2>2, <2>3 DEF HoldInv, OneWorker, Punctual
<1>5. ASSUME NEW v \in Workers, HasJob(v)'
      PROVE  /\ worker'[v].job \in Jobs /\ Sent(worker[v].job)'
             /\ Punctual(worker[v].job)' => worker'[v].job \notin idle'
  <2>1. PICK k \in Jobs : k = worker[v].job
    BY <1>1, <1>3, <1>5
  <2>2. Sent(k)' /\ (Punctual(k)' => k \notin idle')
    BY <1>1, <1>2, <1>3, <1>5, <2>1
  <2>. QED
    BY <2>1, <2>2 DEF Sent, Punctual, Unspoiled
<1>. QED
  BY <1>4, <1>5 DEF Held

LEMMA ProducerHolds ==
  ASSUME HoldInv, Fades, NEW j \in Jobs, Create(j) \/ ProducerDies(j)
  PROVE  HoldInv'
<1>. USE DEF HoldInv, TypeOK
<1>1. UNCHANGED <<idle, worker>> /\ failures' \in Nat
  BY DEF Create, CreateRecord, AddMessage, CreateAgain, Produce, ProducerDies, Failure
<1>2. record' \in [Jobs -> Records]
  BY RecordRows DEF Create, CreateRecord, AddMessage, CreateAgain, Produce, ProducerDies
<1>3. /\ message' \in [Jobs -> {"none", "new", "delivered", "acked"}]
      /\ producer' \in [Jobs -> {"none", "add", "again", "done", "dead"}]
  BY DEF Create, CreateRecord, AddMessage, CreateAgain, Produce, ProducerDies
<1>4. /\ \/ UNCHANGED message
         \/ message[j] = "none" /\ message' = [message EXCEPT ![j] = "new"] /\ producer'[j] = "again"
      /\ producer[j] \in {"none", "add"} \/ producer'[j] \notin {"none", "add"}
      /\ \A k \in Jobs \ {j} : producer'[k] = producer[k]
  BY DEF Create, CreateRecord, AddMessage, CreateAgain, Produce, ProducerDies, UnsentInv
<1>5. \A k \in Jobs : Sent(k) => Sent(k)'
  BY <1>4 DEF Sent
<1>a. UnsentInv'
  BY <1>1, <1>4, <1>5 DEF UnsentInv
<1>6. TypeOK'
  BY <1>1, <1>2, <1>3 DEF Fades
<1>7. OneWorker' /\ \A v \in Workers : Held(v)'
  BY <1>1, <1>5, NobodyMoves
<1>. QED
  BY <1>6, <1>7, <1>a

LEMMA ReceiveHolds ==
  ASSUME HoldInv, Fades, NEW w \in Workers, NEW j \in Jobs, Claim(w, j) \/ Read(w, j)
  PROVE  HoldInv'
<1>. USE DEF HoldInv
<1>1. Receive(w, j) /\ UNCHANGED <<record, producer, failures>>
  BY DEF Claim, Read, Receive
<1>2. worker' \in [Workers -> WorkerStates]
  BY <1>1, ReceiveEffect DEF Becomes
<1>3. /\ message' \in [Jobs -> {"none", "new", "delivered", "acked"}] /\ idle' \subseteq idle
      /\ j \in idle \/ ~Sent(j)
      /\ \A k \in Jobs : Sent(k) \/ k = j => Sent(k)'
  BY DEF Claim, Read, TypeOK, Sent
<1>4. j \notin idle'
  <2>1. CASE Claim(w, j)
    BY <2>1 DEF Claim
  <2>2. CASE Read(w, j)
    <3>1. message[j] = "new" /\ idle' = idle
      BY <2>2 DEF Read
    <3>2. j \in idle => message[j] = "delivered"
      BY DEF UnsentInv
    <3>. QED
      BY <3>1, <3>2
  <2>. QED
    BY <2>1, <2>2
<1>5. TypeOK'
  BY <1>1, <1>2, <1>3 DEF TypeOK, Fades
<1>6. UnsentInv'
  BY <1>1, <1>3 DEF Claim, Read, UnsentInv, TypeOK, Sent
<1>. QED
  BY <1>1, <1>3, <1>4, <1>5, <1>6, HoldReceived

LEMMA AgeHolds ==
  ASSUME HoldInv, Fades, NEW j \in Jobs, Age(j) \/ Overrun(j)
  PROVE  HoldInv'
<1>1. /\ idle' = idle \cup {j} /\ message[j] = "delivered" /\ failures' \in Nat
      /\ UNCHANGED <<record, message, producer, worker>>
  BY DEF Age, Overrun, Failure, HoldInv, TypeOK
<1>2. Punctual(j)' => ~WorkedOn(j)
  <2>1. CASE Age(j)
    BY <2>1 DEF Age
  <2>2. CASE Overrun(j)
    <3>1. "overrun" \in spoiled'[j]
      BY <2>2 DEF Overrun, Spoil, HoldInv, TypeOK
    <3>. QED
      BY <3>1 DEF Punctual, Unspoiled
  <2>. QED
    BY <2>1, <2>2
<1>3. TypeOK' /\ UnsentInv'
  BY <1>1 DEF HoldInv, TypeOK, UnsentInv, Fades
<1>4. \A k \in Jobs : Punctual(k)' => Punctual(k)
  BY DEF Fades
<1>5. \A v \in Workers : HasJob(v) => /\ worker[v].job \in Jobs /\ Sent(worker[v].job)
                                      /\ Punctual(worker[v].job) => worker[v].job \notin idle
  BY DEF HoldInv, Held
<1>6. OneWorker'
  <2>1. SUFFICES ASSUME NEW u \in Workers, NEW v \in Workers, HasJob(u)', HasJob(v)', worker'[u].job = worker'[v].job,
                        Unspoiled(worker[u].job, {"overrun"})'
                 PROVE  u = v
    BY DEF OneWorker
  <2>2. HasJob(u) /\ HasJob(v) /\ worker[u].job = worker[v].job
    BY <1>1, <2>1 DEF HasJob
  <2>3. PICK k \in Jobs : k = worker[u].job
    BY <1>5, <2>2
  <2>4. Punctual(k)'
    BY <1>1, <2>1, <2>3 DEF Punctual, Unspoiled
  <2>. QED
    BY <1>4, <2>2, <2>3, <2>4 DEF HoldInv, OneWorker, Punctual
<1>7. ASSUME NEW v \in Workers, HasJob(v)'
      PROVE  /\ worker'[v].job \in Jobs /\ Sent(worker[v].job)'
             /\ Punctual(worker[v].job)' => worker'[v].job \notin idle'
  <2>1. HasJob(v)
    BY <1>1, <1>7 DEF HasJob
  <2>2. PICK k \in Jobs : k = worker[v].job
    BY <1>5, <2>1
  <2>3. Punctual(k)' => k # j
    BY <1>2, <2>1, <2>2 DEF WorkedOn
  <2>4. Punctual(k)' => k \notin idle
    BY <1>4, <1>5, <2>1, <2>2
  <2>5. worker'[v].job = k /\ Sent(k)' /\ (Punctual(k)' => k \notin idle')
    BY <1>1, <1>5, <2>1, <2>2, <2>3, <2>4 DEF Sent
  <2>. QED
    BY <2>5 DEF Sent, Punctual, Unspoiled
<1>. QED
  BY <1>3, <1>6, <1>7 DEF HoldInv, Held

LEMMA WorkHolds ==
  ASSUME HoldInv, Fades, NEW w \in Workers,
         MarkGet(w) \/ MarkSet(w) \/ Scan(w) \/ Load(w) \/ Save(w) \/ Ack(w) \/ StoreFails(w) \/ WorkerDies(w)
  PROVE  HoldInv'
<1>1. HasJob(w) /\ worker[w].job \in Jobs /\ TypeOK /\ UnsentInv
  BY DEF HoldInv, Held, HasJob, MarkGet, MarkSet, Scan, Load, Save, Ack, StoreFails, WorkerDies, Goes
<1>2. /\ producer' = producer /\ failures' \in Nat /\ idle' \subseteq idle
      /\ message' \in [Jobs -> {"none", "new", "delivered", "acked"}]
      /\ \A j \in Jobs : message[j] \notin {"delivered", "acked"} => message'[j] = message[j]
      /\ \A j \in Jobs : Sent(j) => Sent(j)'
      /\ \A j \in Jobs : j \in idle' => message'[j] = message[j]
  <2>1. worker[w].job \in Jobs /\ Sent(worker[w].job)
    BY <1>1 DEF HoldInv, Held
  <2>2. \/ UNCHANGED message
        \/ message' = [message EXCEPT ![worker[w].job] = "acked"] /\ idle' = idle \ {worker[w].job}
    BY DEF MarkGet, MarkSet, Scan, Load, Save, Ack, StoreFails, WorkerDies
  <2>3. producer' = producer /\ failures' \in Nat /\ idle' \subseteq idle
    <3>1. CASE StoreFails(w) \/ WorkerDies(w)
      BY <1>1, <3>1 DEF StoreFails, WorkerDies, Failure, TypeOK
    <3>2. CASE Ack(w)
      BY <1>1, <3>2 DEF Ack, TypeOK
    <3>3. CASE MarkGet(w) \/ MarkSet(w) \/ Load(w) \/ Scan(w) \/ Save(w)
      <4>1. UNCHANGED <<idle, producer, failures>>
        BY <3>3 DEF MarkGet, MarkSet, Scan, Load, Save, Goes
      <4>. QED
        BY <1>1, <4>1 DEF TypeOK
    <3>. QED
      BY <3>1, <3>2, <3>3
  <2>. QED
    BY <1>1, <2>1, <2>2, <2>3 DEF TypeOK, Sent
<1>3. UnsentInv'
  <2>1. ASSUME NEW j \in Jobs, producer'[j] \in {"none", "add"}  PROVE message'[j] = "none"
    BY <1>1, <1>2, <2>1 DEF UnsentInv
  <2>2. ASSUME NEW j \in Jobs, j \in idle'  PROVE message'[j] = "delivered"
    BY <1>1, <1>2, <2>2 DEF UnsentInv
  <2>. QED
    BY <2>1, <2>2 DEF UnsentInv
<1>4. record' \in [Jobs -> Records]
  <2>1. CASE MarkSet(w)
    BY <1>1, <2>1, MarkSetEffect
  <2>2. CASE Save(w)
    BY <1>1, <2>2, SaveEffect
  <2>3. CASE UNCHANGED record
    BY <1>1, <2>3 DEF TypeOK
  <2>. QED
    BY <2>1, <2>2, <2>3 DEF MarkGet, Scan, Load, Ack, StoreFails, WorkerDies
<1>5. ASSUME NEW pc \in Pcs, NEW job, NEW copy, NEW tries, NEW out, Becomes(w, pc, job, copy, tries, out),
             pc # "idle" => job = worker[w].job
      PROVE  HoldInv'
  <2>1. worker' \in [Workers -> WorkerStates]
    BY <1>5 DEF Becomes
  <2>2. TypeOK'
    BY <1>1, <1>2, <1>4, <2>1 DEF TypeOK, Fades
  <2>3. OneWorker' /\ \A v \in Workers : Held(v)'
    BY <1>1, <1>2, <1>5, HoldKept
  <2>. QED
    BY <1>3, <2>2, <2>3 DEF HoldInv
<1>6. "idle" \in Pcs /\ "mark" \in Pcs /\ "scan" \in Pcs /\ "load" \in Pcs /\ "save" \in Pcs /\ "ack" \in Pcs
  BY DEF Pcs
<1>7. CASE MarkGet(w)
  BY <1>1, <1>5, <1>6, <1>7, MarkGetEffect
<1>8. CASE MarkSet(w)
  BY <1>1, <1>5, <1>6, <1>8, MarkSetEffect
<1>9. CASE Scan(w)
  BY <1>1, <1>5, <1>6, <1>9, ScanEffect
<1>10. CASE Load(w)
  BY <1>1, <1>5, <1>6, <1>10, LoadEffect
<1>11. CASE Save(w)
  BY <1>1, <1>5, <1>6, <1>11, SaveEffect
<1>12. CASE Ack(w) \/ WorkerDies(w)
  <2>1. Becomes(w, "idle", NoJob, NoRecord, 0, "none")
    BY <1>1, <1>12, WaitingBecomes DEF Ack, WorkerDies
  <2>. QED
    BY <1>5, <1>6, <2>1
<1>13. CASE StoreFails(w)
  BY <1>1, <1>5, <1>6, <1>13, StoreFailsEffect
<1>. QED
  BY <1>7, <1>8, <1>9, <1>10, <1>11, <1>12, <1>13

LEMMA HoldStep ==
  ASSUME HoldInv, [Next]_vars
  PROVE  HoldInv'
<1>0. Fades
  BY HistoryStep DEF HoldInv
<1>1. ASSUME NEW j \in Jobs, Create(j) \/ Age(j) \/ Overrun(j) \/ ProducerDies(j)  PROVE HoldInv'
  BY <1>0, <1>1, ProducerHolds, AgeHolds
<1>2. ASSUME NEW w \in Workers, Work(w) \/ StoreFails(w) \/ WorkerDies(w)  PROVE HoldInv'
  BY <1>0, <1>2, ReceiveHolds, WorkHolds DEF Work
<1>3. CASE UNCHANGED vars
  BY <1>3 DEF HoldInv, TypeOK, OneWorker, Unspoiled, HasJob, UnsentInv, Held, Sent, Punctual, vars
<1>. QED
  BY <1>1, <1>2, <1>3 DEF Next

-----------------------------------------------------------------------------
(* Attempts and acknowledgements *)

LEMMA Attempts ==
  ASSUME TypeOK
  PROVE  /\ MaxAttempts \in Nat /\ MaxAttempts > 0 /\ failures \in Nat
         /\ \A j \in Jobs : record[j] \in Records /\ record[j].attempts \in Nat
BY WorkQueueAssumption DEF TypeOK, Records

\* Record and message of job k stay as they are.
LEMMA Rest ==
  ASSUME IInv, Fades, NEW k \in Jobs, record'[k] = record[k], message'[k] = message[k],
         failures' \in {failures, failures + 1}
  PROVE  /\ \A v \in Workers : worker'[v] = worker[v] => WorkerKnows(v, k)'
         /\ (\A v \in Workers : BusyOn(v, k) => BusyOn(v, k)') => JobInv(k)'
<1>0. TypeOK /\ JobInv(k) /\ (Punctual(k)' => Punctual(k)) /\ (Kept(k)' => Kept(k)) /\ (Clean(k)' => Clean(k))
  BY DEF IInv, HoldInv, Fades
<1>1. /\ MaxAttempts \in Nat /\ failures \in Nat /\ failures' \in Nat /\ failures <= failures'
      /\ record[k].attempts \in Nat
  BY <1>0, Attempts
<1>2. \A n \in Nat : /\ n <= MaxAttempts + failures => n <= MaxAttempts + failures'
                     /\ n < MaxAttempts + failures => n < MaxAttempts + failures'
  <2>1. PICK f \in Nat : f = failures
    BY <1>1
  <2>2. PICK g \in Nat : g = failures'
    BY <1>1
  <2>3. f <= g /\ MaxAttempts \in Nat
    BY <1>1, <2>1, <2>2
  <2>4. \A n \in Nat : (n <= MaxAttempts + f => n <= MaxAttempts + g) /\ (n < MaxAttempts + f => n < MaxAttempts + g)
    BY <2>3
  <2>. QED
    BY <2>1, <2>2, <2>4
<1>3. ASSUME NEW v \in Workers, worker'[v] = worker[v]  PROVE WorkerKnows(v, k)'
  <2>1. WorkerKnows(v, k)
    BY DEF IInv
  <2>2. worker[v].tries \in Nat /\ worker[v].copy.attempts \in Nat
    <3>1. worker[v].tries \in Nat /\ worker[v].copy \in Records
      BY <1>0, OwnRow
    <3>. QED
      BY <3>1 DEF Records
  <2>. QED
    BY <1>0, <1>2, <1>3, <2>1, <2>2 DEF WorkerKnows
<1>4. ASSUME \A v \in Workers : BusyOn(v, k) => BusyOn(v, k)'  PROVE JobInv(k)'
  BY <1>0, <1>1, <1>2, <1>4 DEF JobInv
<1>. QED
  BY <1>3, <1>4

\* A job that a worker has in hand keeps its invariant if these five facts hold.
LEMMA JobKept ==
  ASSUME NEW j \in Jobs, Sent(j)',
         Clean(j)' /\ message'[j] = "acked" => record'[j].status \in Final,
         Kept(j)' /\ record'[j].status = "failed" => record'[j].attempts >= MaxAttempts,
         Punctual(j)' => record'[j].attempts <= MaxAttempts + failures',
         Punctual(j)' /\ message'[j] = "delivered" =>
           record'[j].attempts < MaxAttempts + failures' \/ \E w \in Workers : BusyOn(w, j)'
  PROVE  JobInv(j)'
BY DEF JobInv, Sent

\* A punctual worker's step on its job, as far as that job goes.
LEMMA WorkKnows ==
  ASSUME IInv, Fades, NEW w \in Workers, NEW j \in Jobs, HasJob(w), j = worker[w].job, Punctual(j),
         MarkGet(w) \/ MarkSet(w) \/ Scan(w) \/ Load(w) \/ Save(w) \/ Ack(w) \/ StoreFails(w) \/ WorkerDies(w)
  PROVE  WorkerKnows(w, j)' /\ JobInv(j)'
<1>. DEFINE c == worker[w]
<1>0. /\ TypeOK /\ HoldInv /\ JobInv(j) /\ Sent(j)
      /\ (Kept(j)' => Kept(j)) /\ (Clean(j)' => Clean(j)) /\ (Clean(j) => Kept(j))
  BY Kinds DEF IInv, HoldInv, Held, Fades
<1>k. /\ c.pc \in {"get", "mark"} \/ Clean(j) => message[j] = "delivered"
      /\ c.pc = "mark" => c.copy.attempts < MaxAttempts + failures
      /\ c.pc \in Busy => record[j].attempts <= c.tries /\ c.tries <= MaxAttempts + failures
      /\ c.pc = "save" => c.copy.attempts <= c.tries
      /\ c.pc \in {"load", "save"} => c.out \in Reports \cup {AfterException(c.tries)}
      /\ c.pc = "ack" => c.out \in Final
      /\ Kept(j) => /\ c.pc \in {"mark", "save"} => c.copy = record[j]
                    /\ c.pc \in Busy => record[j].attempts = c.tries
                    /\ c.pc = "ack" => record[j].status = c.out
  <2>1. WorkerKnows(w, j) /\ c.pc # "idle"
    BY DEF IInv, HasJob
  <2>. QED
    BY <2>1 DEF WorkerKnows
<1>a. /\ MaxAttempts \in Nat /\ MaxAttempts > 0 /\ failures \in Nat
      /\ record[j] \in Records /\ record[j].attempts \in Nat /\ record[j].attempts <= MaxAttempts + failures
      /\ Kept(j) /\ record[j].status = "failed" => record[j].attempts >= MaxAttempts
      /\ Clean(j) /\ message[j] = "acked" => record[j].status \in Final
  BY <1>0, Attempts DEF JobInv
<1>t. c.tries \in Nat /\ c.copy \in Records /\ c.copy.attempts \in Nat /\ c.out \in Outs
  <2>1. c.tries \in Nat /\ c.copy \in Records /\ c.out \in Outs
    BY <1>0, OwnRow
  <2>. QED
    BY <2>1 DEF Records
<1>b. message[j] = "delivered" /\ c.pc \notin Busy => record[j].attempts < MaxAttempts + failures
  <2>1. \A v \in Workers : BusyOn(v, j) => v = w
    BY DEF BusyOn, Busy, IInv, HoldInv, OneWorker, HasJob, Punctual
  <2>. QED
    BY <1>0, <2>1 DEF JobInv, BusyOn
<1>1. ASSUME NEW pc, NEW copy, NEW tries, NEW out, Becomes(w, pc, j, copy, tries, out),
             UNCHANGED record, Sent(j)', Clean(j)' => message'[j] = message[j],
             message'[j] = "delivered" => message[j] = "delivered",
             failures' \in {failures, failures + 1}, pc \in Busy \/ c.pc \notin Busy
      PROVE  JobInv(j)'
  <2>1. worker'[w].pc = pc /\ worker'[w].job = j
    BY <1>1 DEF Becomes
  <2>2. record'[j].attempts <= MaxAttempts + failures'
    BY <1>1, <1>a
  <2>3. message'[j] = "delivered" => record'[j].attempts < MaxAttempts + failures' \/ BusyOn(w, j)'
    <3>1. CASE pc \in Busy
      BY <2>1, <3>1 DEF BusyOn
    <3>2. CASE c.pc \notin Busy
      BY <1>1, <1>a, <1>b, <3>2
    <3>. QED
      BY <1>1, <3>1, <3>2
  <2>4. Clean(j)' /\ message'[j] = "acked" => record'[j].status \in Final
    BY <1>0, <1>1, <1>a
  <2>5. Kept(j)' /\ record'[j].status = "failed" => record'[j].attempts >= MaxAttempts
    BY <1>0, <1>1, <1>a
  <2>. QED
    BY <1>1, <2>2, <2>3, <2>4, <2>5, JobKept
<1>2. CASE MarkGet(w)
  <2>1. /\ Becomes(w, "mark", j, record[j], c.tries, c.out) /\ c.pc = "get"
        /\ UNCHANGED <<record, message, idle, failures>>
    BY <1>0, <1>2, MarkGetEffect DEF MarkGet, Goes
  <2>2. Sent(j)' /\ c.pc \notin Busy
    BY <1>0, <2>1 DEF Sent, Busy
  <2>3. record[j].attempts < MaxAttempts + failures
    BY <1>b, <1>k, <2>1, <2>2
  <2>4. WorkerKnows(w, j)'
    BY <1>0, <1>k, <2>1, <2>3 DEF WorkerKnows, Becomes, Busy
  <2>. QED
    BY <1>1, <2>1, <2>2, <2>4
<1>3. CASE Scan(w)
  <2>1. PICK out \in Reports \cup {AfterException(c.tries)} :
          /\ Becomes(w, "load", j, c.copy, c.tries, out) /\ c.pc = "scan"
          /\ UNCHANGED <<record, message, idle, failures>>
    BY <1>0, <1>3, ScanEffect DEF Scan, Goes
  <2>2. WorkerKnows(w, j)'
    BY <1>0, <1>k, <2>1 DEF WorkerKnows, Becomes, Busy
  <2>3. "load" \in Busy /\ Sent(j)'
    BY <1>0, <2>1 DEF Busy, Sent
  <2>. QED
    BY <1>1, <2>1, <2>2, <2>3
<1>4. CASE Load(w)
  <2>1. /\ Becomes(w, "save", j, record[j], c.tries, c.out) /\ c.pc = "load"
        /\ UNCHANGED <<record, message, idle, failures>>
    BY <1>0, <1>4, LoadEffect DEF Load, Goes
  <2>2. WorkerKnows(w, j)'
    BY <1>0, <1>k, <2>1 DEF WorkerKnows, Becomes, Busy
  <2>3. "save" \in Busy /\ Sent(j)'
    BY <1>0, <2>1 DEF Busy, Sent
  <2>. QED
    BY <1>1, <2>1, <2>2, <2>3
<1>5. CASE StoreFails(w)
  <2>1. /\ Becomes(w, "load", j, c.copy, c.tries, AfterException(c.tries)) /\ c.pc \in {"load", "save", "ack"}
        /\ UNCHANGED record /\ failures' = failures + 1
    BY <1>0, <1>5, StoreFailsEffect DEF StoreFails, Failure
  <2>2. message'[j] = message[j] \/ (message'[j] = "acked" /\ ~Clean(j)')
    <3>1. UNCHANGED message \/ (message' = [message EXCEPT ![j] = "acked"] /\ Spoil(j, {"unanswered"}))
      BY <1>5 DEF StoreFails
    <3>2. ASSUME Spoil(j, {"unanswered"})  PROVE ~Clean(j)'
      <4>1. "unanswered" \in spoiled'[j]
        BY <1>0, <3>2 DEF Spoil, TypeOK
      <4>. QED
        BY <4>1 DEF Clean, Unspoiled, Spoils
    <3>. QED
      BY <1>0, <3>1, <3>2 DEF TypeOK
  <2>3. c.pc \in Busy /\ "load" \in Busy /\ Sent(j)'
    BY <1>0, <2>1, <2>2 DEF Busy, Sent
  <2>4. Clean(j)' => message'[j] = "delivered"
    BY <1>0, <1>k, <2>2
  <2>5. c.tries <= MaxAttempts + failures'
    BY <1>a, <1>k, <1>t, <2>1, <2>3
  <2>6. WorkerKnows(w, j)'
    BY <1>0, <1>k, <2>1, <2>3, <2>4, <2>5 DEF WorkerKnows, Becomes
  <2>7. message'[j] = "delivered" => message[j] = "delivered"
    BY <2>2
  <2>. QED
    BY <1>1, <2>1, <2>2, <2>3, <2>6, <2>7
<1>6. CASE MarkSet(w)
  <2>. DEFINE n == c.copy.attempts + 1
  <2>1. /\ Becomes(w, "scan", j, c.copy, n, c.out) /\ c.pc = "mark" /\ n \in Nat
        /\ record' = [record EXCEPT ![j] = [status |-> "running", attempts |-> n]]
        /\ UNCHANGED <<message, idle, failures>>
    BY <1>0, <1>6, MarkSetEffect DEF MarkSet, Goes
  <2>2. record'[j].status = "running" /\ record'[j].attempts = n
    BY <1>0, <2>1, RecordRows DEF TypeOK
  <2>3. n <= MaxAttempts + failures'
    BY <1>a, <1>k, <1>t, <2>1
  <2>4. message'[j] = "delivered" /\ Sent(j)'
    BY <1>k, <2>1 DEF Sent
  <2>5. n <= n
    BY <2>1
  <2>. HIDE DEF n
  <2>6. WorkerKnows(w, j)' /\ BusyOn(w, j)'
    BY <2>1, <2>2, <2>3, <2>4, <2>5 DEF WorkerKnows, BusyOn, Becomes, Busy
  <2>7. JobInv(j)'
    BY <2>2, <2>3, <2>4, <2>6, JobKept
  <2>. QED
    BY <2>6, <2>7
<1>7. CASE Save(w)
  <2>1. /\ IF c.out = "pending_retry" THEN Becomes(w, "idle", NoJob, NoRecord, 0, "none")
           ELSE Becomes(w, "ack", j, c.copy, c.tries, c.out)
        /\ record' = [record EXCEPT ![j] = SetStatus(c.copy, c.out)] /\ c.pc = "save"
        /\ UNCHANGED <<message, idle, failures>>
    BY <1>0, <1>7, SaveEffect DEF Save, Goes
  <2>2. /\ c.copy.attempts <= c.tries /\ c.tries <= MaxAttempts + failures
        /\ c.out \in Reports \cup {AfterException(c.tries)}
        /\ Kept(j) => c.copy.attempts = c.tries
    BY <1>k, <2>1 DEF Busy
  <2>3. record'[j].status = c.out /\ record'[j].attempts = c.copy.attempts
    BY <1>0, <1>t, <2>1, StatusRow DEF TypeOK
  <2>4. Kept(j)' /\ record'[j].status = "failed" => record'[j].attempts >= MaxAttempts
    BY <1>0, <1>a, <1>t, <2>2, <2>3, WorkQueueAssumption DEF AfterException
  <2>5. record'[j].attempts <= MaxAttempts + failures'
    BY <1>a, <1>t, <2>1, <2>2, <2>3
  <2>6. Sent(j)' /\ (Clean(j)' => message'[j] = "delivered")
    BY <1>0, <1>k, <2>1 DEF Sent
  <2>7. CASE c.out = "pending_retry"
    <3>1. worker'[w].pc = "idle"
      BY <2>1, <2>7 DEF Becomes
    <3>2. WorkerKnows(w, j)'
      BY <3>1 DEF WorkerKnows
    <3>3. ~(c.tries >= MaxAttempts)
      BY <2>2, <2>7, WorkQueueAssumption DEF AfterException
    <3>4. record'[j].attempts < MaxAttempts + failures'
      BY <1>a, <1>t, <2>1, <2>2, <2>3, <3>3
    <3>5. JobInv(j)'
      BY <2>4, <2>5, <2>6, <3>4, JobKept
    <3>. QED
      BY <3>2, <3>5
  <2>8. CASE c.out # "pending_retry"
    <3>1. Becomes(w, "ack", j, c.copy, c.tries, c.out)
      BY <2>1, <2>8
    <3>2. c.out \in Final
      BY <2>2, <2>8 DEF AfterException, Final
    <3>3. WorkerKnows(w, j)' /\ BusyOn(w, j)'
      BY <1>0, <2>1, <2>2, <2>3, <2>6, <3>1, <3>2 DEF WorkerKnows, BusyOn, Becomes, Busy
    <3>4. JobInv(j)'
      BY <2>4, <2>5, <2>6, <3>3, JobKept
    <3>. QED
      BY <3>3, <3>4
  <2>. QED
    BY <2>7, <2>8
<1>8. CASE Ack(w)
  <2>1. /\ Becomes(w, "idle", NoJob, NoRecord, 0, "none") /\ c.pc = "ack"
        /\ message' = [message EXCEPT ![j] = "acked"] /\ UNCHANGED <<record, failures>>
    BY <1>0, <1>8, WaitingBecomes DEF Ack
  <2>2. message'[j] = "acked"
    BY <1>0, <2>1 DEF TypeOK
  <2>3. Clean(j)' => record'[j].status \in Final
    BY <1>0, <1>k, <2>1
  <2>4. WorkerKnows(w, j)'
    BY <2>1 DEF WorkerKnows, Becomes
  <2>5. JobInv(j)'
    BY <1>0, <1>a, <2>1, <2>2, <2>3, JobKept DEF Sent
  <2>. QED
    BY <2>4, <2>5
<1>9. CASE WorkerDies(w)
  <2>1. /\ Becomes(w, "idle", NoJob, NoRecord, 0, "none")
        /\ UNCHANGED <<record, message>> /\ failures' = failures + 1
    BY <1>0, <1>9, WaitingBecomes DEF WorkerDies, Failure
  <2>2. WorkerKnows(w, j)'
    BY <2>1 DEF WorkerKnows, Becomes
  <2>3. record'[j].attempts < MaxAttempts + failures' /\ record'[j].attempts <= MaxAttempts + failures'
    BY <1>a, <2>1
  <2>4. JobInv(j)'
    BY <1>0, <1>a, <2>1, <2>3, JobKept DEF Sent
  <2>. QED
    BY <2>2, <2>4
<1>. QED
  BY <1>2, <1>3, <1>4, <1>5, <1>6, <1>7, <1>8, <1>9

LEMMA WorkSafe ==
  ASSUME IInv, Fades, HoldInv', NEW w \in Workers,
         MarkGet(w) \/ MarkSet(w) \/ Scan(w) \/ Load(w) \/ Save(w) \/ Ack(w) \/ StoreFails(w) \/ WorkerDies(w)
  PROVE  IInv'
<1>. PICK j \in Jobs : j = worker[w].job
  BY DEF IInv, HoldInv, Held, HasJob, MarkGet, MarkSet, Scan, Load, Save, Ack, StoreFails, WorkerDies, Goes
<1>0. HasJob(w) /\ TypeOK /\ HoldInv /\ Sent(j) /\ failures' \in {failures, failures + 1}
  BY DEF IInv, HoldInv, Held, HasJob, Failure,
         MarkGet, MarkSet, Scan, Load, Save, Ack, StoreFails, WorkerDies, Goes
<1>1. /\ \A v \in Workers \ {w} : worker'[v] = worker[v]
      /\ worker'[w].pc = "idle" \/ worker'[w].job = j
  <2>1. ASSUME NEW pc, NEW job, NEW copy, NEW tries, NEW out, Becomes(w, pc, job, copy, tries, out),
               pc = "idle" \/ job = j
        PROVE  /\ \A v \in Workers \ {w} : worker'[v] = worker[v]
               /\ worker'[w].pc = "idle" \/ worker'[w].job = j
    BY <2>1 DEF Becomes
  <2>2. CASE MarkGet(w) \/ Load(w)
    BY <1>0, <2>1, <2>2, MarkGetEffect, LoadEffect
  <2>3. CASE MarkSet(w)
    BY <1>0, <2>1, <2>3, MarkSetEffect
  <2>4. CASE Scan(w) \/ StoreFails(w)
    BY <1>0, <2>1, <2>4, ScanEffect, StoreFailsEffect
  <2>5. CASE Save(w)
    BY <1>0, <2>1, <2>5, SaveEffect
  <2>6. CASE Ack(w) \/ WorkerDies(w)
    <3>1. Becomes(w, "idle", NoJob, NoRecord, 0, "none")
      BY <1>0, <2>6, WaitingBecomes DEF Ack, WorkerDies
    <3>. QED
      BY <2>1, <3>1
  <2>. QED
    BY <2>2, <2>3, <2>4, <2>5, <2>6
<1>2. /\ \A k \in Jobs \ {j} : record'[k] = record[k] /\ message'[k] = message[k]
      /\ Sent(j)'
  <2>1. record' = record \/ \E x : record' = [record EXCEPT ![j] = x]
    BY DEF MarkGet, MarkSet, Scan, Load, Save, Ack, StoreFails, WorkerDies, Goes
  <2>2. message' = message \/ message' = [message EXCEPT ![j] = "acked"]
    BY DEF MarkGet, MarkSet, Scan, Load, Save, Ack, StoreFails, WorkerDies, Goes
  <2>. QED
    BY <1>0, <2>1, <2>2 DEF TypeOK, Sent
<1>3. WorkerKnows(w, j)' /\ JobInv(j)'
  <2>1. CASE Punctual(j)
    BY <1>0, <2>1, WorkKnows
  <2>2. CASE ~Punctual(j)
    <3>1. ~Punctual(j)' /\ ~Kept(j)' /\ ~Clean(j)'
      BY <2>2, Kinds DEF Fades
    <3>2. JobInv(j)'
      BY <1>2, <3>1, JobKept
    <3>. QED
      BY <3>1, <3>2 DEF WorkerKnows
  <2>. QED
    BY <2>1, <2>2
<1>4. ASSUME NEW v \in Workers, NEW k \in Jobs  PROVE WorkerKnows(v, k)'
  <2>1. CASE v = w /\ k = j
    BY <1>3, <2>1
  <2>2. CASE v = w /\ k # j
    BY <1>1, <2>2 DEF WorkerKnows
  <2>3. CASE v # w /\ k # j
    BY <1>0, <1>1, <1>2, <2>3, Rest
  <2>4. CASE v # w /\ k = j
    <3>1. SUFFICES ASSUME worker'[v].pc # "idle", worker'[v].job = j, Punctual(j)'  PROVE FALSE
      BY <2>4 DEF WorkerKnows
    <3>2. Punctual(j) /\ HasJob(v) /\ worker[v].job = j
      BY <1>1, <2>4, <3>1 DEF Fades, HasJob
    <3>. QED
      BY <1>0, <2>4, <3>2 DEF HoldInv, OneWorker, Punctual
  <2>. QED
    BY <2>1, <2>2, <2>3, <2>4
<1>5. ASSUME NEW k \in Jobs, k # j  PROVE JobInv(k)'
  <2>1. \A v \in Workers : BusyOn(v, k) => BusyOn(v, k)'
    BY <1>1, <1>5 DEF BusyOn
  <2>. QED
    BY <1>0, <1>2, <1>5, <2>1, Rest
<1>. QED
  BY <1>3, <1>4, <1>5 DEF IInv

LEMMA ProducerSafe ==
  ASSUME IInv, Fades, HoldInv', NEW j \in Jobs, Create(j) \/ ProducerDies(j)
  PROVE  IInv'
<1>0. TypeOK /\ UnsentInv /\ UNCHANGED <<idle, worker>> /\ failures' \in {failures, failures + 1}
  BY DEF IInv, HoldInv, Create, CreateRecord, AddMessage, CreateAgain, Produce, ProducerDies, Failure
<1>1. \A k \in Jobs \ {j} : record'[k] = record[k] /\ message'[k] = message[k]
  BY <1>0 DEF TypeOK, Create, CreateRecord, AddMessage, CreateAgain, Produce, ProducerDies
<1>2. \A w \in Workers, k \in Jobs : BusyOn(w, k) => BusyOn(w, k)'
  BY <1>0 DEF BusyOn
<1>3. /\ MaxAttempts \in Nat /\ MaxAttempts > 0 /\ failures \in Nat /\ failures' \in Nat /\ failures <= failures'
      /\ JobInv(j)
  BY <1>0, Attempts DEF IInv
<1>a. 0 <= MaxAttempts + failures' /\ 0 < MaxAttempts + failures'
  <2>1. PICK g \in Nat : g = failures'
    BY <1>3
  <2>2. 0 <= MaxAttempts + g /\ 0 < MaxAttempts + g
    BY WorkQueueAssumption
  <2>. QED
    BY <2>1, <2>2
<1>4. ASSUME message[j] = "none"  PROVE \A w \in Workers : WorkerKnows(w, j)'
  <2>1. \A w \in Workers : HasJob(w) => worker[w].job # j
    BY <1>4 DEF IInv, HoldInv, Held, Sent
  <2>. QED
    BY <1>0, <2>1 DEF WorkerKnows, HasJob
<1>5. (\A w \in Workers : WorkerKnows(w, j)') /\ JobInv(j)'
  <2>1. CASE CreateRecord(j)
    <3>1. record'[j] = Fresh /\ message[j] = "none" /\ message'[j] = "none"
      BY <1>0, <2>1 DEF CreateRecord, Produce, TypeOK, UnsentInv
    <3>2. record'[j].attempts = 0 /\ record'[j].status # "failed"
      BY <3>1, RecordRows
    <3>3. 0 <= MaxAttempts + failures'
      BY <1>a
    <3>4. JobInv(j)'
      BY <3>1, <3>2, <3>3 DEF JobInv
    <3>. QED
      BY <1>4, <3>1, <3>4
  <2>2. CASE AddMessage(j)
    <3>1. message[j] = "none" /\ message'[j] = "new" /\ record'[j] = record[j] /\ failures' = failures
      BY <1>0, <2>2 DEF AddMessage, Produce, TypeOK, UnsentInv
    <3>2. JobInv(j)'
      BY <1>3, <3>1 DEF JobInv, Fades
    <3>. QED
      BY <1>4, <3>1, <3>2
  <2>3. CASE ProducerDies(j)
    <3>1. UNCHANGED <<record[j], message[j]>>
      BY <2>3 DEF ProducerDies
    <3>. QED
      BY <1>0, <1>2, <3>1, Rest
  <2>4. CASE CreateAgain(j) /\ record[j] = Fresh
    <3>1. UNCHANGED <<record[j], message[j]>>
      BY <1>0, <2>4 DEF CreateAgain, TypeOK
    <3>. QED
      BY <1>0, <1>2, <3>1, Rest
  <2>5. CASE CreateAgain(j) /\ record[j] # Fresh
    <3>1. record'[j] = Fresh /\ message'[j] = message[j] /\ failures' = failures /\ "overtaken" \in spoiled'[j]
      BY <1>0, <2>5 DEF CreateAgain, Produce, Spoil, TypeOK
    <3>2. ~Kept(j)' /\ ~Clean(j)' /\ (Punctual(j)' => Punctual(j))
      BY <3>1 DEF Kept, Clean, Unspoiled, Spoils, Fades
    <3>3. record'[j].attempts = 0
      BY <3>1, RecordRows
    <3>4. 0 <= MaxAttempts + failures' /\ 0 < MaxAttempts + failures'
      BY <1>a
    <3>5. JobInv(j)'
      BY <1>3, <3>1, <3>2, <3>3, <3>4 DEF JobInv
    <3>6. ASSUME NEW w \in Workers  PROVE WorkerKnows(w, j)'
      <4>1. WorkerKnows(w, j) /\ worker'[w] = worker[w]
        BY <1>0 DEF IInv
      <4>2. 0 <= worker[w].tries
        BY <1>0, OwnRow
      <4>3. SUFFICES ASSUME worker[w].pc # "idle", worker[w].job = j, Punctual(j)
                     PROVE  WorkerKnows(w, j)'
        BY <3>2, <4>1 DEF WorkerKnows
      <4>4. /\ worker[w].pc \in {"get", "mark"} => message[j] = "delivered"
            /\ worker[w].pc = "mark" => worker[w].copy.attempts < MaxAttempts + failures
            /\ worker[w].pc \in Busy => worker[w].tries <= MaxAttempts + failures
            /\ worker[w].pc = "save" => worker[w].copy.attempts <= worker[w].tries
            /\ worker[w].pc \in {"load", "save"} => worker[w].out \in Reports \cup {AfterException(worker[w].tries)}
            /\ worker[w].pc = "ack" => worker[w].out \in Final
        BY <4>1, <4>3 DEF WorkerKnows
      <4>. QED
        BY <3>1, <3>2, <3>3, <4>1, <4>2, <4>4 DEF WorkerKnows
    <3>. QED
      BY <3>5, <3>6
  <2>. QED
    BY <2>1, <2>2, <2>3, <2>4, <2>5 DEF Create
<1>6. ASSUME NEW k \in Jobs, k # j  PROVE (\A w \in Workers : WorkerKnows(w, k)') /\ JobInv(k)'
  BY <1>0, <1>1, <1>2, <1>6, Rest
<1>7. \A k \in Jobs : (\A w \in Workers : WorkerKnows(w, k)') /\ JobInv(k)'
  BY <1>5, <1>6
<1>. QED
  BY <1>7 DEF IInv

LEMMA ReceiveSafe ==
  ASSUME IInv, Fades, HoldInv', NEW w \in Workers, NEW j \in Jobs, Claim(w, j) \/ Read(w, j)
  PROVE  IInv'
<1>0. /\ TypeOK /\ worker[w].pc = "idle" /\ UNCHANGED <<record, producer, failures>>
      /\ worker'[w].pc = "get" /\ worker'[w].job = j /\ \A v \in Workers \ {w} : worker'[v] = worker[v]
  BY ReceiveEffect DEF Claim, Read, Receive, Becomes, IInv, HoldInv
<1>1. /\ message'[j] = "delivered" /\ message[j] \in {"new", "delivered"}
      /\ \A k \in Jobs \ {j} : message'[k] = message[k]
  BY <1>0 DEF Claim, Read, TypeOK
<1>2. \A v \in Workers, k \in Jobs : BusyOn(v, k) => BusyOn(v, k)'
  BY <1>0 DEF BusyOn, Busy
<1>3. ASSUME NEW v \in Workers, NEW k \in Jobs  PROVE WorkerKnows(v, k)'
  <2>1. CASE v = w
    BY <1>0, <1>1, <2>1 DEF WorkerKnows, Busy
  <2>2. CASE v # w /\ message'[k] = message[k]
    BY <1>0, <2>2, Rest
  <2>3. CASE v # w /\ message'[k] # message[k]
    <3>1. k = j /\ message[j] = "new"
      BY <1>1, <2>3
    <3>2. HasJob(v) => worker[v].job # j
      BY <3>1 DEF IInv, HoldInv, Held, Sent
    <3>. QED
      BY <1>0, <2>3, <3>1, <3>2 DEF WorkerKnows, HasJob
  <2>. QED
    BY <2>1, <2>2, <2>3
<1>4. ASSUME NEW k \in Jobs  PROVE JobInv(k)'
  <2>1. CASE message'[k] = message[k]
    BY <1>0, <1>2, <2>1, Rest
  <2>2. CASE message'[k] # message[k]
    <3>1. k = j /\ message[j] = "new" /\ JobInv(j)
      BY <1>1, <2>2 DEF IInv
    <3>2. record'[j].attempts = 0 /\ record'[j].status # "failed"
      BY <1>0, <3>1, RecordRows DEF JobInv
    <3>3. 0 <= MaxAttempts + failures' /\ 0 < MaxAttempts + failures'
      BY <1>0, Attempts
    <3>. QED
      BY <1>1, <3>1, <3>2, <3>3 DEF JobInv
  <2>. QED
    BY <2>1, <2>2
<1>. QED
  BY <1>3, <1>4 DEF IInv

LEMMA SafeStep ==
  ASSUME IInv, [Next]_vars
  PROVE  IInv'
<1>0. HoldInv' /\ Fades
  BY HoldStep, HistoryStep DEF IInv, HoldInv
<1>1. ASSUME UNCHANGED <<record, message, worker>>, failures' \in {failures, failures + 1}  PROVE IInv'
  <2>1. \A w \in Workers, j \in Jobs : BusyOn(w, j) => BusyOn(w, j)'
    BY <1>1 DEF BusyOn
  <2>2. \A j \in Jobs : (\A w \in Workers : WorkerKnows(w, j)') /\ JobInv(j)'
    BY <1>0, <1>1, <2>1, Rest
  <2>. QED
    BY <1>0, <2>2 DEF IInv
<1>2. ASSUME NEW j \in Jobs, Create(j) \/ ProducerDies(j)  PROVE IInv'
  BY <1>0, <1>2, ProducerSafe
<1>3. ASSUME NEW j \in Jobs, Age(j) \/ Overrun(j)  PROVE IInv'
  BY <1>1, <1>3 DEF Age, Overrun, Failure
<1>4. ASSUME NEW w \in Workers, Work(w) \/ StoreFails(w) \/ WorkerDies(w)  PROVE IInv'
  BY <1>0, <1>4, ReceiveSafe, WorkSafe DEF Work
<1>5. CASE UNCHANGED vars
  BY <1>1, <1>5 DEF vars
<1>. QED
  BY <1>2, <1>3, <1>4, <1>5 DEF Next

-----------------------------------------------------------------------------
(* The theorems *)

LEMMA InvInit ==
  ASSUME Init
  PROVE  IInv
<1>1. TypeOK /\ \A w \in Workers : worker[w].pc = "idle"
  BY WaitingRow, RecordRows DEF Init, TypeOK
<1>2. HoldInv
  BY <1>1 DEF Init, HoldInv, OneWorker, UnsentInv, Held, HasJob
<1>3. \A w \in Workers, j \in Jobs : WorkerKnows(w, j)
  BY <1>1 DEF WorkerKnows
<1>4. ASSUME NEW j \in Jobs  PROVE JobInv(j)
  <2>1. /\ record[j] = NoRecord /\ message[j] = "none"
        /\ record[j].status # "failed" /\ record[j].attempts = 0
    BY RecordRows DEF Init
  <2>2. 0 <= MaxAttempts + failures
    BY <1>1, Attempts
  <2>. QED
    BY <2>1, <2>2 DEF JobInv
<1>. QED
  BY <1>2, <1>3, <1>4 DEF IInv

\* Whatever dies, fails or takes its time, records, messages and workers keep
\* their shape, and a worker that has a job has one of the queue's.
THEOREM TypeCorrect == Spec => []TypeOK
<1>1. Init => TypeInv
  BY InvInit DEF IInv, HoldInv, Held, HasJob, TypeInv
<1>2. TypeInv /\ [Next]_vars => TypeInv'
  BY TypeStep
<1>3. TypeInv => TypeOK
  BY DEF TypeInv
<1>. QED
  BY <1>1, <1>2, <1>3, PTL DEF Spec

\* The inductive invariant: who has a job, what each worker knows of its job's
\* record, and what stream and record say of one job, each as far as the things
\* the queue does not mend have not happened to that job.
THEOREM InductiveInvariant == Spec => []IInv
<1>1. Init => IInv
  BY InvInit
<1>2. IInv /\ [Next]_vars => IInv'
  BY SafeStep
<1>. QED
  BY <1>1, <1>2, PTL DEF Spec

\* No two workers have one job in hand, unless a scan of that job outlived
\* claim_idle_ms: neither lost replies to XACK nor a producer that is slow spoil that.
THEOREM OneWorkerPerJob == Spec => []OneWorker
<1>1. IInv => OneWorker
  BY DEF IInv, HoldInv
<1>. QED
  BY <1>1, InductiveInvariant, PTL

\* In every behaviour of the queue, with scans that take too long, producers that
\* are overtaken and acknowledgements whose replies are lost: one worker per job, a
\* final status behind an acknowledgement, and a job given up after max_attempts
\* runs and not before, and run more often only for a death or a failed command;
\* each for every job but those to which the one thing happened that breaks it.
THEOREM QueueIsSafe == Spec => []JobsAreSafe
<1>1. IInv => JobsAreSafe
  <2>1. SUFFICES ASSUME IInv  PROVE JobsAreSafe
    OBVIOUS
  <2>2. OneWorker
    BY <2>1 DEF IInv, HoldInv
  <2>3. AckedIsFinal /\ FailedIsExhausted /\ AttemptsBounded
    BY <2>1 DEF IInv, JobInv, AckedIsFinal, FailedIsExhausted, AttemptsBounded, Clean, Kept, Punctual
  <2>. QED
    BY <2>2, <2>3 DEF JobsAreSafe
<1>. QED
  BY <1>1, InductiveInvariant, PTL

=============================================================================

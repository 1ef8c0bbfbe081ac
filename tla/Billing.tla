------------------------------- MODULE Billing -------------------------------
(***************************************************************************)
(* Crypto billing (service/billing.py): the threads that drive the store.  *)
(*                                                                         *)
(*  - HTTP threads run verify_transaction (one per Verifier) and the       *)
(*    short invoice requests;                                              *)
(*  - one PaymentMonitor thread loops: expire, scan the new blocks for     *)
(*    transfers, reconcile the events that wait for finality.              *)
(*                                                                         *)
(* No lock is held across two store calls or an RPC call, so each store    *)
(* method and each RPC read is a step, and what a thread read earlier is   *)
(* in its record: it may be stale when it is used.  The chain is the       *)
(* environment: blocks are appended, finalized, and replaced by reorgs     *)
(* above the finalized height.                                             *)
(***************************************************************************)
EXTENDS BillingStore

CONSTANTS
  Verifiers,      \* HTTP threads that may run verify_transaction
  PayerChoices,   \* the payer addresses invoices are requested with
  MayDeactivate,  \* the plans the admin may switch off and on
  ScanChunk, Lookback,
  MaxBlock, MaxReorgs, MaxFaults  \* bounds

ASSUME BillingAssumption ==
  /\ PayerChoices \subseteq Payers \cup {NoPayer}
  /\ MayDeactivate \subseteq Plans
  /\ ScanChunk \in Nat \ {0} /\ Lookback \in Nat
  /\ MaxBlock \in Nat /\ MaxReorgs \in Nat /\ MaxFaults \in Nat

VARIABLES
  head, final,  \* heights of the latest and the finalized block
  at,           \* the height of the block that holds the transfer, 0: none
  fork,         \* the number of reorgs that block was built after
  overdue,      \* transfers whose block is later than their invoice's expires_at
  reorgs,       \* how many reorgs happened
  replaced,     \* history: transfers whose block a reorg replaced after it was read
  moved,        \* history: those of them it left at another height, or nowhere
  mon,          \* the PaymentMonitor thread
  ver,          \* the verify_transaction calls
  faults        \* crashes and RPC failures so far

chainVars == <<head, final, at, fork, overdue, reorgs, replaced, moved>>
threadVars == <<mon, ver, faults>>
vars == <<storeVars, chainVars, threadVars>>

\* A block's hash is its height and the number of reorgs it was built after.
HashOf(t) == <<at[t], fork[t]>>

Logs == [tx : Txs, inv : 0..MaxInvoices, block : Nat, hash : Nat \X Nat]
MonitorPcs == {"sleep", "scan", "logs", "pick", "insert", "attach", "receipt",
               "finality", "update", "settle", "reconcile", "rows", "row",
               "drop", "reopen", "swap", "confirm", "credit", "wait"}
VerifierPcs == {"idle", "receipt", "finality", "insert", "attach", "update", "settle"}

\* log: the log or row in hand; auto: the invoice read with it had a payer.
Asleep == [pc |-> "sleep", latest |-> 0, todo |-> {}, log |-> NoTx,
           auto |-> FALSE, fin |-> 0]
Idle == [pc |-> "idle", inv |-> 0, tx |-> NoTx, payer |-> NoPayer, block |-> 0,
         hash |-> <<0, 0>>, fin |-> 0]

MonitorRows == [pc : MonitorPcs, latest : Nat, todo : SUBSET Logs,
                log : Logs \cup {NoTx}, auto : BOOLEAN, fin : Nat]
VerifierRows == [pc : VerifierPcs, inv : 0..MaxInvoices, tx : Txs \cup {NoTx},
                 payer : Payers \cup {NoPayer}, block : Nat, hash : Nat \X Nat, fin : Nat]

ChainTypeOK ==
  /\ head \in Nat /\ final \in Nat
  /\ at \in [Txs -> Nat] /\ fork \in [Txs -> Nat]
  /\ overdue \subseteq Txs /\ replaced \subseteq Txs /\ moved \subseteq Txs
  /\ reorgs \in Nat

TypeOK ==
  /\ StoreTypeOK /\ ChainTypeOK
  /\ mon \in MonitorRows /\ ver \in [Verifiers -> VerifierRows] /\ faults \in Nat

Init ==
  /\ StoreInit
  /\ head = 0 /\ final = 0
  /\ at = [t \in Txs |-> 0] /\ fork = [t \in Txs |-> 0]
  /\ overdue = {} /\ reorgs = 0 /\ replaced = {} /\ moved = {} /\ faults = 0
  /\ mon = Asleep
  /\ ver = [v \in Verifiers |-> Idle]

-----------------------------------------------------------------------------
(* The chain *)

LateIn(S) == {t \in S : AmountOf[t] \in lapsed}

\* A block holding the transfers of S; a payer learns an amount from its invoice.
Mine(S) ==
  /\ head < MaxBlock
  /\ \A t \in S : at[t] = 0 /\ (AmountOf[t] # 0 => Created(AmountOf[t]))
  /\ head' = head + 1
  /\ at' = [t \in Txs |-> IF t \in S THEN head + 1 ELSE at[t]]
  /\ fork' = [t \in Txs |-> IF t \in S THEN reorgs ELSE fork[t]]
  /\ overdue' = overdue \cup LateIn(S)
  /\ UNCHANGED <<final, reorgs, replaced, moved, storeVars, threadVars>>

Finalize ==
  /\ final' \in (final + 1)..head
  /\ UNCHANGED <<head, at, fork, overdue, reorgs, replaced, moved, storeVars, threadVars>>

\* Where the monitor has a log or a row in hand.
Holding == {"insert", "attach", "receipt", "finality", "update", "settle",
            "drop", "reopen", "swap", "confirm", "credit", "wait"}

\* The block of the transfer is in a row, or in what a thread has read.
Known(t) ==
  \/ Recorded(t)
  \/ \E l \in mon.todo : l.tx = t
  \/ mon.pc \in Holding /\ mon.log.tx = t
  \/ \E v \in Verifiers : ver[v].pc \notin {"idle", "receipt"} /\ ver[v].tx = t

\* The blocks from k up are replaced by as many others, which hold none, some
\* or all of the transfers of the old ones.
Reorg(k) ==
  /\ reorgs < MaxReorgs /\ k \in (final + 1)..head
  /\ reorgs' = reorgs + 1
  /\ LET hit == {t \in Txs : at[t] >= k} IN
       \E pos \in [hit -> {0} \cup k..head] :
         /\ at' = [t \in Txs |-> IF t \in hit THEN pos[t] ELSE at[t]]
         /\ fork' = [t \in Txs |-> IF t \in hit THEN reorgs + 1 ELSE fork[t]]
         /\ overdue' = (overdue \ hit) \cup LateIn({t \in hit : pos[t] # 0})
         /\ replaced' = replaced \cup {t \in hit : Known(t)}
         /\ moved' = moved \cup {t \in hit : Known(t) /\ pos[t] # at[t]}
  /\ UNCHANGED <<head, final, storeVars, threadVars>>

-----------------------------------------------------------------------------
(* The short HTTP requests *)

RequestInvoice(u, p, payer) ==
  /\ CreateInvoice(u, p, payer)
  /\ UNCHANGED <<chainVars, threadVars>>

\* get_invoice sweeps the overdue invoices before it reads.
ReadInvoice ==
  /\ MarkExpired
  /\ UNCHANGED <<chainVars, threadVars>>

-----------------------------------------------------------------------------
(* verify_transaction *)

VerifyStep(v, row) == ver' = [ver EXCEPT ![v] = row] /\ UNCHANGED <<mon, faults, chainVars>>
VerifyGoto(v, pc) == VerifyStep(v, [ver[v] EXCEPT !.pc = pc])
VerifyDone(v) == VerifyStep(v, Idle)

VerifyBegin(v, i, t) ==
  /\ ver[v].pc = "idle" /\ Created(i)
  /\ VerifyStep(v, [Idle EXCEPT !.pc = "receipt", !.inv = i, !.tx = t,
                                !.payer = invoice[i].payer])
  /\ UNCHANGED storeVars

\* The receipt is of a mined transfer of the exact amount from the right wallet.
Exact(c) ==
  at[c.tx] # 0 /\ AmountOf[c.tx] = c.inv /\ c.payer \in {NoPayer, SenderOf[c.tx]}

Accepted(c) == [c EXCEPT !.pc = "finality", !.block = at[c.tx], !.hash = HashOf(c.tx)]

\* The receipt, then the timestamp of the block it names, taken as one read (a reorg
\* between the two would change the timestamp only), and the checks made on them; a
\* refusal (or an RPC error) ends the call with nothing written.
VerifyReceipt(v) ==
  LET c == ver[v] IN
  /\ c.pc = "receipt"
  /\ \/ Exact(c) /\ c.tx \notin overdue /\ VerifyStep(v, Accepted(c))
     \/ VerifyDone(v)
  /\ UNCHANGED storeVars

VerifyFinality(v) ==
  /\ ver[v].pc = "finality"
  /\ \/ VerifyStep(v, [ver[v] EXCEPT !.pc = "insert", !.fin = final])
     \/ VerifyDone(v)
  /\ UNCHANGED storeVars

FinalityStatus(fin, block) == IF fin >= block THEN "confirmed" ELSE "confirming"

VerifyInsert(v) ==
  LET c == ver[v] IN
  /\ c.pc = "insert"
  /\ InsertPaymentEvent(c.tx, c.inv, FinalityStatus(c.fin, c.block), c.block, c.hash)
  /\ VerifyGoto(v, IF NeedsAttach(event'[c.tx]) THEN "attach" ELSE "update")

VerifyAttach(v) ==
  /\ ver[v].pc = "attach"
  /\ AttachInvoice(ver[v].tx, ver[v].inv)
  /\ VerifyGoto(v, "update")

\* Mutant: one block too early.
VerifyUpdateEarly(v) ==
  LET c == ver[v] IN
  /\ c.pc = "update"
  /\ UpdateEventConfirmation(c.tx, FinalityStatus(c.fin + 1, c.block), event[c.tx].hash)
  /\ IF c.fin + 1 >= c.block THEN VerifyGoto(v, "settle") ELSE VerifyDone(v)

VerifyUpdate(v) ==
  LET c == ver[v] IN
  /\ c.pc = "update"
  /\ UpdateEventConfirmation(c.tx, FinalityStatus(c.fin, c.block), event[c.tx].hash)
  /\ IF c.fin >= c.block THEN VerifyGoto(v, "settle") ELSE VerifyDone(v)

VerifySettle(v) ==
  /\ ver[v].pc = "settle"
  /\ Settle(ver[v].inv, ver[v].tx)
  /\ VerifyDone(v)

VerifyNext(v) ==
  \/ \E i \in Invoices, t \in Txs : VerifyBegin(v, i, t)
  \/ VerifyReceipt(v) \/ VerifyFinality(v) \/ VerifyInsert(v)
  \/ VerifyAttach(v) \/ VerifyUpdate(v) \/ VerifySettle(v)

-----------------------------------------------------------------------------
(* PaymentMonitor *)

MonitorStep(row) == mon' = row /\ UNCHANGED <<ver, faults, chainVars>>
MonitorGoto(pc) == MonitorStep([mon EXCEPT !.pc = pc])
MonitorReads(row) == MonitorStep(row) /\ UNCHANGED storeVars
NextLog == MonitorStep([mon EXCEPT !.pc = "pick", !.log = NoTx, !.auto = FALSE, !.fin = 0])
NextRow == MonitorStep([mon EXCEPT !.pc = "row", !.log = NoTx])

MonitorWake ==
  /\ mon.pc = "sleep"
  /\ MarkExpired
  /\ MonitorGoto("scan")

\* scan_once up to its loop.  The stored cursor restarts Lookback blocks back
\* when there is no row yet, and also when no block came since the last scan.
ScanStart ==
  /\ mon.pc = "scan"
  /\ \/ head = 0 /\ MonitorReads([mon EXCEPT !.pc = "reconcile"])
     \/ /\ head > 0
        /\ MoveCursor(IF nextBlock = NoRow \/ nextBlock > head
                      THEN IF head > Lookback THEN head - Lookback ELSE 0
                      ELSE nextBlock)
        /\ MonitorStep([mon EXCEPT !.pc = "logs", !.latest = head])

ChunkEnd == IF mon.latest < nextBlock + ScanChunk - 1
            THEN mon.latest ELSE nextBlock + ScanChunk - 1

LogOf(t, i) == [tx |-> t, inv |-> i, block |-> at[t], hash |-> HashOf(t)]

\* Mutant: the cursor is saved before the logs are processed.
ScanLogsEager ==
  /\ mon.pc = "logs"
  /\ MoveCursor(ChunkEnd + 1)
  /\ MonitorStep([mon EXCEPT !.pc = "pick", !.todo =
       {LogOf(t, 0) : t \in {s \in Txs : at[s] # 0 /\ at[s] \in nextBlock..ChunkEnd}}])

ScanLogs ==
  /\ mon.pc = "logs"
  /\ MonitorReads([mon EXCEPT !.pc = "pick", !.todo =
       {LogOf(t, 0) : t \in {s \in Txs : at[s] # 0 /\ at[s] \in nextBlock..ChunkEnd}}])

\* Logs and rows are taken in block order.
Earliest(l) == l \in mon.todo /\ \A m \in mon.todo : l.block <= m.block

ScanPick ==
  /\ mon.pc = "pick"
  /\ \E l \in mon.todo :
       /\ Earliest(l)
       /\ LET i == Matching(l.tx) IN
            MonitorReads([mon EXCEPT
              !.pc = "insert", !.todo = @ \ {l}, !.log = [l EXCEPT !.inv = i],
              !.auto = i # 0 /\ invoice[i].payer # NoPayer])

ScanInsert ==
  LET l == mon.log IN
  /\ mon.pc = "insert"
  /\ InsertPaymentEvent(l.tx, l.inv, "detected", l.block, l.hash)
  /\ IF l.inv = 0 THEN NextLog
     ELSE MonitorGoto(IF NeedsAttach(event'[l.tx]) THEN "attach" ELSE "receipt")

ScanAttach ==
  /\ mon.pc = "attach"
  /\ AttachInvoice(mon.log.tx, mon.log.inv)
  /\ MonitorGoto("receipt")

\* A log left without a receipt is not looked at again in this scan.
ScanReceipt ==
  /\ mon.pc = "receipt"
  /\ IF at[mon.log.tx] = 0 THEN NextLog ELSE MonitorGoto("finality")
  /\ UNCHANGED storeVars

ScanFinality ==
  /\ mon.pc = "finality"
  /\ MonitorReads([mon EXCEPT !.pc = "update", !.fin = final])

ScanUpdate ==
  LET l == mon.log IN
  /\ mon.pc = "update"
  /\ UpdateEventConfirmation(l.tx, FinalityStatus(mon.fin, l.block), event[l.tx].hash)
  /\ IF mon.fin >= l.block /\ mon.auto THEN MonitorGoto("settle") ELSE NextLog

ScanSettle ==
  /\ mon.pc = "settle"
  /\ Settle(mon.log.inv, mon.log.tx)
  /\ NextLog

\* Only now is the chunk behind the cursor.
ScanAdvance ==
  /\ mon.pc = "pick" /\ mon.todo = {}
  /\ MoveCursor(ChunkEnd + 1)
  /\ MonitorStep(IF ChunkEnd < mon.latest THEN [mon EXCEPT !.pc = "logs"]
                 ELSE [Asleep EXCEPT !.pc = "reconcile"])

\* reconcile_confirming
RowOf(t) == [tx |-> t, inv |-> event[t].inv, block |-> event[t].block, hash |-> event[t].hash]

ReconcileStart ==
  /\ mon.pc = "reconcile"
  /\ LET rows == {RowOf(t) : t \in {s \in Txs : event[s].status = "confirming"}} IN
       MonitorReads(IF rows = {} THEN Asleep
                    ELSE [mon EXCEPT !.pc = "rows", !.todo = rows])

ReconcileFinality ==
  /\ mon.pc = "rows"
  /\ MonitorReads([mon EXCEPT !.pc = "row", !.fin = final])

\* The receipt of the next row decides what is done with it.
ReconcileRow ==
  /\ mon.pc = "row"
  /\ \E l \in mon.todo :
       /\ Earliest(l)
       /\ MonitorReads([mon EXCEPT
            !.todo = @ \ {l},
            !.log = IF at[l.tx] # 0 THEN [l EXCEPT !.hash = HashOf(l.tx)] ELSE l,
            !.pc = IF at[l.tx] = 0 THEN "drop"
                   ELSE IF HashOf(l.tx) # l.hash THEN "swap"
                   ELSE IF mon.fin >= l.block THEN "confirm" ELSE "wait"])

ReconcileDrop ==
  LET l == mon.log IN
  /\ mon.pc = "drop"
  /\ UpdateEventConfirmation(l.tx, "reorged", event[l.tx].hash)
  /\ IF l.inv # 0 THEN MonitorGoto("reopen") ELSE NextRow

ReconcileReopen ==
  /\ mon.pc = "reopen"
  /\ ReopenInvoice(mon.log.inv)
  /\ NextRow

\* The hash is brought up to date, the block number is not.
ReconcileSwap ==
  /\ mon.pc = "swap"
  /\ UpdateEventConfirmation(mon.log.tx, "reorged", mon.log.hash)
  /\ NextRow

\* Mutant: the event is confirmed and left to somebody else.
ReconcileConfirmOnly ==
  /\ mon.pc = "confirm"
  /\ UpdateEventConfirmation(mon.log.tx, "confirmed", event[mon.log.tx].hash)
  /\ NextRow

ReconcileConfirm ==
  LET l == mon.log IN
  /\ mon.pc = "confirm"
  /\ UpdateEventConfirmation(l.tx, "confirmed", event[l.tx].hash)
  /\ IF l.inv # 0 THEN MonitorGoto("credit") ELSE NextRow

\* Whether the invoice has a payer is not asked here.
ReconcileCredit ==
  /\ mon.pc = "credit"
  /\ Settle(mon.log.inv, mon.log.tx)
  /\ NextRow

ReconcileWait ==
  /\ mon.pc = "wait"
  /\ UpdateEventConfirmation(mon.log.tx, "confirming", event[mon.log.tx].hash)
  /\ NextRow

ReconcileDone ==
  /\ mon.pc = "row" /\ mon.todo = {}
  /\ MonitorReads(Asleep)

MonitorNext ==
  \/ MonitorWake
  \/ ScanStart \/ ScanLogs \/ ScanPick \/ ScanInsert \/ ScanAttach \/ ScanReceipt
  \/ ScanFinality \/ ScanUpdate \/ ScanSettle \/ ScanAdvance
  \/ ReconcileStart \/ ReconcileFinality \/ ReconcileRow \/ ReconcileDrop
  \/ ReconcileReopen \/ ReconcileSwap \/ ReconcileConfirm \/ ReconcileCredit
  \/ ReconcileWait \/ ReconcileDone

-----------------------------------------------------------------------------
(* Failures, MaxFaults of them in a behaviour *)

Fault == faults < MaxFaults /\ faults' = faults + 1 /\ UNCHANGED <<storeVars, chainVars>>

\* The process dies between any two steps and restarts on the same database.
Crash ==
  /\ Fault
  /\ mon' = Asleep /\ ver' = [v \in Verifiers |-> Idle]

\* An RPC error propagates to run, which swallows it and waits for the next poll.
MonitorRpcError ==
  /\ mon.pc \in {"scan", "logs", "receipt", "finality", "rows", "row"}
  /\ Fault
  /\ mon' = Asleep /\ UNCHANGED ver

\* A provider that is behind the one that served the logs has no receipt.
NoReceiptYet ==
  /\ \/ /\ mon.pc = "receipt"
        /\ mon' = [mon EXCEPT !.pc = "pick", !.log = NoTx, !.auto = FALSE]
     \/ /\ mon.pc = "row"
        /\ \E l \in mon.todo :
             Earliest(l) /\ mon' = [mon EXCEPT !.pc = "drop", !.todo = @ \ {l}, !.log = l]
  /\ Fault
  /\ UNCHANGED ver

\* The provider does not have the block that the receipt names: without a timestamp
\* the expiry is not looked at.
NoTimestamp(v) ==
  /\ ver[v].pc = "receipt" /\ Exact(ver[v])
  /\ ver' = [ver EXCEPT ![v] = Accepted(ver[v])]
  /\ Fault
  /\ UNCHANGED mon

-----------------------------------------------------------------------------
Environment ==
  \/ \E S \in SUBSET Txs : Mine(S)
  \/ Finalize
  \/ \E k \in 1..MaxBlock : Reorg(k)
  \/ \E i \in Invoices : Lapse(i) /\ UNCHANGED <<chainVars, threadVars>>
  \/ \E p \in MayDeactivate : TogglePlan(p) /\ UNCHANGED <<chainVars, threadVars>>

Requests ==
  \/ \E u \in Users, p \in Plans, payer \in PayerChoices : RequestInvoice(u, p, payer)
  \/ ReadInvoice

Next ==
  \/ Environment \/ Requests \/ MonitorNext
  \/ \E v \in Verifiers : VerifyNext(v)
  \/ Crash \/ MonitorRpcError \/ NoReceiptYet \/ \E v \in Verifiers : NoTimestamp(v)

Spec == Init /\ [][Next]_vars

\* Blocks become final, threads run: the monitor polls for ever and a call that
\* began goes on; nobody is obliged to call.
VerifyContinues(v) == ver[v].pc # "idle" /\ VerifyNext(v)
FairSpec ==
  /\ Spec
  /\ WF_vars(Finalize) /\ WF_vars(MonitorNext)
  /\ \A v \in Verifiers : WF_vars(VerifyContinues(v))
-----------------------------------------------------------------------------
(* Properties *)

\* The row of a transfer is tied to no invoice but the one whose exact amount it
\* carries, whichever of the monitor and verify_transaction wrote the link.
LinksExact == \A t \in Txs : event[t].inv # 0 => event[t].inv = AmountOf[t]

\* A credit rests on a recorded transfer of the exact amount that was first seen
\* before the invoice expired, however late the settling thread came to it.
SettlementBacked ==
  \A i \in Invoices : Settled(i) =>
    LET t == settlement[i] IN AmountOf[t] = i /\ event[t].inv = i /\ ~event[t].late

\* An invoice reads paid exactly when a settlement row stands behind it: the
\* stale writes of attach, reopen and the expiry sweep never part the two.
PaidIffSettled == \A i \in Invoices : invoice[i].status = "paid" <=> Settled(i)

\* A user's subscription was extended once per settled invoice, although the
\* monitor and several verify calls settle the same payment concurrently.
CreditedOnce ==
  \A u \in Users : subscription[u].periods =
    Cardinality({i \in Invoices : Settled(i) /\ invoice[i].user = u})

\* A user never has two open invoices for one plan: create_invoice reuses the
\* open one, and nothing reopens an invoice that was closed.
OneOpenInvoice ==
  \A i, j \in Invoices :
    Open(i) /\ Open(j) /\ invoice[i].user = invoice[j].user
      /\ invoice[i].plan = invoice[j].plan => i = j

\* As long as no block was replaced, the scan cursor has not passed a transfer
\* that is not recorded, wherever the scan was interrupted.
NoPaymentSkipped ==
  reorgs = 0 => \A t \in Txs : at[t] # 0 /\ at[t] < nextBlock => Recorded(t)

\* A credited transfer is in a finalized block ("Settlement waits for Ethereum
\* finalized state"), unless a reorg put it at another height than one that was read:
\* reconcile_confirming brings the hash of its row up to date and not the height.
SettledIsFinal ==
  \A i \in Invoices : Settled(i) /\ settlement[i] \notin moved => at[settlement[i]] \in 1..final

\* When the reconciler credits an event, the block named by the receipt it just read
\* is final ("Settlement waits for Ethereum finalized state").  It compares the
\* event's block_number, which the reorg branch leaves at the height of the old block.
ReconciledIsFinal == mon.pc = "credit" => mon.log.hash[1] \in 1..mon.fin

\* An invoice tied to a wallet is credited by a transfer from that wallet only,
\* when the wallet is given as the invoice is created.
PayerRespected ==
  \A i \in Invoices : Settled(i) => invoice[i].payer \in {NoPayer, SenderOf[settlement[i]]}

\* A credit is for a transfer that the chain will not take back, and from the wallet
\* the invoice was bound to, whichever thread settled it on the strength of rows,
\* receipts and a final block it read some steps before, and though blocks were
\* replaced meanwhile.  Excepted is the finality of a transfer in `moved`: its block
\* was read and then replaced, and it was not mined again at the same height.
CreditsAreSound == SettledIsFinal /\ PayerRespected

\* Nothing takes a paid invoice back: not a verify call or a scan that still holds
\* the row it read before the settlement, not the reconciler, not the sweep.
PaidIsForever ==
  [][\A i \in Invoices : invoice[i].status = "paid" => invoice'[i] = invoice[i]]_vars

\* An expired invoice is not reopened, only a payment seen in time may still pay it.
ExpiredStaysClosed ==
  [][\A i \in Invoices : invoice[i].status = "expired" => invoice'[i].status \in {"expired", "paid"}]_vars

\* The monitor credits on its own only invoices with a known payer (billing.py:824,
\* "automatic settlement is intentionally blocked"); reconcile_confirming does not ask.
AutoSettleNeedsPayer ==
  [][\A i \in Invoices :
       Settled(i)' /\ ~Settled(i) /\ mon' # mon => invoice[i].payer # NoPayer]_vars

Timely(t) ==
  LET i == event[t].inv IN
    Recorded(t) /\ i # 0 /\ ~event[t].late /\ invoice[i].payer = SenderOf[t]
                /\ invoice[i].plan \in activePlans

\* What takes a payment out of the monitor's hands for good: a fault; a reorg that
\* replaced its block after it was read (the row is set to "reorged" or is left
\* "payment_detected", and neither is read again); a settlement refused because the
\* plan was switched off (the row is "confirmed" by then, and nothing reads it again).
Disturbed(i) ==
  \/ faults > 0
  \/ \E t \in replaced : AmountOf[t] = i
  \/ i \in refused

\* A finalized transfer from the known payer, recorded in time, is settled in the
\* end by the monitor, whatever verify calls interfere and write over its status,
\* unless it is Disturbed.
MonitorSettles ==
  \A t \in Txs : Timely(t) /\ at[t] \in 1..final ~> Settled(AmountOf[t]) \/ Disturbed(AmountOf[t])

\* An invoice with a payer does not stay open past its expiry: it is paid or it
\* expires, so that create_invoice can issue another, unless its payment is Disturbed:
\* then it stays 'confirming'.
LapsedInvoiceCloses ==
  \A i \in Invoices : i \in lapsed /\ invoice[i].payer # NoPayer ~> ~Open(i) \/ Disturbed(i)

\* The store implements the abstract ledger of settlements.
Ledger == INSTANCE SettlementLedger WITH
            owner <- [i \in Invoices |-> invoice[i].user],
            ledger <- settlement,
            periods <- [u \in Users |-> subscription[u].periods]

\* Every behaviour of the threads posts each invoice and each transfer at most
\* once, and credits the invoice's user exactly then.
ImplementsLedger == Ledger!Spec
==============================================================================

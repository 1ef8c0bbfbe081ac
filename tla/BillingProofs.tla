---------------------------- MODULE BillingProofs ----------------------------
(***************************************************************************)
(* The safety of billing for every number of invoices, transfers, users,   *)
(* verify calls, blocks, reorgs and faults.                                *)
(*                                                                         *)
(* The invariants of module Billing are not inductive: a thread settles    *)
(* and attaches with an invoice and a transfer it read some steps ago.     *)
(* ThreadInv says that what a thread holds still fits together (the        *)
(* transfer carries the amount of the invoice); StoreInv is what every     *)
(* store method preserves when it is called with such a pair.              *)
(*                                                                         *)
(* Three more invariants are built on IInv, each for one property:         *)
(* SoundInv (rows and threads know the block of a transfer that no reorg   *)
(* moved after it was read, and how far the chain is final), SkipInv (a transfer of the chunk at work is        *)
(* recorded or in the monitor's hands) and PayerInv (a link, or a pair a   *)
(* thread holds, has the right wallet).                                    *)
(***************************************************************************)
EXTENDS Billing, FiniteSetTheorems, TLAPS

CreditedTo(u) == {i \in Invoices : Settled(i) /\ invoice[i].user = u}

StoreInv ==
  /\ LinksExact
  /\ SettlementBacked
  /\ PaidIffSettled
  /\ OneOpenInvoice
  /\ CreditedOnce
  /\ \A t \in Txs : event[t].inv # 0 => Recorded(t) /\ Created(event[t].inv)
  /\ \A t \in Txs : event[t].late => AmountOf[t] \in lapsed
  /\ \A i \in Invoices : Created(i) => invoice[i].user \in Users /\ invoice[i].plan \in Plans
  /\ \A i \in Invoices : ~Created(i) => invoice[i] = NoInvoice

\* A transfer and the invoice it was matched with.
Paired(t, i) == t \in Txs /\ i \in Invoices /\ AmountOf[t] = i /\ Created(i)

LogInv(l) == l.inv # 0 => Paired(l.tx, l.inv)

MonInv(m) ==
  /\ \A l \in m.todo : LogInv(l)
  /\ m.pc \in {"insert", "attach", "receipt", "finality", "update", "settle",
               "drop", "reopen", "swap", "confirm", "credit", "wait"}
       => m.log \in Logs /\ LogInv(m.log)
  /\ m.pc \in {"attach", "receipt", "finality", "update", "settle", "reopen", "credit"}
       => m.log.inv # 0

VerInv(c) ==
  /\ c.pc # "idle" => c.tx \in Txs /\ c.inv \in Invoices /\ Created(c.inv)
  /\ c.pc \notin {"idle", "receipt"} => Paired(c.tx, c.inv)

ThreadInv == MonInv(mon) /\ \A v \in Verifiers : VerInv(ver[v])

IInv == TypeOK /\ StoreInv /\ ThreadInv

\* A step of the abstract ledger, or a stutter.
LedgerStep == [Ledger!Next]_(Ledger!ledgerVars)

\* What every store method guarantees of a step.
StoreStep ==
  /\ StoreTypeOK' /\ StoreInv'
  /\ \A i \in Invoices : Created(i) => Created(i)'
  /\ \A i \in Invoices : invoice[i].status = "paid" => invoice'[i] = invoice[i]
  /\ \A i \in Invoices :
       invoice[i].status = "expired" => invoice'[i].status \in {"expired", "paid"}
  /\ LedgerStep

-----------------------------------------------------------------------------
(* Store methods *)

\* Credits are untouched by a step that settles nothing and keeps the paid rows.
LEMMA CreditsKept ==
  ASSUME StoreTypeOK, StoreInv, UNCHANGED <<settlement, subscription>>,
         \A i \in Invoices : invoice[i].status = "paid" => invoice'[i] = invoice[i]
  PROVE  CreditedOnce'
<1>1. \A i \in Invoices : Settled(i)' <=> Settled(i)
  BY DEF Settled
<1>2. \A i \in Invoices : Settled(i) => invoice'[i] = invoice[i]
  BY DEF StoreInv, PaidIffSettled
<1>3. \A u \in Users : {i \in Invoices : Settled(i) /\ invoice[i].user = u}'
                         = {i \in Invoices : Settled(i) /\ invoice[i].user = u}
  BY <1>1, <1>2
<1>. QED
  BY <1>3 DEF StoreInv, CreditedOnce

\* The ledger does not move when nobody's invoices, credits or postings do.
LEMMA LedgerStutters ==
  ASSUME UNCHANGED <<settlement, subscription>>,
         \A i \in Invoices : invoice'[i].user = invoice[i].user
  PROVE  LedgerStep
BY DEF LedgerStep, Ledger!ledgerVars

LEMMA StutterStep ==
  ASSUME StoreTypeOK, StoreInv, UNCHANGED storeVars
  PROVE  StoreStep
<1>1. StoreTypeOK'
  BY DEF storeVars, StoreTypeOK
<1>2. CreditedOnce'
  BY CreditsKept DEF storeVars
<1>3. StoreInv'
  BY <1>2 DEF storeVars, StoreInv, LinksExact, SettlementBacked, PaidIffSettled,
              OneOpenInvoice, Open, Created, Settled, Recorded
<1>. QED
  BY <1>1, <1>3, LedgerStutters DEF storeVars, StoreStep, Created

\* Links stay links to recorded transfers and created invoices when the rows they
\* join are not taken away.
LEMMA LinksKept ==
  ASSUME StoreTypeOK, StoreInv, event' = event,
         \A i \in Invoices : Created(i) => Created(i)'
  PROVE  \A t \in Txs : event'[t].inv # 0 => Recorded(t)' /\ Created(event[t].inv)'
<1>1. \A t \in Txs : event[t].inv # 0 => event[t].inv \in Invoices
  BY StoreAssumption DEF StoreTypeOK, EventRows, Invoices
<1>. QED
  BY <1>1 DEF StoreInv, Recorded

LEMMA MarkExpiredStep ==
  ASSUME StoreTypeOK, StoreInv, MarkExpired
  PROVE  StoreStep
<1>. USE DEF OPEN_INVOICE_STATUSES, InvoiceStatuses
<1>1. \A i \in Invoices :
        /\ invoice'[i] \in InvoiceRows
        /\ invoice'[i].user = invoice[i].user /\ invoice'[i].plan = invoice[i].plan
        /\ \/ invoice'[i] = invoice[i]
           \/ invoice[i].status = "awaiting_payment" /\ invoice'[i].status = "expired"
  BY DEF StoreTypeOK, MarkExpired, Swept, InvoiceRows
<1>2. StoreTypeOK'
  BY <1>1 DEF StoreTypeOK, MarkExpired, Swept
<1>3. CreditedOnce'
  BY <1>1, CreditsKept DEF MarkExpired
<1>4. LinksExact' /\ SettlementBacked' /\ PaidIffSettled' /\ OneOpenInvoice'
  BY <1>1 DEF MarkExpired, StoreInv, LinksExact, SettlementBacked, PaidIffSettled,
              OneOpenInvoice, Open, Settled
<1>5. \A t \in Txs : event'[t].inv # 0 => Recorded(t)' /\ Created(event[t].inv)'
  BY <1>1 DEF StoreInv, MarkExpired, Created, Recorded, LinksExact, Invoices, StoreTypeOK, EventRows
<1>6. \A t \in Txs : event'[t].late => AmountOf[t] \in lapsed'
  BY DEF StoreInv, MarkExpired
<1>7. \A i \in Invoices : ~Created(i)' => invoice'[i] = NoInvoice
  BY <1>1 DEF StoreInv, Created
<1>8. \A i \in Invoices : Created(i)' => invoice'[i].user \in Users /\ invoice'[i].plan \in Plans
  BY <1>1 DEF StoreInv, Created
<1>9. StoreInv'
  BY <1>3, <1>4, <1>5, <1>6, <1>7, <1>8 DEF StoreInv
<1>. QED
  BY <1>1, <1>2, <1>9, LedgerStutters DEF MarkExpired, StoreStep, Created

\* The open invoice that create_invoice picks is the only one there is.
LEMMA ReuseStep ==
  ASSUME StoreTypeOK, StoreInv, NEW u \in Users, NEW p \in Plans,
         NEW payer \in Payers \cup {NoPayer}, ReuseInvoice(u, p, payer),
         UNCHANGED <<event, settlement, subscription, nextBlock, lapsed, activePlans, refused>>
  PROVE  StoreStep
<1>. USE DEF OPEN_INVOICE_STATUSES, InvoiceStatuses
<1>1. PICK k \in OpenFor(u, p) : OpenFor(u, p) = {k}
  <2>1. \A i \in Invoices : /\ Swept[i].user = invoice[i].user /\ Swept[i].plan = invoice[i].plan
                            /\ Swept[i].status \in OPEN_INVOICE_STATUSES => Open(i)
    BY DEF Swept, Open, StoreTypeOK, InvoiceRows
  <2>2. \A i, j \in OpenFor(u, p) : i = j
    BY <2>1 DEF OpenFor, StoreInv, OneOpenInvoice
  <2>. QED
    BY <2>2 DEF ReuseInvoice
<1>2. k \in Invoices /\ Swept[k].status \in OPEN_INVOICE_STATUSES
  BY DEF OpenFor
<1>3. Latest(OpenFor(u, p)) = k
  BY <1>1, <1>2 DEF Latest, Invoices
<1>4. invoice' = IF Swept[k].payer = NoPayer THEN [Swept EXCEPT ![k].payer = payer] ELSE Swept
  BY <1>3 DEF ReuseInvoice
<1>5. \A i \in Invoices :
        /\ Swept[i] \in InvoiceRows
        /\ Swept[i].user = invoice[i].user /\ Swept[i].plan = invoice[i].plan
        /\ \/ Swept[i] = invoice[i]
           \/ invoice[i].status = "awaiting_payment" /\ Swept[i].status = "expired"
  BY DEF StoreTypeOK, Swept, InvoiceRows
<1>6. /\ invoice' \in [Invoices -> InvoiceRows]
      /\ \A i \in Invoices :
           /\ invoice'[i].user = invoice[i].user /\ invoice'[i].plan = invoice[i].plan
           /\ invoice'[i].status = Swept[i].status
           /\ i # k => invoice'[i] = Swept[i]
  <2>. DEFINE new == [Swept[k] EXCEPT !.payer = payer]
  <2>1. Swept \in [Invoices -> InvoiceRows]
    BY <1>5 DEF Swept
  <2>2. new \in InvoiceRows /\ new.user = Swept[k].user /\ new.plan = Swept[k].plan
        /\ new.status = Swept[k].status
    BY <1>2, <1>5 DEF InvoiceRows
  <2>3. invoice' = Swept \/ invoice' = [Swept EXCEPT ![k] = new]
    BY <1>4
  <2>. HIDE DEF new
  <2>4. \A i \in Invoices : invoice'[i] = Swept[i] \/ (i = k /\ invoice'[i] = new)
    BY <2>1, <2>3, <1>2
  <2>. QED
    BY <1>2, <1>5, <2>1, <2>2, <2>3, <2>4
<1>7. \A i \in Invoices :
        \/ invoice'[i] = invoice[i]
        \/ invoice[i].status = "awaiting_payment" /\ invoice'[i].status = "expired"
        \/ Open(i) /\ invoice'[i].status = invoice[i].status
  BY <1>2, <1>5, <1>6 DEF Open
<1>. HIDE <1>4
<1>8. StoreTypeOK'
  BY <1>6 DEF StoreTypeOK
<1>9. CreditedOnce'
  BY <1>7, CreditsKept DEF Open
<1>10. LinksExact' /\ SettlementBacked' /\ PaidIffSettled' /\ OneOpenInvoice'
  BY <1>6, <1>7 DEF StoreInv, LinksExact, SettlementBacked, PaidIffSettled,
                    OneOpenInvoice, Open, Settled
<1>11. \A t \in Txs : event'[t].inv # 0 => Recorded(t)' /\ Created(event[t].inv)'
  BY <1>7 DEF StoreInv, Created, Recorded, Open, Invoices, StoreTypeOK, EventRows
<1>12. \A i \in Invoices : ~Created(i)' => invoice'[i] = NoInvoice
  BY <1>7 DEF StoreInv, Created, Open
<1>13. \A i \in Invoices : Created(i)' => invoice'[i].user \in Users /\ invoice'[i].plan \in Plans
  BY <1>6, <1>7 DEF StoreInv, Created, Open
<1>14. StoreInv'
  BY <1>9, <1>10, <1>11, <1>12, <1>13 DEF StoreInv
<1>. QED
  BY <1>5, <1>6, <1>7, <1>8, <1>14, LedgerStutters DEF StoreStep, Created, Open

LEMMA FreshStep ==
  ASSUME StoreTypeOK, StoreInv, NEW u \in Users, NEW p \in Plans,
         NEW payer \in Payers \cup {NoPayer}, FreshInvoice(u, p, payer),
         UNCHANGED <<event, settlement, subscription, nextBlock, lapsed, activePlans, refused>>
  PROVE  StoreStep
<1>. USE DEF OPEN_INVOICE_STATUSES, InvoiceStatuses
<1>. DEFINE row == [status |-> "awaiting_payment", user |-> u, plan |-> p, payer |-> payer]
<1>1. PICK k \in Invoices : ~Created(k) /\ invoice' = [Swept EXCEPT ![k] = row]
  BY DEF FreshInvoice
<1>2. \A i \in Invoices :
        /\ Swept[i] \in InvoiceRows
        /\ Swept[i].user = invoice[i].user /\ Swept[i].plan = invoice[i].plan
        /\ \/ Swept[i] = invoice[i]
           \/ invoice[i].status = "awaiting_payment" /\ Swept[i].status = "expired"
  BY DEF StoreTypeOK, Swept, InvoiceRows
<1>3. /\ invoice' \in [Invoices -> InvoiceRows]
      /\ invoice'[k] = row
      /\ \A i \in Invoices : i # k => invoice'[i] = Swept[i]
  BY <1>1, <1>2 DEF Swept, InvoiceRows
<1>4. ~Settled(k)
  BY <1>1 DEF StoreInv, PaidIffSettled, Created
<1>5. \A i \in Invoices : Open(i)' /\ i # k => Open(i) /\ ~(invoice[i].user = u /\ invoice[i].plan = p)
  BY <1>2, <1>3 DEF Open, FreshInvoice, OpenFor
<1>6. \A i \in Invoices : invoice[i].status = "paid" => invoice'[i] = invoice[i]
  BY <1>1, <1>2, <1>3 DEF Created
<1>7. StoreTypeOK'
  BY <1>3 DEF StoreTypeOK
<1>8. CreditedOnce'
  BY <1>6, CreditsKept
<1>9. OneOpenInvoice'
  <2>1. SUFFICES ASSUME NEW i \in Invoices, NEW j \in Invoices, Open(i)', Open(j)',
                        invoice'[i].user = invoice'[j].user, invoice'[i].plan = invoice'[j].plan
                 PROVE  i = j
    BY DEF OneOpenInvoice
  <2>2. CASE i # k /\ j # k
    BY <1>2, <1>3, <1>5, <2>1, <2>2 DEF StoreInv, OneOpenInvoice
  <2>3. CASE i = k \/ j = k
    BY <1>2, <1>3, <1>5, <2>1, <2>3
  <2>. QED
    BY <2>2, <2>3
<1>10. LinksExact' /\ SettlementBacked' /\ PaidIffSettled'
  BY <1>2, <1>3, <1>4 DEF StoreInv, LinksExact, SettlementBacked, PaidIffSettled, Settled
<1>11. \A i \in Invoices : Created(i) => Created(i)'
  BY <1>1, <1>2, <1>3 DEF Created
<1>12. \A i \in Invoices : ~Created(i)' => invoice'[i] = NoInvoice
  BY <1>2, <1>3 DEF StoreInv, Created
<1>13. \A i \in Invoices : Created(i)' => invoice'[i].user \in Users /\ invoice'[i].plan \in Plans
  BY <1>2, <1>3 DEF StoreInv, Created
<1>14. StoreInv'
  BY <1>8, <1>9, <1>10, <1>11, <1>12, <1>13, LinksKept DEF StoreInv
<1>15. LedgerStep
  <2>1. /\ \A i \in Invoices : invoice'[i].user = IF i = k THEN u ELSE invoice[i].user
        /\ invoice[k].user = NoUser
    BY <1>1, <1>2, <1>3 DEF StoreInv, NoInvoice
  <2>2. Ledger!Issue(k, u)
    BY <2>1 DEF Ledger!Issue
  <2>. QED
    BY <2>2 DEF LedgerStep, Ledger!Next
<1>. QED
  BY <1>1, <1>2, <1>3, <1>6, <1>7, <1>11, <1>14, <1>15 DEF StoreStep, Created

LEMMA CreateInvoiceStep ==
  ASSUME StoreTypeOK, StoreInv, NEW u \in Users, NEW p \in Plans,
         NEW payer \in Payers \cup {NoPayer}, CreateInvoice(u, p, payer)
  PROVE  StoreStep
BY ReuseStep, FreshStep DEF CreateInvoice

\* A method that writes events only: the links it leaves are exact, and the
\* transfers behind settlements keep their link and their first_seen_at.
LEMMA EventStep ==
  ASSUME StoreTypeOK, StoreInv,
         UNCHANGED <<invoice, settlement, subscription, nextBlock, lapsed, activePlans, refused>>,
         event' \in [Txs -> EventRows],
         \A t \in Txs : event'[t].inv # 0 =>
                        /\ event'[t].inv = AmountOf[t]
                        /\ Recorded(t)' /\ Created(event'[t].inv),
         \A t \in Txs : Recorded(t) => /\ event'[t].inv = event[t].inv
                                       /\ event'[t].late = event[t].late,
         \A t \in Txs : event'[t].late => AmountOf[t] \in lapsed
  PROVE  StoreStep
<1>1. StoreTypeOK'
  BY DEF StoreTypeOK
<1>2. CreditedOnce'
  BY CreditsKept
<1>3. \A i \in Invoices : Settled(i) => settlement[i] \in Txs /\ Recorded(settlement[i])
  <2>1. \A i \in Invoices : Settled(i) => settlement[i] \in Txs /\ i # 0
    BY DEF StoreTypeOK, Settled, Invoices
  <2>. QED
    BY <2>1 DEF StoreInv, SettlementBacked
<1>4. SettlementBacked'
  BY <1>3 DEF StoreInv, SettlementBacked, Settled
<1>5. LinksExact' /\ PaidIffSettled' /\ OneOpenInvoice'
  BY DEF StoreInv, LinksExact, PaidIffSettled, OneOpenInvoice, Open, Settled
<1>6. StoreInv'
  BY <1>2, <1>4, <1>5 DEF StoreInv, Created
<1>. QED
  BY <1>1, <1>6, LedgerStutters DEF StoreStep, Created

LEMMA InsertStep ==
  ASSUME StoreTypeOK, StoreInv, NEW t \in Txs, NEW i \in 0..MaxInvoices,
         i # 0 => Paired(t, i),
         NEW status \in EventStatuses \ {"none"}, NEW block \in Nat,
         NEW hash \in Nat \X Nat, InsertPaymentEvent(t, i, status, block, hash)
  PROVE  StoreStep /\ Recorded(t)'
<1>. DEFINE row == [status |-> status, inv |-> i, block |-> block, hash |-> hash,
                    late |-> AmountOf[t] \in lapsed]
<1>1. CASE Recorded(t)
  <2>1. event' = event
    BY <1>1 DEF InsertPaymentEvent
  <2>2. \A s \in Txs : event[s].inv # 0 => event[s].inv = AmountOf[s] /\ Recorded(s)
                                          /\ Created(event[s].inv)
    BY DEF StoreInv, LinksExact
  <2>. QED
    BY <1>1, <2>1, <2>2, EventStep DEF InsertPaymentEvent, StoreTypeOK, StoreInv, Recorded
<1>2. CASE ~Recorded(t)
  <2>1. event' = [event EXCEPT ![t] = row]
    BY <1>2 DEF InsertPaymentEvent
  <2>2. row \in EventRows
    BY DEF EventRows
  <2>3. /\ event' \in [Txs -> EventRows] /\ event'[t] = row
        /\ \A s \in Txs : s # t => event'[s] = event[s]
    BY <2>1, <2>2 DEF StoreTypeOK
  <2>4. Recorded(t)'
    BY <2>3 DEF Recorded
  <2>5. \A s \in Txs : event'[s].inv # 0 => event'[s].inv = AmountOf[s] /\ Recorded(s)'
                                           /\ Created(event'[s].inv)
    BY <2>3, <2>4 DEF StoreInv, LinksExact, Paired, Recorded
  <2>6. \A s \in Txs : Recorded(s) => /\ event'[s].inv = event[s].inv
                                      /\ event'[s].late = event[s].late
    BY <1>2, <2>3
  <2>7. \A s \in Txs : event'[s].late => AmountOf[s] \in lapsed
    <3>1. row.late = (AmountOf[t] \in lapsed)
      OBVIOUS
    <3>. HIDE DEF row
    <3>2. event'[t].late => AmountOf[t] \in lapsed
      BY <2>3, <3>1
    <3>. QED
      BY <2>3, <3>2 DEF StoreInv
  <2>. QED
    BY <2>3, <2>4, <2>5, <2>6, <2>7, EventStep DEF InsertPaymentEvent
<1>. QED
  BY <1>1, <1>2

LEMMA UpdateStep ==
  ASSUME StoreTypeOK, StoreInv, NEW t \in Txs,
         NEW status \in EventStatuses \ {"none"}, NEW hash \in Nat \X Nat,
         UpdateEventConfirmation(t, status, hash)
  PROVE  StoreStep
<1>. DEFINE row == [event[t] EXCEPT !.status = status, !.hash = hash]
<1>1. /\ row \in EventRows /\ row.inv = event[t].inv /\ row.late = event[t].late
      /\ row.status = status
  BY DEF StoreTypeOK, EventRows
<1>2. event' = [event EXCEPT ![t] = row]
  BY DEF UpdateEventConfirmation
<1>. HIDE DEF row
<1>3. /\ event' \in [Txs -> EventRows] /\ event'[t] = row
      /\ \A s \in Txs : s # t => event'[s] = event[s]
  BY <1>1, <1>2 DEF StoreTypeOK
<1>4. \A s \in Txs : /\ event'[s].inv = event[s].inv /\ event'[s].late = event[s].late
                     /\ Recorded(s) => Recorded(s)'
  BY <1>1, <1>3 DEF Recorded
<1>5. \A s \in Txs : event'[s].inv # 0 => event'[s].inv = AmountOf[s] /\ Recorded(s)'
                                         /\ Created(event'[s].inv)
  BY <1>4 DEF StoreInv, LinksExact
<1>. QED
  BY <1>3, <1>4, <1>5, EventStep DEF UpdateEventConfirmation, StoreInv

\* A method that moves open invoices to an open status and changes nothing else.
LEMMA StatusStep ==
  ASSUME StoreTypeOK, StoreInv, NEW i \in Invoices, NEW status \in OPEN_INVOICE_STATUSES,
         Open(i), invoice' = [invoice EXCEPT ![i].status = status],
         UNCHANGED <<event, settlement, subscription, nextBlock, lapsed, activePlans, refused>>
  PROVE  StoreStep
<1>. DEFINE row == [invoice[i] EXCEPT !.status = status]
<1>1. /\ row \in InvoiceRows /\ row.user = invoice[i].user /\ row.plan = invoice[i].plan
      /\ row.status \in OPEN_INVOICE_STATUSES
  BY DEF StoreTypeOK, InvoiceRows, InvoiceStatuses
<1>2. invoice' = [invoice EXCEPT ![i] = row]
  OBVIOUS
<1>. HIDE DEF row
<1>3. /\ invoice' \in [Invoices -> InvoiceRows] /\ invoice'[i] = row
      /\ \A j \in Invoices : j # i => invoice'[j] = invoice[j]
  BY <1>1, <1>2 DEF StoreTypeOK
<1>4. StoreTypeOK'
  BY <1>3 DEF StoreTypeOK
<1>5. /\ \A j \in Invoices : (Open(j)' <=> Open(j)) /\ (Created(j)' <=> Created(j))
      /\ \A j \in Invoices : invoice[j].status \in {"paid", "expired"} => invoice'[j] = invoice[j]
      /\ \A j \in Invoices : invoice'[j].status = "paid" => invoice'[j] = invoice[j]
      /\ \A j \in Invoices : invoice'[j].user = invoice[j].user /\ invoice'[j].plan = invoice[j].plan
      /\ \A j \in Invoices : Created(j) \/ invoice'[j] = invoice[j]
  BY <1>1, <1>3 DEF Open, Created, OPEN_INVOICE_STATUSES
<1>6. CreditedOnce'
  BY <1>5, CreditsKept
<1>7. LinksExact' /\ SettlementBacked' /\ PaidIffSettled'
  BY <1>5 DEF StoreInv, LinksExact, SettlementBacked, PaidIffSettled, Settled
<1>8. OneOpenInvoice'
  BY <1>5 DEF StoreInv, OneOpenInvoice
<1>9. StoreInv'
  BY <1>5, <1>6, <1>7, <1>8, LinksKept DEF StoreInv
<1>. QED
  BY <1>4, <1>5, <1>9, LedgerStutters DEF StoreStep

LEMMA ReopenStep ==
  ASSUME StoreTypeOK, StoreInv, NEW i \in Invoices, ReopenInvoice(i)
  PROVE  StoreStep
<1>1. CASE invoice[i].status = "confirming"
  BY <1>1, StatusStep DEF ReopenInvoice, Open, OPEN_INVOICE_STATUSES
<1>2. CASE invoice[i].status # "confirming"
  BY <1>2, StutterStep DEF ReopenInvoice, storeVars
<1>. QED
  BY <1>1, <1>2

\* The transfer is recorded by now; its link was its amount's invoice or none.
LEMMA AttachStep ==
  ASSUME StoreTypeOK, StoreInv, NEW t, NEW i, Paired(t, i), AttachInvoice(t, i)
  PROVE  StoreStep
<1>. USE DEF OPEN_INVOICE_STATUSES
<1>. DEFINE status == IF i \in lapsed THEN "rejected" ELSE "payment_detected"
            row == [event[t] EXCEPT !.inv = i, !.status = status]
            paying == [invoice[i] EXCEPT !.status = "confirming"]
<1>1. t \in Txs /\ i \in Invoices /\ AmountOf[t] = i /\ Created(i)
  BY DEF Paired
<1>2. /\ row \in EventRows /\ row.inv = i /\ row.late = event[t].late
      /\ row.status # "none"
  <2>1. status \in EventStatuses \ {"none"}
    BY DEF EventStatuses
  <2>2. event[t] \in EventRows /\ i \in 0..MaxInvoices
    BY <1>1, StoreAssumption DEF StoreTypeOK, Invoices
  <2>. HIDE DEF status
  <2>. QED
    BY <2>1, <2>2 DEF EventRows
<1>3. event' = [event EXCEPT ![t] = row]
  BY DEF AttachInvoice
<1>4. /\ paying \in InvoiceRows /\ paying.user = invoice[i].user
      /\ paying.plan = invoice[i].plan /\ paying.status = "confirming"
  BY <1>1 DEF StoreTypeOK, InvoiceRows, InvoiceStatuses
<1>5. \/ invoice' = invoice
      \/ Open(i) /\ invoice' = [invoice EXCEPT ![i] = paying]
  BY DEF AttachInvoice
<1>. HIDE DEF row, paying
<1>6. /\ event' \in [Txs -> EventRows] /\ event'[t] = row
      /\ \A s \in Txs : s # t => event'[s] = event[s]
  BY <1>1, <1>2, <1>3 DEF StoreTypeOK
<1>7. /\ invoice' \in [Invoices -> InvoiceRows]
      /\ \A j \in Invoices : \/ invoice'[j] = invoice[j]
                             \/ j = i /\ Open(i) /\ invoice'[j] = paying
  BY <1>1, <1>4, <1>5 DEF StoreTypeOK
<1>8. /\ \A j \in Invoices : (Open(j)' <=> Open(j)) /\ (Created(j)' <=> Created(j))
      /\ \A j \in Invoices : invoice[j].status \in {"paid", "expired"} => invoice'[j] = invoice[j]
      /\ \A j \in Invoices : invoice'[j].status = "paid" => invoice'[j] = invoice[j]
      /\ \A j \in Invoices : invoice'[j].user = invoice[j].user /\ invoice'[j].plan = invoice[j].plan
      /\ \A j \in Invoices : Created(j) \/ invoice'[j] = invoice[j]
  BY <1>4, <1>7 DEF Open, Created
<1>9. /\ UNCHANGED <<settlement, subscription, nextBlock, lapsed, activePlans, refused>>
      /\ \A j \in Invoices : Settled(j)' <=> Settled(j)
  BY DEF AttachInvoice, Settled
<1>10. StoreTypeOK'
  BY <1>6, <1>7, <1>9 DEF StoreTypeOK
<1>11. CreditedOnce'
  BY <1>8, <1>9, CreditsKept
<1>12. SettlementBacked'
  <2>1. SUFFICES ASSUME NEW j \in Invoices, Settled(j)
                 PROVE  LET s == settlement[j] IN
                          AmountOf[s] = j /\ event'[s].inv = j /\ ~event'[s].late
    BY <1>9 DEF SettlementBacked
  <2>2. settlement[j] \in Txs
    BY <2>1 DEF StoreTypeOK, Settled
  <2>. QED
    BY <1>1, <1>2, <1>6, <2>1, <2>2 DEF StoreInv, SettlementBacked
<1>13. LinksExact'
  BY <1>1, <1>2, <1>6 DEF StoreInv, LinksExact
<1>14. PaidIffSettled' /\ OneOpenInvoice'
  BY <1>8, <1>9 DEF StoreInv, PaidIffSettled, OneOpenInvoice
<1>15. \A s \in Txs : event'[s].inv # 0 => Recorded(s)' /\ Created(event[s].inv)'
  <2>1. \A s \in Txs : event'[s].inv # 0 => event'[s].inv \in Invoices
    BY <1>6, StoreAssumption DEF EventRows, Invoices
  <2>2. \A s \in Txs : event'[s].inv # 0 => Recorded(s)' /\ Created(event'[s].inv)
    BY <1>1, <1>2, <1>6 DEF StoreInv, Recorded
  <2>. QED
    BY <1>8, <2>1, <2>2 DEF Created
<1>16. \A s \in Txs : event'[s].late => AmountOf[s] \in lapsed'
  BY <1>2, <1>6, <1>9 DEF StoreInv
<1>17. StoreInv'
  BY <1>8, <1>11, <1>12, <1>13, <1>14, <1>15, <1>16 DEF StoreInv
<1>. QED
  BY <1>8, <1>9, <1>10, <1>17, LedgerStutters DEF StoreStep

LEMMA ClockStep ==
  ASSUME StoreTypeOK, StoreInv, lapsed \subseteq lapsed', lapsed' \subseteq Invoices,
         activePlans' \subseteq Plans, nextBlock' \in Int, refused' \subseteq Invoices,
         UNCHANGED <<invoice, event, settlement, subscription>>
  PROVE  StoreStep
<1>1. StoreTypeOK'
  BY DEF StoreTypeOK
<1>2. CreditedOnce'
  BY CreditsKept
<1>3. StoreInv'
  BY <1>2 DEF StoreInv, LinksExact, SettlementBacked, PaidIffSettled,
              OneOpenInvoice, Open, Created, Settled, Recorded
<1>. QED
  BY <1>1, <1>3, LedgerStutters DEF StoreStep, Created

\* The one method that credits: a settlement row, the paid status and the period
\* come together, and only for an invoice that had none of them.
LEMMA SettleStep ==
  ASSUME StoreTypeOK, StoreInv, NEW t, NEW i, Paired(t, i), Settle(i, t)
  PROVE  StoreStep
<1>. USE DEF OPEN_INVOICE_STATUSES
<1>. DEFINE u == invoice[i].user
            sub == [plan |-> invoice[i].plan, periods |-> subscription[u].periods + 1]
            paid == [invoice[i] EXCEPT !.status = "paid"]
            row == [event[t] EXCEPT !.status = "settled"]
<1>1. CASE ~(MaySettle(i, t) /\ EventUnused(t))
  <2>1. UNCHANGED <<invoice, event, settlement, subscription>>
    BY <1>1 DEF Settle
  <2>2. i \in Invoices /\ refused' \subseteq Invoices /\ lapsed' = lapsed
        /\ activePlans' = activePlans /\ nextBlock' = nextBlock
    BY <1>1 DEF Settle, Paired, StoreTypeOK
  <2>. QED
    BY <2>1, <2>2, ClockStep DEF StoreTypeOK
<1>2. CASE MaySettle(i, t) /\ EventUnused(t)
  <2>1. /\ t \in Txs /\ i \in Invoices /\ AmountOf[t] = i /\ Created(i)
        /\ u \in Users /\ invoice[i].plan \in Plans
        /\ ~Settled(i) /\ event[t].inv = i
    BY <1>2 DEF Paired, MaySettle, StoreInv
  <2>2. ~event[t].late
    BY <1>2, <2>1 DEF MaySettle, StoreInv
  <2>3. /\ paid \in InvoiceRows /\ paid.user = u /\ paid.plan = invoice[i].plan
        /\ paid.status = "paid"
    BY <2>1 DEF StoreTypeOK, InvoiceRows, InvoiceStatuses
  <2>4. /\ row \in EventRows /\ row.inv = i /\ row.late = event[t].late
        /\ row.status = "settled"
    BY <2>1 DEF StoreTypeOK, EventRows, EventStatuses
  <2>5. sub \in [plan : Plans \cup {NoPlan}, periods : Nat]
    BY <2>1 DEF StoreTypeOK
  <2>6. /\ subscription' = [subscription EXCEPT ![u] = sub]
        /\ settlement' = [settlement EXCEPT ![i] = t]
        /\ invoice' = [invoice EXCEPT ![i] = paid]
        /\ event' = [event EXCEPT ![t] = row]
        /\ UNCHANGED <<nextBlock, lapsed, activePlans, refused>>
    BY <1>2, <2>1 DEF Settle, StoreTypeOK
  <2>. HIDE DEF paid, row
  <2>7. /\ invoice' \in [Invoices -> InvoiceRows] /\ invoice'[i] = paid
        /\ \A j \in Invoices : j # i => invoice'[j] = invoice[j]
    BY <2>1, <2>3, <2>6 DEF StoreTypeOK
  <2>8. /\ event' \in [Txs -> EventRows] /\ event'[t] = row
        /\ \A s \in Txs : s # t => event'[s] = event[s]
    BY <2>1, <2>4, <2>6 DEF StoreTypeOK
  <2>9. /\ settlement' \in [Invoices -> Txs \cup {NoTx}] /\ settlement'[i] = t
        /\ \A j \in Invoices : j # i => settlement'[j] = settlement[j]
    BY <2>1, <2>6 DEF StoreTypeOK
  <2>10. /\ subscription' \in [Users -> [plan : Plans \cup {NoPlan}, periods : Nat]]
         /\ subscription'[u].periods = subscription[u].periods + 1
         /\ \A w \in Users : w # u => subscription'[w] = subscription[w]
    BY <2>1, <2>5, <2>6 DEF StoreTypeOK
  <2>11. StoreTypeOK'
    BY <2>6, <2>7, <2>8, <2>9, <2>10 DEF StoreTypeOK
  <2>12. Settled(i)' /\ \A j \in Invoices : j # i => (Settled(j)' <=> Settled(j))
    BY <2>1, <2>9, StoreAssumption DEF Settled
  <2>13. CreditedOnce'
    <3>1. SUFFICES ASSUME NEW w \in Users
                   PROVE  subscription'[w].periods = Cardinality(CreditedTo(w)')
      BY DEF CreditedOnce, CreditedTo
    <3>2. /\ subscription[w].periods = Cardinality(CreditedTo(w))
          /\ IsFiniteSet(CreditedTo(w))
      <4>1. IsFiniteSet(Invoices)
        BY FS_Interval, StoreAssumption DEF Invoices
      <4>2. CreditedTo(w) \subseteq Invoices
        BY DEF CreditedTo
      <4>. QED
        BY <4>1, <4>2, FS_Subset DEF StoreInv, CreditedOnce, CreditedTo
    <3>3. CASE w = u
      <4>1. CreditedTo(w)' = CreditedTo(w) \cup {i} /\ i \notin CreditedTo(w)
        BY <2>1, <2>3, <2>7, <2>12, <3>3 DEF CreditedTo
      <4>. QED
        BY <2>10, <3>2, <3>3, <4>1, FS_AddElement
    <3>4. CASE w # u
      <4>1. CreditedTo(w)' = CreditedTo(w)
        BY <2>1, <2>3, <2>7, <2>12, <3>4 DEF CreditedTo
      <4>. QED
        BY <2>10, <3>2, <3>4, <4>1
    <3>. QED
      BY <3>3, <3>4
  <2>14. SettlementBacked'
    <3>1. SUFFICES ASSUME NEW j \in Invoices, Settled(j)'
                   PROVE  LET s == settlement'[j] IN
                            AmountOf[s] = j /\ event'[s].inv = j /\ ~event'[s].late
      BY DEF SettlementBacked
    <3>2. CASE j = i
      BY <2>1, <2>2, <2>4, <2>8, <2>9, <3>2
    <3>3. CASE j # i
      <4>1. Settled(j) /\ settlement'[j] = settlement[j] /\ settlement[j] \in Txs
        BY <2>9, <2>12, <3>1, <3>3 DEF Settled, StoreTypeOK
      <4>2. settlement[j] # t
        BY <1>2 DEF EventUnused
      <4>. QED
        BY <2>8, <4>1, <4>2 DEF StoreInv, SettlementBacked
    <3>. QED
      BY <3>2, <3>3
  <2>15. LinksExact'
    BY <2>1, <2>4, <2>8 DEF StoreInv, LinksExact
  <2>16. PaidIffSettled'
    BY <2>3, <2>7, <2>12 DEF StoreInv, PaidIffSettled
  <2>17. OneOpenInvoice'
    BY <2>3, <2>7 DEF StoreInv, OneOpenInvoice, Open
  <2>18. \A j \in Invoices : Created(j) => Created(j)'
    BY <2>3, <2>7 DEF Created
  <2>19. \A s \in Txs : event'[s].inv # 0 => Recorded(s)' /\ Created(event[s].inv)'
    <3>1. \A s \in Txs : event'[s].inv = event[s].inv /\ (Recorded(s) => Recorded(s)')
      BY <2>1, <2>4, <2>8 DEF Recorded
    <3>2. \A s \in Txs : event[s].inv # 0 => event[s].inv \in Invoices
      BY StoreAssumption DEF StoreTypeOK, EventRows, Invoices
    <3>. QED
      BY <2>18, <3>1, <3>2 DEF StoreInv
  <2>20. \A s \in Txs : event'[s].late => AmountOf[s] \in lapsed'
    BY <2>4, <2>6, <2>8 DEF StoreInv
  <2>21. \A j \in Invoices : Created(j)' => invoice'[j].user \in Users /\ invoice'[j].plan \in Plans
    BY <2>1, <2>3, <2>7 DEF StoreInv, Created
  <2>22. \A j \in Invoices : ~Created(j)' => invoice'[j] = NoInvoice
    BY <2>3, <2>7 DEF StoreInv, Created
  <2>23. StoreInv'
    BY <2>13, <2>14, <2>15, <2>16, <2>17, <2>19, <2>20, <2>21, <2>22 DEF StoreInv
  <2>24. invoice[i].status # "paid"
    BY <2>1 DEF StoreInv, PaidIffSettled
  <2>25. LedgerStep
    <3>1. \A j \in Invoices : invoice'[j].user = invoice[j].user
      BY <2>3, <2>7
    <3>2. \A j \in Invoices : settlement[j] # t
      BY <1>2 DEF EventUnused
    <3>3. u # NoUser /\ settlement[i] = NoTx
      BY <2>1, StoreAssumption DEF Settled
    <3>4. [w \in Users |-> subscription[w].periods]'
            = [[w \in Users |-> subscription[w].periods] EXCEPT ![u] = @ + 1]
      BY <2>1, <2>10
    <3>5. Ledger!Post(i, t)
      BY <2>1, <2>6, <3>1, <3>2, <3>3, <3>4 DEF Ledger!Post
    <3>. QED
      BY <2>1, <3>5 DEF LedgerStep, Ledger!Next
  <2>. QED
    BY <2>3, <2>7, <2>11, <2>18, <2>23, <2>24, <2>25 DEF StoreStep
<1>. QED
  BY <1>1, <1>2

-----------------------------------------------------------------------------
(* Threads: what a thread holds still fits the store when another one moves. *)

LEMMA PairedKept ==
  ASSUME \A i \in Invoices : Created(i) => Created(i)', NEW t, NEW i, Paired(t, i)
  PROVE  Paired(t, i)'
BY DEF Paired, Created

LEMMA MonKept ==
  ASSUME \A i \in Invoices : Created(i) => Created(i)',
         NEW m, MonInv(m), mon' = m
  PROVE  MonInv(mon)'
<1>1. ASSUME NEW l, LogInv(l) PROVE l.inv # 0 => Paired(l.tx, l.inv)'
  BY <1>1, PairedKept DEF LogInv
<1>. QED
  BY <1>1 DEF MonInv, LogInv

LEMMA VerKept ==
  ASSUME \A i \in Invoices : Created(i) => Created(i)',
         NEW v, NEW c, VerInv(c), ver'[v] = c
  PROVE  VerInv(ver[v])'
BY PairedKept DEF VerInv

\* A step of the monitor that leaves it in a good state.
LEMMA MonitorKeeps ==
  ASSUME IInv, StoreStep, NEW m \in MonitorRows, MonInv(m), MonitorStep(m)
  PROVE  IInv'
<1>1. TypeOK'
  BY DEF IInv, TypeOK, ChainTypeOK, StoreStep, MonitorStep, chainVars
<1>2. MonInv(mon)'
  BY MonKept DEF MonitorStep, StoreStep
<1>3. \A v \in Verifiers : VerInv(ver[v])'
  BY VerKept DEF IInv, ThreadInv, MonitorStep, StoreStep
<1>. QED
  BY <1>1, <1>2, <1>3 DEF IInv, ThreadInv, StoreStep

LEMMA VerifierKeeps ==
  ASSUME IInv, StoreStep, NEW v \in Verifiers, NEW c \in VerifierRows, VerInv(c),
         VerifyStep(v, c)
  PROVE  IInv'
<1>1. ver' \in [Verifiers -> VerifierRows] /\ \A w \in Verifiers : ver'[w] = ver[w] \/ ver'[w] = c
  BY DEF IInv, TypeOK, VerifyStep
<1>2. TypeOK'
  BY <1>1 DEF IInv, TypeOK, ChainTypeOK, StoreStep, VerifyStep, chainVars
<1>3. MonInv(mon)'
  BY MonKept DEF IInv, ThreadInv, VerifyStep, StoreStep
<1>4. \A w \in Verifiers : VerInv(ver[w])'
  BY <1>1, VerKept DEF IInv, ThreadInv, StoreStep
<1>. QED
  BY <1>2, <1>3, <1>4 DEF IInv, ThreadInv, StoreStep

\* A step that moves no thread.
LEMMA OthersKeep ==
  ASSUME IInv, StoreStep, ChainTypeOK', UNCHANGED threadVars
  PROVE  IInv'
<1>1. TypeOK'
  BY DEF IInv, TypeOK, StoreStep, threadVars
<1>2. MonInv(mon)' /\ \A v \in Verifiers : VerInv(ver[v])'
  BY MonKept, VerKept DEF IInv, ThreadInv, StoreStep, threadVars
<1>. QED
  BY <1>1, <1>2 DEF IInv, ThreadInv, StoreStep

-----------------------------------------------------------------------------
(* The environment and the short requests *)

LEMMA EnvironmentKeeps ==
  ASSUME IInv, Environment
  PROVE  IInv' /\ StoreStep
<1>. USE BillingAssumption DEF IInv
<1>1. ASSUME NEW S \in SUBSET Txs, Mine(S) PROVE IInv' /\ StoreStep
  <2>1. StoreStep
    BY <1>1, StutterStep DEF TypeOK, Mine
  <2>2. ChainTypeOK'
    BY <1>1 DEF TypeOK, ChainTypeOK, Mine, LateIn
  <2>. QED
    BY <1>1, <2>1, <2>2, OthersKeep DEF Mine
<1>2. CASE Finalize
  <2>1. StoreStep
    BY <1>2, StutterStep DEF TypeOK, Finalize
  <2>2. ChainTypeOK'
    BY <1>2 DEF TypeOK, ChainTypeOK, Finalize
  <2>. QED
    BY <1>2, <2>1, <2>2, OthersKeep DEF Finalize
<1>3. ASSUME NEW k \in 1..MaxBlock, Reorg(k) PROVE IInv' /\ StoreStep
  <2>1. StoreStep
    BY <1>3, StutterStep DEF TypeOK, Reorg
  <2>. DEFINE hit == {t \in Txs : at[t] >= k}
  <2>2. PICK pos \in [hit -> {0} \cup k..head] :
          /\ at' = [t \in Txs |-> IF t \in hit THEN pos[t] ELSE at[t]]
          /\ fork' = [t \in Txs |-> IF t \in hit THEN reorgs + 1 ELSE fork[t]]
          /\ overdue' = (overdue \ hit) \cup LateIn({t \in hit : pos[t] # 0})
          /\ replaced' = replaced \cup {t \in hit : Known(t)}
          /\ moved' = moved \cup {t \in hit : Known(t) /\ pos[t] # at[t]}
    BY <1>3 DEF Reorg
  <2>3. \A t \in hit : pos[t] \in Nat
    BY <2>2 DEF TypeOK, ChainTypeOK
  <2>4. hit \subseteq Txs
    OBVIOUS
  <2>. HIDE DEF hit
  <2>5. at' \in [Txs -> Nat] /\ fork' \in [Txs -> Nat] /\ overdue' \subseteq Txs
        /\ replaced' \subseteq Txs /\ moved' \subseteq Txs
    BY <2>2, <2>3, <2>4 DEF TypeOK, ChainTypeOK, LateIn
  <2>6. ChainTypeOK'
    BY <1>3, <2>5 DEF TypeOK, ChainTypeOK, Reorg
  <2>. QED
    BY <1>3, <2>1, <2>6, OthersKeep DEF Reorg
<1>4. ASSUME NEW i \in Invoices, Lapse(i), UNCHANGED <<chainVars, threadVars>>
      PROVE  IInv' /\ StoreStep
  <2>1. StoreStep
    BY <1>4, ClockStep DEF TypeOK, StoreTypeOK, Lapse
  <2>2. ChainTypeOK'
    BY <1>4 DEF TypeOK, ChainTypeOK, chainVars
  <2>. QED
    BY <1>4, <2>1, <2>2, OthersKeep
<1>5. ASSUME NEW p \in MayDeactivate, TogglePlan(p), UNCHANGED <<chainVars, threadVars>>
      PROVE  IInv' /\ StoreStep
  <2>1. StoreStep
    BY <1>5, ClockStep DEF TypeOK, StoreTypeOK, TogglePlan
  <2>2. ChainTypeOK'
    BY <1>5 DEF TypeOK, ChainTypeOK, chainVars
  <2>. QED
    BY <1>5, <2>1, <2>2, OthersKeep
<1>. QED
  BY <1>1, <1>2, <1>3, <1>4, <1>5 DEF Environment

LEMMA RequestsKeep ==
  ASSUME IInv, Requests
  PROVE  IInv' /\ StoreStep
<1>. USE BillingAssumption DEF IInv
<1>1. ASSUME NEW u \in Users, NEW p \in Plans, NEW payer \in PayerChoices,
             RequestInvoice(u, p, payer)
      PROVE  IInv' /\ StoreStep
  <2>1. StoreStep
    BY <1>1, CreateInvoiceStep DEF TypeOK, RequestInvoice
  <2>2. ChainTypeOK'
    BY <1>1 DEF TypeOK, ChainTypeOK, chainVars, RequestInvoice
  <2>. QED
    BY <1>1, <2>1, <2>2, OthersKeep DEF RequestInvoice
<1>2. CASE ReadInvoice
  <2>1. StoreStep
    BY <1>2, MarkExpiredStep DEF TypeOK, ReadInvoice
  <2>2. ChainTypeOK'
    BY <1>2 DEF TypeOK, ChainTypeOK, chainVars, ReadInvoice
  <2>. QED
    BY <1>2, <2>1, <2>2, OthersKeep DEF ReadInvoice
<1>. QED
  BY <1>1, <1>2 DEF Requests

-----------------------------------------------------------------------------
(* verify_transaction *)

LEMMA StatusType ==
  ASSUME NEW fin, NEW block
  PROVE  FinalityStatus(fin, block) \in EventStatuses \ {"none"}
BY DEF FinalityStatus, EventStatuses

LEMMA IdleKept ==
  ASSUME IInv, StoreStep, NEW v \in Verifiers, VerifyDone(v)
  PROVE  IInv'
<1>1. Idle \in VerifierRows /\ VerInv(Idle)
  BY StoreAssumption DEF Idle, VerifierRows, VerifierPcs, VerInv
<1>. QED
  BY <1>1, VerifierKeeps DEF VerifyDone

LEMMA VerifyKeeps ==
  ASSUME IInv, NEW v \in Verifiers, VerifyNext(v)
  PROVE  IInv' /\ StoreStep
<1>. DEFINE c == ver[v]
<1>1. /\ StoreTypeOK /\ ChainTypeOK /\ StoreInv /\ c \in VerifierRows /\ VerInv(c)
      /\ c.block \in Nat /\ c.hash \in Nat \X Nat
  BY DEF IInv, TypeOK, ThreadInv, VerifierRows
<1>2. ASSUME NEW pc \in VerifierPcs \ {"idle", "receipt"},
             c.pc \in VerifierPcs \ {"idle", "receipt"}, StoreStep, VerifyGoto(v, pc)
      PROVE  IInv'
  <2>1. [c EXCEPT !.pc = pc] \in VerifierRows /\ VerInv([c EXCEPT !.pc = pc])
    BY <1>1, <1>2 DEF VerifierRows, VerInv
  <2>. QED
    BY <1>2, <2>1, VerifierKeeps DEF VerifyGoto
<1>3. ASSUME NEW i \in Invoices, NEW t \in Txs, VerifyBegin(v, i, t)
      PROVE  IInv' /\ StoreStep
  <2>. DEFINE d == [Idle EXCEPT !.pc = "receipt", !.inv = i, !.tx = t,
                                !.payer = invoice[i].payer]
  <2>1. StoreStep
    BY <1>1, <1>3, StutterStep DEF VerifyBegin
  <2>2. Idle \in VerifierRows /\ i \in 0..MaxInvoices
        /\ invoice[i].payer \in Payers \cup {NoPayer}
    BY <1>1, StoreAssumption DEF Idle, VerifierRows, VerifierPcs, StoreTypeOK, InvoiceRows, Invoices
  <2>3. d \in VerifierRows /\ d.pc = "receipt" /\ d.tx = t /\ d.inv = i
    BY <2>2 DEF VerifierRows, VerifierPcs
  <2>. HIDE DEF d
  <2>4. VerInv(d)
    BY <1>3, <2>3 DEF VerInv, VerifyBegin
  <2>. QED
    BY <1>3, <2>1, <2>3, <2>4, VerifierKeeps DEF VerifyBegin, d
<1>4. CASE VerifyReceipt(v)
  <2>. DEFINE d == Accepted(c)
  <2>1. StoreStep
    BY <1>1, <1>4, StutterStep DEF VerifyReceipt
  <2>2. CASE AmountOf[c.tx] = c.inv /\ VerifyStep(v, d)
    <3>1. c.tx \in Txs /\ Paired(c.tx, c.inv)
      BY <1>1, <1>4, <2>2 DEF VerInv, Paired, VerifyReceipt
    <3>2. d \in VerifierRows /\ VerInv(d)
      BY <1>1, <3>1 DEF Accepted, VerifierRows, VerifierPcs, VerInv, ChainTypeOK, HashOf, Paired
    <3>. QED
      BY <2>1, <2>2, <3>2, VerifierKeeps
  <2>. QED
    BY <1>4, <2>1, <2>2, IdleKept DEF VerifyReceipt, Exact
<1>5. CASE VerifyFinality(v)
  <2>. DEFINE d == [c EXCEPT !.pc = "insert", !.fin = final]
  <2>1. StoreStep
    BY <1>1, <1>5, StutterStep DEF VerifyFinality
  <2>2. d \in VerifierRows /\ VerInv(d)
    BY <1>1, <1>5 DEF VerifierRows, VerifierPcs, VerInv, ChainTypeOK, VerifyFinality
  <2>. QED
    BY <1>5, <2>1, <2>2, IdleKept, VerifierKeeps DEF VerifyFinality
<1>6. c.pc \in {"insert", "attach", "update", "settle"} => Paired(c.tx, c.inv)
  BY <1>1 DEF VerInv
<1>7. CASE VerifyInsert(v)
  <2>1. StoreStep
    BY <1>1, <1>6, <1>7, InsertStep, StatusType, StoreAssumption
       DEF VerifyInsert, Paired, Invoices
  <2>. QED
    BY <1>2, <1>7, <2>1 DEF VerifyInsert, VerifierPcs
<1>8. CASE VerifyAttach(v)
  <2>1. StoreStep
    BY <1>1, <1>6, <1>8, AttachStep DEF VerifyAttach
  <2>. QED
    BY <1>2, <1>8, <2>1 DEF VerifyAttach, VerifierPcs
<1>9. CASE VerifyUpdate(v)
  <2>1. c.tx \in Txs
    BY <1>6, <1>9 DEF VerifyUpdate, Paired
  <2>2. StoreStep
    BY <1>1, <1>9, <2>1, UpdateStep, StatusType DEF VerifyUpdate, StoreTypeOK, EventRows
  <2>. QED
    BY <1>2, <1>9, <2>2, IdleKept DEF VerifyUpdate, VerifierPcs
<1>10. CASE VerifySettle(v)
  <2>1. StoreStep
    BY <1>1, <1>6, <1>10, SettleStep DEF VerifySettle
  <2>. QED
    BY <1>10, <2>1, IdleKept DEF VerifySettle
<1>. QED
  BY <1>3, <1>4, <1>5, <1>7, <1>8, <1>9, <1>10 DEF VerifyNext

-----------------------------------------------------------------------------
(* PaymentMonitor *)

\* Where the monitor has an invoice for the log it holds.
Linked == {"attach", "receipt", "finality", "update", "settle", "reopen", "credit"}

LEMMA GotoKeeps ==
  ASSUME IInv, StoreStep, NEW pc \in MonitorPcs, MonitorGoto(pc),
         pc \in Holding => mon.log \in Logs /\ LogInv(mon.log),
         pc \in Linked => mon.log.inv # 0
  PROVE  IInv'
<1>. DEFINE m == [mon EXCEPT !.pc = pc]
<1>1. /\ m \in MonitorRows /\ m.pc = pc /\ m.log = mon.log /\ m.todo = mon.todo
      /\ \A l \in mon.todo : LogInv(l)
  BY DEF IInv, TypeOK, ThreadInv, MonInv, MonitorRows
<1>. HIDE DEF m
<1>2. MonInv(m)
  BY <1>1 DEF MonInv, Holding, Linked
<1>. QED
  BY <1>1, <1>2, MonitorKeeps DEF MonitorGoto, m

LEMMA NextKeeps ==
  ASSUME IInv, StoreStep, NextLog \/ NextRow \/ MonitorStep(Asleep)
  PROVE  IInv'
<1>1. mon \in MonitorRows /\ \A l \in mon.todo : LogInv(l)
  BY DEF IInv, TypeOK, ThreadInv, MonInv
<1>2. CASE NextLog
  <2>. DEFINE m == [mon EXCEPT !.pc = "pick", !.log = NoTx, !.auto = FALSE, !.fin = 0]
  <2>1. m \in MonitorRows /\ MonInv(m)
    BY <1>1 DEF MonitorRows, MonitorPcs, MonInv
  <2>. QED
    BY <1>2, <2>1, MonitorKeeps DEF NextLog
<1>3. CASE NextRow
  <2>. DEFINE m == [mon EXCEPT !.pc = "row", !.log = NoTx]
  <2>1. m \in MonitorRows /\ MonInv(m)
    BY <1>1 DEF MonitorRows, MonitorPcs, MonInv
  <2>. QED
    BY <1>3, <2>1, MonitorKeeps DEF NextRow
<1>4. CASE MonitorStep(Asleep)
  <2>1. Asleep \in MonitorRows /\ MonInv(Asleep)
    BY DEF Asleep, MonitorRows, MonitorPcs, MonInv
  <2>. QED
    BY <1>4, <2>1, MonitorKeeps
<1>. QED
  BY <1>2, <1>3, <1>4

LEMMA ScanKeeps ==
  ASSUME IInv,
         \/ MonitorWake \/ ScanStart \/ ScanLogs \/ ScanPick \/ ScanInsert \/ ScanAttach
         \/ ScanReceipt \/ ScanFinality \/ ScanUpdate \/ ScanSettle \/ ScanAdvance
  PROVE  IInv' /\ StoreStep
<1>1. /\ StoreTypeOK /\ ChainTypeOK /\ StoreInv /\ mon \in MonitorRows /\ MonInv(mon)
      /\ mon.todo \subseteq Logs /\ mon.latest \in Nat /\ mon.fin \in Nat
      /\ \A l \in mon.todo : LogInv(l)
  BY DEF IInv, TypeOK, ThreadInv, MonitorRows, MonInv
<1>2. mon.pc \in Holding => /\ mon.log \in Logs /\ LogInv(mon.log)
                           /\ mon.log.tx \in Txs /\ mon.log.inv \in 0..MaxInvoices
                           /\ mon.log.block \in Nat /\ mon.log.hash \in Nat \X Nat
  BY <1>1 DEF MonInv, Holding, Logs
<1>3. mon.pc \in Linked => mon.log.inv # 0 /\ Paired(mon.log.tx, mon.log.inv)
  BY <1>1, <1>2 DEF MonInv, LogInv, Linked, Holding
<1>. USE DEF Holding, Linked, MonitorPcs
<1>4. CASE MonitorWake
  <2>1. StoreStep
    BY <1>1, <1>4, MarkExpiredStep DEF MonitorWake
  <2>. QED
    BY <1>4, <2>1, GotoKeeps DEF MonitorWake
<1>5. CASE ScanStart
  <2>1. CASE MonitorReads([mon EXCEPT !.pc = "reconcile"])
    BY <1>1, <2>1, GotoKeeps, StutterStep DEF MonitorReads, MonitorGoto
  <2>2. CASE MoveCursor(IF nextBlock = NoRow \/ nextBlock > head
                        THEN IF head > Lookback THEN head - Lookback ELSE 0
                        ELSE nextBlock)
             /\ MonitorStep([mon EXCEPT !.pc = "logs", !.latest = head])
    <3>1. StoreStep
      BY <1>1, <2>2, ClockStep, BillingAssumption DEF MoveCursor, StoreTypeOK, ChainTypeOK
    <3>. DEFINE m == [mon EXCEPT !.pc = "logs", !.latest = head]
    <3>2. m \in MonitorRows /\ MonInv(m)
      BY <1>1 DEF MonitorRows, MonInv, ChainTypeOK
    <3>. QED
      BY <2>2, <3>1, <3>2, MonitorKeeps
  <2>. QED
    BY <1>5, <2>1, <2>2 DEF ScanStart
<1>6. CASE ScanLogs
  <2>1. StoreStep
    BY <1>1, <1>6, StutterStep DEF ScanLogs, MonitorReads
  <2>. DEFINE logs == {LogOf(t, 0) : t \in {s \in Txs : at[s] # 0 /\ at[s] \in nextBlock..ChunkEnd}}
              m == [mon EXCEPT !.pc = "pick", !.todo = logs]
  <2>2. logs \subseteq Logs /\ \A l \in logs : LogInv(l)
    BY <1>1, StoreAssumption DEF LogOf, Logs, ChainTypeOK, HashOf, LogInv
  <2>. HIDE DEF logs
  <2>3. m \in MonitorRows /\ MonInv(m)
    BY <1>1, <2>2 DEF MonitorRows, MonInv
  <2>. QED
    BY <1>6, <2>1, <2>3, MonitorKeeps DEF ScanLogs, MonitorReads, logs
<1>7. CASE ScanPick
  <2>1. StoreStep
    BY <1>1, <1>7, StutterStep DEF ScanPick, MonitorReads
  <2>2. PICK l \in mon.todo : LET i == Matching(l.tx) IN
            MonitorReads([mon EXCEPT
              !.pc = "insert", !.todo = @ \ {l}, !.log = [l EXCEPT !.inv = i],
              !.auto = i # 0 /\ invoice[i].payer # NoPayer])
    BY <1>7 DEF ScanPick
  <2>. DEFINE i == Matching(l.tx)
              log == [l EXCEPT !.inv = i]
              auto == i # 0 /\ invoice[i].payer # NoPayer
              m == [mon EXCEPT !.pc = "insert", !.todo = @ \ {l}, !.log = log, !.auto = auto]
  <2>3. l \in Logs /\ l.tx \in Txs
    BY <1>1 DEF Logs
  <2>4. i \in 0..MaxInvoices /\ (i # 0 => Paired(l.tx, i))
    BY <2>3, StoreAssumption DEF Matching, Paired, Open, Created, OPEN_INVOICE_STATUSES, Invoices
  <2>. HIDE DEF i
  <2>5. log \in Logs /\ LogInv(log)
    BY <2>3, <2>4 DEF Logs, LogInv
  <2>6. auto \in BOOLEAN
    OBVIOUS
  <2>. HIDE DEF log, auto
  <2>7. m \in MonitorRows /\ MonInv(m)
    BY <1>1, <2>5, <2>6 DEF MonitorRows, MonInv
  <2>8. MonitorStep(m)
    BY <2>2 DEF MonitorReads, i, log, auto
  <2>. QED
    BY <2>1, <2>7, <2>8, MonitorKeeps
<1>8. CASE ScanInsert
  <2>1. StoreStep
    BY <1>1, <1>2, <1>8, InsertStep DEF ScanInsert, LogInv, EventStatuses
  <2>2. CASE mon.log.inv = 0
    BY <1>8, <2>1, <2>2, NextKeeps DEF ScanInsert
  <2>3. CASE mon.log.inv # 0
    <3>1. MonitorGoto("attach") \/ MonitorGoto("receipt")
      BY <1>8, <2>3 DEF ScanInsert
    <3>. QED
      BY <1>2, <1>8, <2>1, <2>3, <3>1, GotoKeeps DEF ScanInsert
  <2>. QED
    BY <2>1, <2>2, <2>3
<1>9. CASE ScanAttach
  <2>1. StoreStep
    BY <1>1, <1>3, <1>9, AttachStep DEF ScanAttach
  <2>. QED
    BY <1>2, <1>3, <1>9, <2>1, GotoKeeps DEF ScanAttach
<1>10. CASE ScanReceipt
  <2>1. StoreStep
    BY <1>1, <1>10, StutterStep DEF ScanReceipt
  <2>. QED
    BY <1>2, <1>3, <1>10, <2>1, GotoKeeps, NextKeeps DEF ScanReceipt
<1>11. CASE ScanFinality
  <2>1. StoreStep
    BY <1>1, <1>11, StutterStep DEF ScanFinality, MonitorReads
  <2>. DEFINE m == [mon EXCEPT !.pc = "update", !.fin = final]
  <2>2. m \in MonitorRows /\ MonInv(m)
    BY <1>1, <1>2, <1>3, <1>11 DEF MonitorRows, MonInv, ChainTypeOK, ScanFinality
  <2>. QED
    BY <1>11, <2>1, <2>2, MonitorKeeps DEF ScanFinality, MonitorReads
<1>12. CASE ScanUpdate
  <2>1. StoreStep
    BY <1>1, <1>2, <1>12, UpdateStep, StatusType DEF ScanUpdate, StoreTypeOK, EventRows
  <2>. QED
    BY <1>2, <1>3, <1>12, <2>1, GotoKeeps, NextKeeps DEF ScanUpdate
<1>13. CASE ScanSettle
  <2>1. StoreStep
    BY <1>1, <1>3, <1>13, SettleStep DEF ScanSettle
  <2>. QED
    BY <1>13, <2>1, NextKeeps DEF ScanSettle
<1>14. CASE ScanAdvance
  <2>1. ChunkEnd \in Int
    BY <1>1, BillingAssumption DEF ChunkEnd, StoreTypeOK
  <2>2. StoreStep
    BY <1>1, <1>14, <2>1, ClockStep DEF ScanAdvance, MoveCursor, StoreTypeOK
  <2>3. CASE MonitorStep([mon EXCEPT !.pc = "logs"])
    BY <2>2, <2>3, GotoKeeps DEF MonitorGoto
  <2>4. CASE MonitorStep([Asleep EXCEPT !.pc = "reconcile"])
    <3>. DEFINE m == [Asleep EXCEPT !.pc = "reconcile"]
    <3>1. m \in MonitorRows /\ MonInv(m)
      BY DEF Asleep, MonitorRows, MonInv
    <3>. QED
      BY <2>2, <2>4, <3>1, MonitorKeeps
  <2>. QED
    BY <1>14, <2>2, <2>3, <2>4 DEF ScanAdvance
<1>. QED
  BY <1>4, <1>5, <1>6, <1>7, <1>8, <1>9, <1>10, <1>11, <1>12, <1>13, <1>14

LEMMA ReconcileKeeps ==
  ASSUME IInv,
         \/ ReconcileStart \/ ReconcileFinality \/ ReconcileRow \/ ReconcileDrop
         \/ ReconcileReopen \/ ReconcileSwap \/ ReconcileConfirm \/ ReconcileCredit
         \/ ReconcileWait \/ ReconcileDone
  PROVE  IInv' /\ StoreStep
<1>1. /\ StoreTypeOK /\ ChainTypeOK /\ StoreInv /\ mon \in MonitorRows /\ MonInv(mon)
      /\ mon.todo \subseteq Logs /\ mon.latest \in Nat /\ mon.fin \in Nat
      /\ \A l \in mon.todo : LogInv(l)
  BY DEF IInv, TypeOK, ThreadInv, MonitorRows, MonInv
<1>2. mon.pc \in Holding => /\ mon.log \in Logs /\ LogInv(mon.log)
                           /\ mon.log.tx \in Txs /\ mon.log.inv \in 0..MaxInvoices
                           /\ mon.log.block \in Nat /\ mon.log.hash \in Nat \X Nat
                           /\ event[mon.log.tx].hash \in Nat \X Nat
  BY <1>1 DEF MonInv, Holding, Logs, StoreTypeOK, EventRows
<1>3. mon.pc \in Linked => mon.log.inv # 0 /\ Paired(mon.log.tx, mon.log.inv)
  BY <1>1, <1>2 DEF MonInv, LogInv, Linked, Holding
<1>. USE DEF Holding, Linked, MonitorPcs
<1>4. {"reorged", "confirmed", "confirming"} \subseteq EventStatuses \ {"none"}
  BY DEF EventStatuses
<1>5. CASE ReconcileStart
  <2>1. StoreStep
    BY <1>1, <1>5, StutterStep DEF ReconcileStart, MonitorReads
  <2>. DEFINE rows == {RowOf(t) : t \in {s \in Txs : event[s].status = "confirming"}}
              m == [mon EXCEPT !.pc = "rows", !.todo = rows]
  <2>2. ASSUME NEW t \in Txs PROVE RowOf(t) \in Logs /\ LogInv(RowOf(t))
    <3>1. event[t].inv \in 0..MaxInvoices /\ (event[t].inv # 0 => Paired(t, event[t].inv))
      BY <1>1, StoreAssumption DEF StoreTypeOK, EventRows, StoreInv, LinksExact, Paired, Invoices
    <3>. QED
      BY <1>1, <3>1 DEF RowOf, Logs, LogInv, StoreTypeOK, EventRows
  <2>3. rows \subseteq Logs /\ \A l \in rows : LogInv(l)
    BY <2>2
  <2>. HIDE DEF rows
  <2>4. m \in MonitorRows /\ MonInv(m)
    BY <1>1, <2>3 DEF MonitorRows, MonInv
  <2>5. MonitorStep(Asleep) \/ MonitorStep(m)
    BY <1>5 DEF ReconcileStart, MonitorReads, rows
  <2>. QED
    BY <2>1, <2>4, <2>5, NextKeeps, MonitorKeeps
<1>6. CASE ReconcileFinality
  <2>1. StoreStep
    BY <1>1, <1>6, StutterStep DEF ReconcileFinality, MonitorReads
  <2>. DEFINE m == [mon EXCEPT !.pc = "row", !.fin = final]
  <2>2. m \in MonitorRows /\ MonInv(m)
    BY <1>1 DEF MonitorRows, MonInv, ChainTypeOK
  <2>. QED
    BY <1>6, <2>1, <2>2, MonitorKeeps DEF ReconcileFinality, MonitorReads
<1>7. CASE ReconcileRow
  <2>1. StoreStep
    BY <1>1, <1>7, StutterStep DEF ReconcileRow, MonitorReads
  <2>2. PICK l \in mon.todo :
          MonitorReads([mon EXCEPT
            !.todo = @ \ {l},
            !.log = IF at[l.tx] # 0 THEN [l EXCEPT !.hash = HashOf(l.tx)] ELSE l,
            !.pc = IF at[l.tx] = 0 THEN "drop"
                   ELSE IF HashOf(l.tx) # l.hash THEN "swap"
                   ELSE IF mon.fin >= l.block THEN "confirm" ELSE "wait"])
    BY <1>7 DEF ReconcileRow
  <2>. DEFINE log == IF at[l.tx] # 0 THEN [l EXCEPT !.hash = HashOf(l.tx)] ELSE l
              pc == IF at[l.tx] = 0 THEN "drop"
                    ELSE IF HashOf(l.tx) # l.hash THEN "swap"
                    ELSE IF mon.fin >= l.block THEN "confirm" ELSE "wait"
              m == [mon EXCEPT !.todo = @ \ {l}, !.log = log, !.pc = pc]
  <2>3. log \in Logs /\ LogInv(log)
    <3>1. l \in Logs /\ LogInv(l) /\ l.tx \in Txs
      BY <1>1 DEF Logs
    <3>2. HashOf(l.tx) \in Nat \X Nat
      BY <1>1, <3>1 DEF ChainTypeOK, HashOf
    <3>. QED
      BY <3>1, <3>2 DEF Logs, LogInv
  <2>4. pc \in {"drop", "swap", "confirm", "wait"}
    OBVIOUS
  <2>. HIDE DEF log, pc
  <2>5. m \in MonitorRows /\ MonInv(m)
    BY <1>1, <2>3, <2>4 DEF MonitorRows, MonInv
  <2>6. MonitorStep(m)
    BY <2>2 DEF MonitorReads, log, pc
  <2>. QED
    BY <2>1, <2>5, <2>6, MonitorKeeps
<1>8. CASE ReconcileDrop
  <2>1. StoreStep
    BY <1>1, <1>2, <1>4, <1>8, UpdateStep DEF ReconcileDrop
  <2>. QED
    BY <1>2, <1>8, <2>1, GotoKeeps, NextKeeps DEF ReconcileDrop
<1>9. CASE ReconcileReopen
  <2>1. StoreStep
    BY <1>1, <1>3, <1>9, ReopenStep DEF ReconcileReopen, Paired
  <2>. QED
    BY <1>9, <2>1, NextKeeps DEF ReconcileReopen
<1>10. CASE ReconcileSwap
  <2>1. StoreStep
    BY <1>1, <1>2, <1>4, <1>10, UpdateStep DEF ReconcileSwap
  <2>. QED
    BY <1>10, <2>1, NextKeeps DEF ReconcileSwap
<1>11. CASE ReconcileConfirm
  <2>1. StoreStep
    BY <1>1, <1>2, <1>4, <1>11, UpdateStep DEF ReconcileConfirm
  <2>. QED
    BY <1>2, <1>11, <2>1, GotoKeeps, NextKeeps DEF ReconcileConfirm
<1>12. CASE ReconcileCredit
  <2>1. StoreStep
    BY <1>1, <1>3, <1>12, SettleStep DEF ReconcileCredit
  <2>. QED
    BY <1>12, <2>1, NextKeeps DEF ReconcileCredit
<1>13. CASE ReconcileWait
  <2>1. StoreStep
    BY <1>1, <1>2, <1>4, <1>13, UpdateStep DEF ReconcileWait
  <2>. QED
    BY <1>13, <2>1, NextKeeps DEF ReconcileWait
<1>14. CASE ReconcileDone
  <2>1. StoreStep
    BY <1>1, <1>14, StutterStep DEF ReconcileDone, MonitorReads
  <2>. QED
    BY <1>14, <2>1, NextKeeps DEF ReconcileDone, MonitorReads
<1>. QED
  BY <1>5, <1>6, <1>7, <1>8, <1>9, <1>10, <1>11, <1>12, <1>13, <1>14

-----------------------------------------------------------------------------
(* Failures *)

LEMMA FaultsKeep ==
  ASSUME IInv, \/ Crash \/ MonitorRpcError \/ NoReceiptYet
               \/ \E v \in Verifiers : NoTimestamp(v)
  PROVE  IInv' /\ StoreStep
<1>1. UNCHANGED <<storeVars, chainVars>> /\ faults' \in Nat
  <2>1. Fault
    BY DEF Crash, MonitorRpcError, NoReceiptYet, NoTimestamp
  <2>. QED
    BY <2>1 DEF Fault, IInv, TypeOK
<1>2. StoreStep
  BY <1>1, StutterStep DEF IInv, TypeOK
<1>3. ChainTypeOK'
  BY <1>1 DEF IInv, TypeOK, ChainTypeOK, chainVars
<1>4. ASSUME NEW m \in MonitorRows, MonInv(m), mon' = m,
             ver' \in [Verifiers -> VerifierRows],
             \A v \in Verifiers : ver'[v] \in {ver[v], Idle}
      PROVE  IInv'
  <2>1. MonInv(mon)'
    BY <1>2, <1>4, MonKept DEF StoreStep
  <2>2. VerInv(Idle)
    BY DEF Idle, VerInv
  <2>3. \A v \in Verifiers : VerInv(ver[v])'
    BY <1>2, <1>4, <2>2, VerKept DEF StoreStep, IInv, ThreadInv
  <2>. QED
    BY <1>1, <1>2, <1>3, <1>4, <2>1, <2>3 DEF IInv, TypeOK, ThreadInv, StoreStep
<1>5. Asleep \in MonitorRows /\ MonInv(Asleep)
  BY DEF Asleep, MonitorRows, MonitorPcs, MonInv
<1>6. /\ mon \in MonitorRows /\ MonInv(mon) /\ ver \in [Verifiers -> VerifierRows]
      /\ \A l \in mon.todo : l \in Logs /\ LogInv(l)
  BY DEF IInv, TypeOK, ThreadInv, MonInv, MonitorRows
<1>7. CASE Crash
  <2>1. Idle \in VerifierRows
    BY StoreAssumption DEF Idle, VerifierRows, VerifierPcs
  <2>. QED
    BY <1>2, <1>4, <1>5, <1>7, <2>1 DEF Crash
<1>8. CASE MonitorRpcError
  BY <1>2, <1>4, <1>5, <1>6, <1>8 DEF MonitorRpcError
<1>9. CASE NoReceiptYet
  <2>. DEFINE m1 == [mon EXCEPT !.pc = "pick", !.log = NoTx, !.auto = FALSE]
              m2(l) == [mon EXCEPT !.pc = "drop", !.todo = @ \ {l}, !.log = l]
  <2>1. m1 \in MonitorRows /\ MonInv(m1)
    BY <1>6 DEF MonitorRows, MonitorPcs, MonInv
  <2>2. ASSUME NEW l \in mon.todo PROVE m2(l) \in MonitorRows /\ MonInv(m2(l))
    BY <1>6 DEF MonitorRows, MonitorPcs, MonInv
  <2>3. ver' = ver /\ (mon' = m1 \/ \E l \in mon.todo : mon' = m2(l))
    BY <1>9 DEF NoReceiptYet
  <2>. HIDE DEF m1, m2
  <2>. QED
    BY <1>2, <1>4, <1>6, <2>1, <2>2, <2>3
<1>10. ASSUME NEW v \in Verifiers, NoTimestamp(v) PROVE IInv'
  <2>. DEFINE c == ver[v]
              d == Accepted(c)
  <2>1. mon' = mon /\ ver' = [ver EXCEPT ![v] = d]
    BY <1>10 DEF NoTimestamp
  <2>2. /\ c \in VerifierRows /\ VerInv(c) /\ c.pc = "receipt" /\ AmountOf[c.tx] = c.inv
        /\ at \in [Txs -> Nat] /\ fork \in [Txs -> Nat]
    BY <1>6, <1>10 DEF NoTimestamp, Exact, IInv, TypeOK, ThreadInv, ChainTypeOK
  <2>3. c.tx \in Txs /\ Paired(c.tx, c.inv)
    BY <2>2 DEF VerInv, Paired
  <2>4. d \in VerifierRows /\ VerInv(d)
    BY <2>2, <2>3 DEF Accepted, VerifierRows, VerifierPcs, VerInv, HashOf, Paired
  <2>. HIDE DEF c, d
  <2>5. ver' \in [Verifiers -> VerifierRows] /\ \A w \in Verifiers : ver'[w] = ver[w] \/ ver'[w] = d
    BY <1>6, <2>1, <2>4
  <2>6. MonInv(mon)'
    BY <1>2, <1>6, <2>1, MonKept DEF StoreStep
  <2>7. \A w \in Verifiers : VerInv(ver[w])'
    BY <1>2, <2>4, <2>5, VerKept DEF StoreStep, IInv, ThreadInv
  <2>. QED
    BY <1>1, <1>2, <1>3, <1>6, <2>1, <2>5, <2>6, <2>7 DEF IInv, TypeOK, ThreadInv, StoreStep
<1>. QED
  BY <1>2, <1>7, <1>8, <1>9, <1>10

-----------------------------------------------------------------------------
(* The inductive invariant and what follows from it *)

LEMMA InitHolds == Init => IInv
<1>. SUFFICES ASSUME Init PROVE IInv
  OBVIOUS
<1>. USE StoreAssumption DEF Init, StoreInit
<1>1. StoreTypeOK
  BY DEF StoreTypeOK, NoInvoice, NoEvent, InvoiceRows, InvoiceStatuses, EventRows,
         EventStatuses, NoRow
<1>2. ChainTypeOK
  BY DEF ChainTypeOK
<1>3. mon \in MonitorRows /\ MonInv(mon)
  BY DEF Asleep, MonitorRows, MonitorPcs, MonInv
<1>4. ver \in [Verifiers -> VerifierRows] /\ \A v \in Verifiers : VerInv(ver[v])
  BY DEF Idle, VerifierRows, VerifierPcs, VerInv
<1>5. \A i \in Invoices : invoice[i].status = "none" /\ ~Settled(i)
  BY DEF NoInvoice, Settled
<1>6. CreditedOnce
  <2>1. \A u \in Users : {i \in Invoices : Settled(i) /\ invoice[i].user = u} = {}
    BY <1>5
  <2>. QED
    BY <2>1, FS_EmptySet DEF CreditedOnce
<1>7. \A t \in Txs : event[t].inv = 0 /\ event[t].late = FALSE
  BY DEF NoEvent
<1>8. StoreInv
  BY <1>5, <1>6, <1>7 DEF StoreInv, LinksExact, SettlementBacked, PaidIffSettled,
     OneOpenInvoice, Open, Created, OPEN_INVOICE_STATUSES
<1>. QED
  BY <1>1, <1>2, <1>3, <1>4, <1>8 DEF IInv, TypeOK, ThreadInv

LEMMA StepHolds == IInv /\ [Next]_vars => IInv' /\ StoreStep
<1>. SUFFICES ASSUME IInv, [Next]_vars PROVE IInv' /\ StoreStep
  OBVIOUS
<1>1. CASE UNCHANGED vars
  <2>1. StoreStep
    BY <1>1, StutterStep DEF vars, IInv, TypeOK
  <2>2. ChainTypeOK' /\ UNCHANGED threadVars
    BY <1>1 DEF vars, chainVars, IInv, TypeOK, ChainTypeOK
  <2>. QED
    BY <2>1, <2>2, OthersKeep
<1>2. CASE Next
  <2>1. CASE MonitorNext
    BY <2>1, ScanKeeps, ReconcileKeeps DEF MonitorNext
  <2>. QED
    BY <1>2, <2>1, EnvironmentKeeps, RequestsKeep, VerifyKeeps, FaultsKeep DEF Next
<1>. QED
  BY <1>1, <1>2

LEMMA Invariance == Spec => []IInv
BY InitHolds, StepHolds, PTL DEF Spec

\* Every table row, every thread and the chain keep their type in every behaviour.
THEOREM TypeCorrect == Spec => []TypeOK
BY Invariance, PTL DEF IInv

\* No interleaving links a transfer to an invoice whose amount it does not carry.
THEOREM LinksAreExact == Spec => []LinksExact
BY Invariance, PTL DEF IInv, StoreInv

\* Every credit of settle() rests on a transfer of the exact amount, seen in time.
THEOREM CreditsAreBacked == Spec => []SettlementBacked
BY Invariance, PTL DEF IInv, StoreInv

\* The status 'paid' and the settlement row never part, whichever thread writes.
THEOREM PaidMeansSettled == Spec => []PaidIffSettled
BY Invariance, PTL DEF IInv, StoreInv

\* create_invoice's one open invoice per user and plan survives all other writes.
THEOREM OneOpenInvoicePerPlan == Spec => []OneOpenInvoice
BY Invariance, PTL DEF IInv, StoreInv

\* A subscription counts exactly the settled invoices of its user.
THEOREM CreditsCountOnce == Spec => []CreditedOnce
BY Invariance, PTL DEF IInv, StoreInv

\* No step of any thread takes a paid invoice back.
THEOREM PaidStays == Spec => PaidIsForever
<1>1. IInv /\ [Next]_vars =>
        [\A i \in Invoices : invoice[i].status = "paid" => invoice'[i] = invoice[i]]_vars
  BY StepHolds DEF StoreStep
<1>. QED
  BY <1>1, Invariance, PTL DEF Spec, PaidIsForever

\* No step of any thread opens an expired invoice again.
THEOREM ExpiredStays == Spec => ExpiredStaysClosed
<1>1. IInv /\ [Next]_vars =>
        [\A i \in Invoices :
           invoice[i].status = "expired" => invoice'[i].status \in {"expired", "paid"}]_vars
  BY StepHolds DEF StoreStep
<1>. QED
  BY <1>1, Invariance, PTL DEF Spec, ExpiredStaysClosed

\* Billing implements the ledger: whatever the threads do, each invoice and each
\* transfer is posted at most once, and each posting credits one period.
THEOREM LedgerImplemented == Spec => ImplementsLedger
<1>1. Init => Ledger!Init
  BY DEF Init, StoreInit, NoInvoice, Ledger!Init
<1>2. IInv /\ [Next]_vars => [Ledger!Next]_(Ledger!ledgerVars)
  BY StepHolds DEF StoreStep, LedgerStep
<1>. QED
  BY <1>1, <1>2, Invariance, PTL DEF Spec, ImplementsLedger, Ledger!Spec

-----------------------------------------------------------------------------
(* What the rows and the threads know of the chain *)

\* Where scan_once and reconcile_confirming are inside their loops.
Scanning == {"logs", "pick", "insert", "attach", "receipt", "finality", "update", "settle"}
Reconciling == {"rows", "row", "drop", "reopen", "swap", "confirm", "credit", "wait"}

\* The row of a transfer that was not moved names its block, and says "confirmed" of a
\* final one only.
RowSound(r, t) ==
  r.status # "none" /\ t \notin moved =>
    /\ r.block = at[t] /\ at[t] # 0
    /\ r.status \in {"confirmed", "settled"} => at[t] <= final

StoreSound == SettledIsFinal /\ \A t \in Txs : RowSound(event[t], t)

Seen(l) == l.tx \notin moved => l.block = at[l.tx] /\ l.block # 0

\* UPDATEs find their row; logs, rows and the final block are no newer than the chain.
MonSound(m) ==
  /\ m.fin <= final
  /\ m.pc \in Holding \ {"insert"} => Recorded(m.log.tx)
  /\ m.pc \in Reconciling => \A l \in m.todo : Recorded(l.tx)
  /\ \A l \in m.todo : Seen(l)
  /\ m.pc \in Holding => Seen(m.log)
  /\ m.pc = "confirm" => m.log.block <= m.fin

VerSound(c) ==
  /\ c.fin <= final
  /\ c.pc \in {"attach", "update", "settle"} => Recorded(c.tx)
  /\ c.pc \notin {"idle", "receipt"} /\ c.tx \notin moved => c.block = at[c.tx] /\ c.block # 0

ChainSound == final <= head /\ \A t \in Txs : at[t] <= head

SoundInv ==
  /\ ChainSound /\ StoreSound /\ MonSound(mon)
  /\ \A v \in Verifiers : VerSound(ver[v])

\* A transfer somebody has read stays at its height or is marked as moved, and no row
\* is ever deleted.
Forward ==
  /\ final <= final' /\ head <= head'
  /\ reorgs' = 0 => reorgs = 0
  /\ \A t \in Txs : t \notin moved' =>
       t \notin moved /\ (Known(t) /\ at[t] # 0 => at'[t] = at[t])
  /\ \A t \in Txs : Recorded(t) => Recorded(t)'

-----------------------------------------------------------------------------
(* The store methods *)

\* The row of one transfer is written, no settlement is made.
LEMMA RowWritten ==
  ASSUME IInv, SoundInv, UNCHANGED chainVars, settlement' = settlement,
         NEW t \in Txs, \A s \in Txs : s # t => event'[s] = event[s],
         Recorded(t)', RowSound(event'[t], t)
  PROVE  StoreSound' /\ Forward
<1>1. /\ final \in Nat /\ head \in Nat /\ at \in [Txs -> Nat]
      /\ final' = final /\ head' = head /\ at' = at /\ reorgs' = reorgs /\ moved' = moved
  BY DEF IInv, TypeOK, ChainTypeOK, chainVars
<1>2. \A s \in Txs : Recorded(s) => Recorded(s)'
  BY DEF Recorded
<1>3. Forward
  BY <1>1, <1>2 DEF Forward
<1>4. \A s \in Txs : RowSound(event'[s], s)
  BY DEF SoundInv, StoreSound
<1>5. StoreSound'
  BY <1>1, <1>4 DEF SoundInv, StoreSound, SettledIsFinal, Settled, RowSound
<1>. QED
  BY <1>3, <1>5

\* No row and no settlement is written, the chain stands still.
LEMMA NothingWritten ==
  ASSUME IInv, SoundInv, UNCHANGED <<event, settlement>>, UNCHANGED chainVars
  PROVE  StoreSound' /\ Forward
<1>1. /\ final \in Nat /\ head \in Nat /\ at \in [Txs -> Nat]
      /\ final' = final /\ head' = head /\ at' = at /\ reorgs' = reorgs /\ moved' = moved
  BY DEF IInv, TypeOK, ChainTypeOK, chainVars
<1>2. Forward
  BY <1>1 DEF Forward, Recorded
<1>3. StoreSound'
  BY <1>1 DEF SoundInv, StoreSound, SettledIsFinal, Settled, RowSound
<1>. QED
  BY <1>2, <1>3

LEMMA InsertSound ==
  ASSUME IInv, SoundInv, UNCHANGED chainVars, NEW t \in Txs, NEW i, NEW status, NEW block,
         NEW hash, InsertPaymentEvent(t, i, status, block, hash),
         status \notin {"none", "settled"},
         t \notin moved => /\ block = at[t] /\ block # 0
                           /\ status = "confirmed" => at[t] <= final
  PROVE  StoreSound' /\ Forward /\ Recorded(t)'
<1>1. event \in [Txs -> EventRows] /\ settlement' = settlement
  BY DEF IInv, TypeOK, StoreTypeOK, InsertPaymentEvent
<1>2. CASE Recorded(t)
  BY <1>1, <1>2, NothingWritten DEF InsertPaymentEvent, Recorded
<1>3. CASE ~Recorded(t)
  <2>. DEFINE row == [status |-> status, inv |-> i, block |-> block, hash |-> hash,
                      late |-> AmountOf[t] \in lapsed]
  <2>1. event' = [event EXCEPT ![t] = row]
    BY <1>3 DEF InsertPaymentEvent
  <2>2. event'[t] = row /\ \A s \in Txs : s # t => event'[s] = event[s]
    BY <1>1, <2>1
  <2>3. Recorded(t)' /\ RowSound(event'[t], t)
    BY <2>2 DEF Recorded, RowSound
  <2>. QED
    BY <1>1, <2>2, <2>3, RowWritten
<1>. QED
  BY <1>2, <1>3

LEMMA UpdateSound ==
  ASSUME IInv, SoundInv, UNCHANGED chainVars, NEW t \in Txs, Recorded(t),
         NEW status, NEW hash, UpdateEventConfirmation(t, status, hash),
         status \notin {"none", "settled"},
         t \notin moved /\ status = "confirmed" => at[t] <= final
  PROVE  StoreSound' /\ Forward
<1>1. event \in [Txs -> EventRows] /\ settlement' = settlement
  BY DEF IInv, TypeOK, StoreTypeOK, UpdateEventConfirmation
<1>. DEFINE row == [event[t] EXCEPT !.status = status, !.hash = hash]
<1>2. event' = [event EXCEPT ![t] = row]
  BY DEF UpdateEventConfirmation
<1>3. row.status = status /\ row.block = event[t].block
  BY <1>1 DEF EventRows
<1>. HIDE DEF row
<1>4. event'[t] = row /\ \A s \in Txs : s # t => event'[s] = event[s]
  BY <1>1, <1>2
<1>5. Recorded(t)'
  BY <1>3, <1>4 DEF Recorded
<1>6. RowSound(event'[t], t)
  BY <1>3, <1>4 DEF SoundInv, StoreSound, RowSound, Recorded
<1>. QED
  BY <1>1, <1>4, <1>5, <1>6, RowWritten

LEMMA AttachSound ==
  ASSUME IInv, SoundInv, UNCHANGED chainVars, NEW t \in Txs, Recorded(t), NEW i,
         AttachInvoice(t, i)
  PROVE  StoreSound' /\ Forward
<1>1. event \in [Txs -> EventRows] /\ settlement' = settlement
  BY DEF IInv, TypeOK, StoreTypeOK, AttachInvoice
<1>. DEFINE status == IF i \in lapsed THEN "rejected" ELSE "payment_detected"
            row == [event[t] EXCEPT !.inv = i, !.status = status]
<1>2. event' = [event EXCEPT ![t] = row]
  BY DEF AttachInvoice
<1>3. row.status \in {"rejected", "payment_detected"} /\ row.block = event[t].block
  BY <1>1 DEF EventRows
<1>. HIDE DEF row
<1>4. event'[t] = row /\ \A s \in Txs : s # t => event'[s] = event[s]
  BY <1>1, <1>2
<1>5. Recorded(t)'
  BY <1>3, <1>4 DEF Recorded
<1>6. RowSound(event'[t], t)
  BY <1>3, <1>4 DEF SoundInv, StoreSound, RowSound, Recorded
<1>. QED
  BY <1>1, <1>4, <1>5, <1>6, RowWritten

\* settle() asks for the status that only the row of a final transfer has.
LEMMA SettleSound ==
  ASSUME IInv, SoundInv, UNCHANGED chainVars, NEW t \in Txs, NEW i \in Invoices, Settle(i, t)
  PROVE  StoreSound' /\ Forward
<1>1. CASE UNCHANGED <<event, settlement>>
  BY <1>1, NothingWritten
<1>2. CASE ~UNCHANGED <<event, settlement>>
  <2>1. /\ event[t].status \in {"confirmed", "settled"}
        /\ settlement' = [settlement EXCEPT ![i] = t]
        /\ event' = [event EXCEPT ![t].status = "settled"]
    BY <1>2 DEF Settle, MaySettle
  <2>2. /\ event \in [Txs -> EventRows] /\ settlement \in [Invoices -> Txs \cup {NoTx}]
        /\ final \in Nat /\ head \in Nat /\ at \in [Txs -> Nat]
        /\ final' = final /\ head' = head /\ at' = at /\ reorgs' = reorgs /\ moved' = moved
    BY DEF IInv, TypeOK, StoreTypeOK, ChainTypeOK, chainVars
  <2>. DEFINE row == [event[t] EXCEPT !.status = "settled"]
  <2>3. row.status = "settled" /\ row.block = event[t].block
    BY <2>2 DEF EventRows
  <2>4. event' = [event EXCEPT ![t] = row]
    BY <2>1
  <2>. HIDE DEF row
  <2>5. event'[t] = row /\ \A s \in Txs : s # t => event'[s] = event[s]
    BY <2>2, <2>4
  <2>6. \A s \in Txs : Recorded(s) => Recorded(s)'
    BY <2>3, <2>5 DEF Recorded
  <2>7. Forward
    BY <2>2, <2>6 DEF Forward
  <2>8. SettledIsFinal' /\ \A s \in Txs : RowSound(event'[s], s)
    <3>1. SettledIsFinal /\ \A s \in Txs : RowSound(event[s], s)
      BY DEF SoundInv, StoreSound
    <3>2. t \notin moved => at[t] # 0 /\ at[t] <= final /\ event[t].block = at[t]
      BY <2>1, <3>1 DEF RowSound
    <3>3. \A s \in Txs : RowSound(event'[s], s)
      BY <2>3, <2>5, <3>1, <3>2 DEF RowSound
    <3>4. \A j \in Invoices : settlement'[j] = IF j = i THEN t ELSE settlement[j]
      BY <2>1, <2>2
    <3>5. SettledIsFinal'
      BY <2>2, <3>1, <3>2, <3>4 DEF SettledIsFinal, Settled
    <3>. QED
      BY <3>3, <3>5
  <2>9. StoreSound'
    BY <2>2, <2>8 DEF StoreSound, RowSound
  <2>. QED
    BY <2>7, <2>9
<1>. QED
  BY <1>1, <1>2

-----------------------------------------------------------------------------
(* Threads *)

LEMMA LogsAreTyped ==
  ASSUME IInv
  PROVE  /\ \A l \in mon.todo : l.tx \in Txs
         /\ mon.pc \in Holding => mon.log.tx \in Txs
         /\ \A v \in Verifiers : ver[v].pc # "idle" => ver[v].tx \in Txs
         /\ mon \in MonitorRows /\ mon.todo \in SUBSET Logs
         /\ mon.fin \in Nat /\ final \in Nat /\ head \in Nat /\ at \in [Txs -> Nat]
         /\ \A v \in Verifiers : ver[v] \in VerifierRows /\ ver[v].fin \in Nat
BY DEF IInv, TypeOK, ChainTypeOK, ThreadInv, MonInv, VerInv, MonitorRows, VerifierRows,
       Logs, Holding

\* What a thread knows stays true when the others move.
LEMMA MonSoundKept ==
  ASSUME IInv, SoundInv, Forward, final' \in Nat, NEW m, m = mon
  PROVE  MonSound(m)'
<1>1. /\ \A l \in m.todo : l.tx \in Txs
      /\ m.pc \in Holding => m.log.tx \in Txs
      /\ m.fin \in Nat /\ final \in Nat
  BY LogsAreTyped
<1>2. MonSound(m)
  BY DEF SoundInv
<1>3. m.pc \in Reconciling => \A l \in m.todo : Recorded(l.tx)'
  BY <1>1, <1>2 DEF MonSound, Forward
<1>4. m.pc \in Holding \ {"insert"} => Recorded(m.log.tx)'
  BY <1>1, <1>2 DEF MonSound, Forward
<1>5. m.fin <= final'
  BY <1>1, <1>2 DEF MonSound, Forward
<1>6. /\ \A l \in m.todo : Seen(l)'
      /\ m.pc \in Holding => Seen(m.log)'
  <2>1. \A t \in Txs : t \notin moved' => t \notin moved /\ (Known(t) /\ at[t] # 0 => at'[t] = at[t])
    BY DEF Forward
  <2>2. /\ \A l \in m.todo : Known(l.tx)
        /\ m.pc \in Holding => Known(m.log.tx)
    BY DEF Known
  <2>3. \A l \in m.todo : Seen(l)'
    BY <1>1, <1>2, <2>1, <2>2 DEF MonSound, Seen
  <2>4. m.pc \in Holding => Seen(m.log)'
    BY <1>1, <1>2, <2>1, <2>2 DEF MonSound, Seen
  <2>. QED
    BY <2>3, <2>4
<1>. QED
  BY <1>2, <1>3, <1>4, <1>5, <1>6 DEF MonSound

LEMMA VerSoundKept ==
  ASSUME IInv, SoundInv, Forward, final' \in Nat, NEW v \in Verifiers, NEW c, c = ver[v]
  PROVE  VerSound(c)'
<1>1. (c.pc # "idle" => c.tx \in Txs) /\ c.fin \in Nat /\ final \in Nat
  BY LogsAreTyped
<1>2. VerSound(c)
  BY DEF SoundInv
<1>3. (c.pc \in {"attach", "update", "settle"} => Recorded(c.tx)') /\ c.fin <= final'
  BY <1>1, <1>2 DEF VerSound, Forward
<1>4. c.pc \notin {"idle", "receipt"} /\ c.tx \notin moved' => c.block = at'[c.tx] /\ c.block # 0
  <2>1. c.pc \notin {"idle", "receipt"} => Known(c.tx)
    BY DEF Known
  <2>. QED
    BY <1>1, <1>2, <2>1 DEF VerSound, Forward
<1>. QED
  BY <1>3, <1>4 DEF VerSound

LEMMA IdleSound ==
  ASSUME final' \in Nat
  PROVE  VerSound(Idle)' /\ MonSound(Asleep)'
BY DEF VerSound, MonSound, Idle, Asleep, Holding, Reconciling

\* A step of the monitor, a step of one verify call, a step of neither.
LEMMA MonitorSound ==
  ASSUME IInv, SoundInv, StoreSound', Forward, UNCHANGED <<ver, chainVars>>, MonSound(mon)'
  PROVE  SoundInv'
<1>1. ChainSound' /\ final' \in Nat
  BY DEF SoundInv, ChainSound, chainVars, IInv, TypeOK, ChainTypeOK
<1>2. \A v \in Verifiers : VerSound(ver[v])'
  <2>1. TAKE v \in Verifiers
  <2>2. PICK c : c = ver[v]
    OBVIOUS
  <2>3. VerSound(c)' /\ ver'[v] = c
    BY <1>1, <2>2, VerSoundKept
  <2>. QED
    BY <2>3 DEF VerSound
<1>. QED
  BY <1>1, <1>2 DEF SoundInv, MonSound

LEMMA VerifierSound ==
  ASSUME IInv, SoundInv, StoreSound', Forward, UNCHANGED <<mon, chainVars>>,
         NEW v \in Verifiers, \A w \in Verifiers : w # v => ver'[w] = ver[w],
         VerSound(ver[v])'
  PROVE  SoundInv'
<1>1. ChainSound' /\ final' \in Nat
  BY DEF SoundInv, ChainSound, chainVars, IInv, TypeOK, ChainTypeOK
<1>2. \A w \in Verifiers : VerSound(ver[w])'
  <2>1. TAKE w \in Verifiers
  <2>2. CASE w = v
    BY <2>2 DEF VerSound
  <2>3. CASE w # v
    <3>1. PICK c : c = ver[w]
      OBVIOUS
    <3>2. VerSound(c)' /\ ver'[w] = c
      BY <1>1, <2>3, <3>1, VerSoundKept
    <3>. QED
      BY <3>2 DEF VerSound
  <2>. QED
    BY <2>2, <2>3
<1>3. MonSound(mon)'
  <2>1. PICK m : m = mon
    OBVIOUS
  <2>2. MonSound(m)' /\ mon' = m
    BY <1>1, <2>1, MonSoundKept
  <2>. QED
    BY <2>2 DEF MonSound
<1>. QED
  BY <1>1, <1>2, <1>3 DEF SoundInv

LEMMA ThreadsSound ==
  ASSUME IInv, SoundInv, StoreSound', ChainSound', Forward, final' \in Nat,
         UNCHANGED <<mon, ver>>
  PROVE  SoundInv'
<1>1. \A w \in Verifiers : VerSound(ver[w])'
  <2>1. TAKE w \in Verifiers
  <2>2. PICK c : c = ver[w]
    OBVIOUS
  <2>3. VerSound(c)' /\ ver'[w] = c
    BY <2>2, VerSoundKept
  <2>. QED
    BY <2>3 DEF VerSound
<1>2. MonSound(mon)'
  <2>1. PICK m : m = mon
    OBVIOUS
  <2>2. MonSound(m)' /\ mon' = m
    BY <2>1, MonSoundKept
  <2>. QED
    BY <2>2 DEF MonSound
<1>. QED
  BY <1>1, <1>2 DEF SoundInv

-----------------------------------------------------------------------------
(* The environment and the short requests *)

LEMMA EnvironmentSound ==
  ASSUME IInv, SoundInv, Environment
  PROVE  SoundInv' /\ Forward
<1>1. /\ final \in Nat /\ head \in Nat /\ at \in [Txs -> Nat] /\ reorgs \in Nat
      /\ settlement \in [Invoices -> Txs \cup {NoTx}] /\ ChainSound
  BY DEF IInv, TypeOK, ChainTypeOK, StoreTypeOK, SoundInv
<1>2. ASSUME NEW S \in SUBSET Txs, Mine(S) PROVE SoundInv' /\ Forward
  <2>1. /\ \A t \in Txs : at'[t] = IF t \in S THEN head + 1 ELSE at[t]
        /\ \A t \in S : at[t] = 0
        /\ head' = head + 1 /\ final' = final /\ reorgs' = reorgs /\ moved' = moved
        /\ UNCHANGED <<event, settlement, mon, ver>>
    BY <1>2 DEF Mine, storeVars, threadVars
  <2>2. Forward
    BY <1>1, <2>1 DEF Forward, Recorded
  <2>3. ChainSound'
    BY <1>1, <2>1 DEF ChainSound
  <2>4. \A t \in Txs : at[t] # 0 => at'[t] = at[t]
    BY <1>1, <2>1
  <2>5. StoreSound'
    <3>2. SettledIsFinal /\ \A t \in Txs : RowSound(event[t], t)
      BY DEF SoundInv, StoreSound
    <3>3. \A t \in Txs : RowSound(event[t], t)'
      BY <1>1, <2>1, <2>4, <3>2 DEF RowSound
    <3>4. \A i \in Invoices : Settled(i) => settlement[i] \in Txs
      BY <1>1 DEF Settled
    <3>5. SettledIsFinal'
      BY <1>1, <2>1, <2>4, <3>2, <3>4 DEF SettledIsFinal, Settled
    <3>. QED
      BY <3>3, <3>5 DEF StoreSound
  <2>. QED
    BY <1>1, <2>1, <2>2, <2>3, <2>5, ThreadsSound
<1>3. CASE Finalize
  <2>1. /\ final' \in (final + 1)..head
        /\ UNCHANGED <<head, at, reorgs, moved, event, settlement, mon, ver>>
    BY <1>3 DEF Finalize, storeVars, threadVars
  <2>2. final' \in Nat /\ final <= final' /\ final' <= head
    BY <1>1, <2>1
  <2>3. Forward /\ ChainSound'
    BY <1>1, <2>1, <2>2 DEF Forward, Recorded, ChainSound
  <2>4. StoreSound'
    <3>2. SettledIsFinal /\ \A t \in Txs : RowSound(event[t], t)
      BY DEF SoundInv, StoreSound
    <3>3. \A t \in Txs : RowSound(event[t], t)'
      BY <1>1, <2>1, <2>2, <3>2 DEF RowSound
    <3>4. \A i \in Invoices : Settled(i) => settlement[i] \in Txs
      BY <1>1 DEF Settled
    <3>5. SettledIsFinal'
      BY <1>1, <2>1, <2>2, <3>2, <3>4 DEF SettledIsFinal, Settled
    <3>. QED
      BY <3>3, <3>5 DEF StoreSound
  <2>. QED
    BY <2>1, <2>2, <2>3, <2>4, ThreadsSound
<1>4. ASSUME NEW k \in 1..MaxBlock, Reorg(k) PROVE SoundInv' /\ Forward
  <2>1. /\ reorgs' = reorgs + 1 /\ UNCHANGED <<head, final, event, settlement, mon, ver>>
        /\ k \in (final + 1)..head
    BY <1>4 DEF Reorg, storeVars, threadVars
  <2>. DEFINE hit == {t \in Txs : at[t] >= k}
  <2>2. PICK pos \in [hit -> {0} \cup k..head] :
          /\ at' = [t \in Txs |-> IF t \in hit THEN pos[t] ELSE at[t]]
          /\ moved' = moved \cup {t \in hit : Known(t) /\ pos[t] # at[t]}
    BY <1>4 DEF Reorg
  <2>3. \A t \in Txs : /\ at'[t] <= head
                       /\ at[t] < k => at'[t] = at[t]
    <3>1. \A t \in hit : pos[t] <= head
      BY <1>1, <2>2
    <3>. QED
      BY <1>1, <2>2, <3>1 DEF ChainSound
  <2>4. \A t \in Txs : t \notin moved' => t \notin moved /\ (Known(t) => at'[t] = at[t])
    BY <2>2
  <2>5. Forward
    BY <1>1, <2>1, <2>4 DEF Forward, Recorded
  <2>6. ChainSound'
    BY <1>1, <2>1, <2>3 DEF ChainSound
  <2>7. SettledIsFinal /\ \A t \in Txs : RowSound(event[t], t)
    BY DEF SoundInv, StoreSound
  <2>8. \A t \in Txs : RowSound(event[t], t)'
    <3>1. \A t \in Txs : event[t].status # "none" => Known(t)
      BY DEF Known, Recorded
    <3>. QED
      BY <2>1, <2>4, <2>7, <3>1 DEF RowSound
  <2>9. SettledIsFinal'
    <3>1. \A i \in Invoices : Settled(i) => settlement[i] \in Txs
      BY <1>1 DEF Settled
    <3>2. \A t \in Txs : at[t] \in 1..final => at'[t] = at[t]
      BY <1>1, <2>1, <2>3
    <3>. QED
      BY <2>1, <2>4, <2>7, <3>1, <3>2 DEF SettledIsFinal, Settled
  <2>10. StoreSound'
    BY <2>8, <2>9 DEF StoreSound
  <2>. QED
    BY <1>1, <2>1, <2>5, <2>6, <2>10, ThreadsSound
<1>5. ASSUME UNCHANGED <<event, settlement>>, UNCHANGED <<chainVars, threadVars>>
      PROVE  SoundInv' /\ Forward
  <2>1. StoreSound' /\ Forward
    BY <1>5, NothingWritten
  <2>2. ChainSound' /\ final' \in Nat
    BY <1>1, <1>5 DEF ChainSound, chainVars
  <2>. QED
    BY <1>5, <2>1, <2>2, ThreadsSound DEF threadVars
<1>. QED
  BY <1>2, <1>3, <1>4, <1>5 DEF Environment, Lapse, TogglePlan

LEMMA RequestsSound ==
  ASSUME IInv, SoundInv, Requests \/ UNCHANGED vars
  PROVE  SoundInv' /\ Forward
<1>1. UNCHANGED <<event, settlement>> /\ UNCHANGED <<chainVars, threadVars>>
  BY DEF Requests, RequestInvoice, CreateInvoice, ReadInvoice, MarkExpired, vars, storeVars
<1>2. StoreSound' /\ Forward
  BY <1>1, NothingWritten
<1>3. ChainSound' /\ final' \in Nat
  BY <1>1 DEF IInv, TypeOK, ChainTypeOK, SoundInv, ChainSound, chainVars
<1>. QED
  BY <1>1, <1>2, <1>3, ThreadsSound DEF threadVars

-----------------------------------------------------------------------------
(* verify_transaction *)

LEMMA VerifySound ==
  ASSUME IInv, SoundInv, NEW v \in Verifiers, VerifyNext(v)
  PROVE  SoundInv' /\ Forward
<1>0. PICK c : c = ver[v]
  OBVIOUS
<1>. USE <1>0
<1>1. /\ c \in VerifierRows /\ VerSound(c) /\ VerInv(c) /\ c.fin \in Nat /\ c.block \in Nat
      /\ ver \in [Verifiers -> VerifierRows]
      /\ final \in Nat /\ final' \in Nat /\ at \in [Txs -> Nat]
  <2>1. UNCHANGED chainVars
    BY DEF VerifyNext, VerifyBegin, VerifyReceipt, VerifyFinality, VerifyInsert, VerifyAttach,
           VerifyUpdate, VerifySettle, VerifyStep, VerifyGoto, VerifyDone
  <2>. QED
    BY <2>1 DEF IInv, TypeOK, ChainTypeOK, SoundInv, ThreadInv, VerifierRows, chainVars
<1>2. ASSUME NEW d, VerifyStep(v, d), StoreSound', Forward, VerSound(d)'
      PROVE  SoundInv' /\ Forward
  <2>1. ver'[v] = d /\ \A w \in Verifiers : w # v => ver'[w] = ver[w]
    BY <1>1, <1>2 DEF VerifyStep
  <2>2. VerSound(ver[v])'
    BY <1>2, <2>1 DEF VerSound
  <2>. QED
    BY <1>2, <2>1, <2>2, VerifierSound DEF VerifyStep
<1>3. ASSUME NEW d, VerifyStep(v, d), UNCHANGED storeVars, VerSound(d)
      PROVE  SoundInv' /\ Forward
  <2>1. StoreSound' /\ Forward
    BY <1>3, NothingWritten DEF storeVars, VerifyStep
  <2>2. VerSound(d)'
    BY <1>3 DEF VerSound, VerifyStep, chainVars, storeVars, Recorded
  <2>. QED
    BY <1>2, <1>3, <2>1, <2>2
<1>4. VerSound(Idle) /\ VerSound(Idle)'
  BY <1>1 DEF VerSound, Idle
<1>5. ASSUME NEW pc, VerifyGoto(v, pc), StoreSound', Forward,
             c.pc \in {"insert", "attach", "update"}, pc \in {"attach", "update", "settle"},
             Recorded(c.tx)'
      PROVE  SoundInv' /\ Forward
  <2>. DEFINE d == [c EXCEPT !.pc = pc]
  <2>1. d.pc = pc /\ d.tx = c.tx /\ d.fin = c.fin /\ d.block = c.block
    BY <1>1 DEF VerifierRows
  <2>2. VerifyStep(v, d)
    BY <1>5 DEF VerifyGoto
  <2>. HIDE DEF d
  <2>3. VerSound(d)'
    BY <1>1, <1>5, <2>1, <2>2 DEF VerSound, VerifyStep, chainVars
  <2>. QED
    BY <1>2, <1>5, <2>2, <2>3
<1>6. ASSUME NEW i \in Invoices, NEW t \in Txs, VerifyBegin(v, i, t) PROVE SoundInv' /\ Forward
  <2>. DEFINE d == [Idle EXCEPT !.pc = "receipt", !.inv = i, !.tx = t,
                                !.payer = invoice[i].payer]
  <2>1. VerSound(d)
    BY <1>1 DEF VerSound, Idle
  <2>. QED
    BY <1>3, <1>6, <2>1 DEF VerifyBegin
<1>7. CASE VerifyReceipt(v)
  <2>. DEFINE d == Accepted(c)
  <2>1. d.pc = "finality" /\ d.block = at[c.tx] /\ d.tx = c.tx /\ d.fin = c.fin
    BY <1>1 DEF Accepted, VerifierRows
  <2>2. \/ VerifyStep(v, d) /\ at[c.tx] # 0
        \/ VerifyStep(v, Idle)
    BY <1>7 DEF VerifyReceipt, Exact, VerifyDone
  <2>. HIDE DEF d
  <2>3. at[c.tx] # 0 => VerSound(d)
    BY <1>1, <2>1 DEF VerSound
  <2>. QED
    BY <1>3, <1>4, <1>7, <2>2, <2>3 DEF VerifyReceipt
<1>8. CASE VerifyFinality(v)
  <2>. DEFINE d == [c EXCEPT !.pc = "insert", !.fin = final]
  <2>1. d.pc = "insert" /\ d.block = c.block /\ d.tx = c.tx /\ d.fin = final
    BY <1>1 DEF VerifierRows
  <2>2. VerifyStep(v, d) \/ VerifyStep(v, Idle)
    BY <1>8 DEF VerifyFinality, VerifyDone
  <2>. HIDE DEF d
  <2>3. VerSound(d)
    BY <1>1, <1>8, <2>1 DEF VerSound, VerifyFinality
  <2>. QED
    BY <1>3, <1>4, <1>8, <2>2, <2>3 DEF VerifyFinality
<1>9. c.pc \notin {"idle", "receipt"} =>
        /\ c.tx \in Txs /\ c.inv \in Invoices
        /\ c.tx \notin moved => /\ c.block = at[c.tx] /\ c.block # 0
                                /\ c.fin >= c.block => at[c.tx] <= final
  BY <1>1 DEF VerInv, VerSound
<1>10. CASE VerifyInsert(v)
  <2>1. UNCHANGED chainVars /\ c.pc = "insert"
    BY <1>10 DEF VerifyInsert, VerifyGoto, VerifyStep
  <2>2. /\ InsertPaymentEvent(c.tx, c.inv, FinalityStatus(c.fin, c.block), c.block, c.hash)
        /\ VerifyGoto(v, "attach") \/ VerifyGoto(v, "update")
    BY <1>10 DEF VerifyInsert
  <2>3. /\ FinalityStatus(c.fin, c.block) \notin {"none", "settled"}
        /\ FinalityStatus(c.fin, c.block) = "confirmed" => c.fin >= c.block
    BY DEF FinalityStatus
  <2>4. StoreSound' /\ Forward /\ Recorded(c.tx)'
    BY <1>9, <2>1, <2>2, <2>3, InsertSound
  <2>. QED
    BY <1>5, <2>1, <2>2, <2>4
<1>11. CASE VerifyAttach(v)
  <2>1. UNCHANGED chainVars /\ c.pc = "attach" /\ Recorded(c.tx)
    BY <1>1, <1>11 DEF VerifyAttach, VerifyGoto, VerifyStep, VerSound
  <2>2. StoreSound' /\ Forward
    BY <1>9, <1>11, <2>1, AttachSound DEF VerifyAttach
  <2>3. Recorded(c.tx)'
    BY <1>9, <2>1, <2>2 DEF Forward
  <2>. QED
    BY <1>5, <1>11, <2>1, <2>2, <2>3 DEF VerifyAttach
<1>12. CASE VerifyUpdate(v)
  <2>1. UNCHANGED chainVars /\ c.pc = "update" /\ Recorded(c.tx)
    BY <1>1, <1>12 DEF VerifyUpdate, VerifyGoto, VerifyDone, VerifyStep, VerSound
  <2>2. UpdateEventConfirmation(c.tx, FinalityStatus(c.fin, c.block), event[c.tx].hash)
    BY <1>12 DEF VerifyUpdate
  <2>3. /\ FinalityStatus(c.fin, c.block) \notin {"none", "settled"}
        /\ FinalityStatus(c.fin, c.block) = "confirmed" => c.fin >= c.block
    BY DEF FinalityStatus
  <2>4. StoreSound' /\ Forward
    BY <1>9, <2>1, <2>2, <2>3, UpdateSound
  <2>5. Recorded(c.tx)'
    BY <1>9, <2>1, <2>4 DEF Forward
  <2>6. VerifyGoto(v, "settle") \/ VerifyStep(v, Idle)
    BY <1>12 DEF VerifyUpdate, VerifyDone
  <2>. QED
    BY <1>2, <1>4, <1>5, <2>1, <2>4, <2>5, <2>6
<1>13. CASE VerifySettle(v)
  <2>1. UNCHANGED chainVars /\ c.pc = "settle" /\ Settle(c.inv, c.tx) /\ VerifyStep(v, Idle)
    BY <1>13 DEF VerifySettle, VerifyDone, VerifyStep
  <2>2. StoreSound' /\ Forward
    BY <1>9, <2>1, SettleSound
  <2>. QED
    BY <1>2, <1>4, <2>1, <2>2
<1>. QED
  BY <1>6, <1>7, <1>8, <1>10, <1>11, <1>12, <1>13 DEF VerifyNext

-----------------------------------------------------------------------------
(* PaymentMonitor *)

LEMMA MonitorMoves ==
  ASSUME IInv, SoundInv, NEW n, MonitorStep(n), StoreSound', Forward, MonSound(n)'
  PROVE  SoundInv'
<1>1. mon' = n /\ UNCHANGED <<ver, chainVars>>
  BY DEF MonitorStep
<1>2. MonSound(mon)'
  BY <1>1 DEF MonSound
<1>. QED
  BY <1>1, <1>2, MonitorSound DEF MonitorStep

LEMMA MonitorReadsSound ==
  ASSUME IInv, SoundInv, NEW n, MonitorReads(n), MonSound(n)
  PROVE  SoundInv' /\ Forward
<1>1. MonitorStep(n) /\ UNCHANGED storeVars /\ UNCHANGED chainVars
  BY DEF MonitorReads, MonitorStep
<1>2. StoreSound' /\ Forward
  BY <1>1, NothingWritten DEF storeVars
<1>3. MonSound(n)'
  BY <1>1 DEF MonSound, Seen, Recorded, storeVars, chainVars
<1>. QED
  BY <1>1, <1>2, <1>3, MonitorMoves

\* The monitor goes on with the log it holds, or with the next one.
LEMMA MonitorGotoSound ==
  ASSUME IInv, SoundInv, NEW pc, MonitorGoto(pc), StoreSound', Forward,
         pc \notin {"insert", "confirm"},
         pc \in Holding => /\ mon.pc \in Holding
                           /\ mon.pc = "insert" => event'[mon.log.tx].status # "none",
         pc \in Reconciling => mon.pc \in Reconciling
  PROVE  SoundInv'
<1>1. PICK m : m = mon
  OBVIOUS
<1>2. final' \in Nat
  BY LogsAreTyped DEF MonitorGoto, MonitorStep, chainVars
<1>3. MonSound(m)'
  BY <1>1, <1>2, MonSoundKept
<1>4. PICK n : n = [m EXCEPT !.pc = pc]
  OBVIOUS
<1>5. n.pc = pc /\ n.todo = m.todo /\ n.log = m.log /\ n.fin = m.fin
  BY <1>1, <1>4, LogsAreTyped DEF MonitorRows
<1>6. pc \in Holding => Recorded(m.log.tx)'
  BY <1>1, <1>3 DEF MonSound, Recorded
<1>7. MonSound(n)'
  BY <1>1, <1>3, <1>5, <1>6 DEF MonSound
<1>. QED
  BY <1>1, <1>4, <1>7, MonitorMoves DEF MonitorGoto

LEMMA MonitorNextSound ==
  ASSUME IInv, SoundInv, StoreSound', Forward,
         \/ NextLog
         \/ NextRow /\ mon.pc \in Reconciling
         \/ MonitorStep(Asleep)
  PROVE  SoundInv'
<1>1. PICK m : m = mon
  OBVIOUS
<1>2. final' \in Nat
  BY LogsAreTyped DEF NextLog, NextRow, MonitorStep, chainVars
<1>3. MonSound(m)'
  BY <1>1, <1>2, MonSoundKept
<1>4. CASE NextLog
  <2>1. PICK n : n = [m EXCEPT !.pc = "pick", !.log = NoTx, !.auto = FALSE, !.fin = 0]
    OBVIOUS
  <2>2. n.pc = "pick" /\ n.todo = m.todo /\ n.fin = 0
    BY <1>1, <2>1, LogsAreTyped DEF MonitorRows
  <2>3. MonSound(n)'
    BY <1>2, <1>3, <2>2 DEF MonSound, Holding, Reconciling
  <2>. QED
    BY <1>1, <1>4, <2>1, <2>3, MonitorMoves DEF NextLog
<1>5. CASE NextRow /\ mon.pc \in Reconciling
  <2>1. PICK n : n = [m EXCEPT !.pc = "row", !.log = NoTx]
    OBVIOUS
  <2>2. n.pc = "row" /\ n.todo = m.todo /\ n.fin = m.fin
    BY <1>1, <2>1, LogsAreTyped DEF MonitorRows
  <2>3. MonSound(n)'
    BY <1>1, <1>3, <1>5, <2>2 DEF MonSound, Holding, Reconciling
  <2>. QED
    BY <1>1, <1>5, <2>1, <2>3, MonitorMoves DEF NextRow
<1>6. CASE MonitorStep(Asleep)
  BY <1>2, <1>6, IdleSound, MonitorMoves
<1>. QED
  BY <1>4, <1>5, <1>6

LEMMA ScanSound ==
  ASSUME IInv, SoundInv,
         \/ MonitorWake \/ ScanStart \/ ScanLogs \/ ScanPick \/ ScanInsert \/ ScanAttach
         \/ ScanReceipt \/ ScanFinality \/ ScanUpdate \/ ScanSettle \/ ScanAdvance
  PROVE  SoundInv' /\ Forward
<1>1. PICK m : m = mon
  OBVIOUS
<1>2. /\ m \in MonitorRows /\ MonSound(m) /\ m.fin \in Nat /\ m.todo \in SUBSET Logs
      /\ final \in Nat /\ at \in [Txs -> Nat]
      /\ m.pc \in Holding => m.log \in Logs /\ m.log.tx \in Txs
      /\ \A l \in m.todo : l.tx \in Txs
  BY <1>1, LogsAreTyped DEF SoundInv, IInv, ThreadInv, MonInv, Holding
<1>3. m.pc \in Linked => m.log.inv # 0 /\ m.log.inv \in Invoices
  BY <1>1, <1>2 DEF IInv, ThreadInv, MonInv, LogInv, Paired, Linked, Holding
<1>4. m.pc \in Holding => Seen(m.log)
  BY <1>2 DEF MonSound
<1>5. m.pc \in Holding \ {"insert"} => Recorded(m.log.tx)
  BY <1>2 DEF MonSound
<1>. USE <1>1
<1>6. ASSUME UNCHANGED <<event, settlement>>, UNCHANGED chainVars PROVE StoreSound' /\ Forward
  BY <1>6, NothingWritten
<1>7. CASE MonitorWake
  <2>1. MonitorGoto("scan") /\ UNCHANGED <<event, settlement>> /\ UNCHANGED chainVars
    BY <1>7 DEF MonitorWake, MarkExpired, MonitorGoto, MonitorStep
  <2>. QED
    BY <1>6, <2>1, MonitorGotoSound DEF Holding, Reconciling
<1>8. CASE ScanStart
  <2>1. CASE MonitorReads([mon EXCEPT !.pc = "reconcile"])
    <3>1. MonitorGoto("reconcile") /\ UNCHANGED <<event, settlement>> /\ UNCHANGED chainVars
      BY <2>1 DEF MonitorReads, MonitorGoto, MonitorStep, storeVars
    <3>. QED
      BY <1>6, <3>1, MonitorGotoSound DEF Holding, Reconciling
  <2>2. CASE \E block \in {nextBlock'} : MoveCursor(block)
             /\ MonitorStep([mon EXCEPT !.pc = "logs", !.latest = head])
    <3>1. UNCHANGED <<event, settlement>> /\ UNCHANGED chainVars
      BY <2>2 DEF MoveCursor, MonitorStep
    <3>2. PICK n : n = [m EXCEPT !.pc = "logs", !.latest = head]
      OBVIOUS
    <3>3. n.pc = "logs" /\ n.todo = m.todo /\ n.fin = m.fin
      BY <1>2, <3>2 DEF MonitorRows
    <3>4. MonSound(n)'
      BY <1>2, <3>1, <3>3 DEF MonSound, Seen, Holding, Reconciling, chainVars
    <3>. QED
      BY <1>6, <2>2, <3>1, <3>2, <3>4, MonitorMoves
  <2>. QED
    BY <1>8, <2>1, <2>2 DEF ScanStart, MoveCursor
<1>9. CASE ScanLogs
  <2>. DEFINE logs == {LogOf(t, 0) : t \in {s \in Txs : at[s] # 0 /\ at[s] \in nextBlock..ChunkEnd}}
  <2>1. PICK n : n = [m EXCEPT !.pc = "pick", !.todo = logs]
    OBVIOUS
  <2>2. n.pc = "pick" /\ n.todo = logs /\ n.fin = m.fin
    BY <1>2, <2>1 DEF MonitorRows
  <2>3. \A l \in logs : Seen(l)
    BY DEF LogOf, Seen
  <2>4. MonSound(n)
    BY <1>2, <2>2, <2>3 DEF MonSound, Holding, Reconciling
  <2>. QED
    BY <1>9, <2>1, <2>4, MonitorReadsSound DEF ScanLogs
<1>10. CASE ScanPick
  <2>0. PICK l \in m.todo :
          \E i, auto :
            MonitorReads([m EXCEPT !.pc = "insert", !.todo = @ \ {l}, !.log = [l EXCEPT !.inv = i],
                                   !.auto = auto])
    BY <1>10 DEF ScanPick
  <2>1. PICK i, auto :
          MonitorReads([m EXCEPT !.pc = "insert", !.todo = @ \ {l}, !.log = [l EXCEPT !.inv = i],
                                 !.auto = auto])
    BY <2>0
  <2>2. PICK n : n = [m EXCEPT !.pc = "insert", !.todo = @ \ {l}, !.log = [l EXCEPT !.inv = i],
                               !.auto = auto]
    OBVIOUS
  <2>3. PICK log : log = [l EXCEPT !.inv = i]
    OBVIOUS
  <2>4. log.tx = l.tx /\ log.block = l.block
    BY <1>2, <2>3 DEF Logs
  <2>5. n.pc = "insert" /\ n.todo = m.todo \ {l} /\ n.log = log /\ n.fin = m.fin
    BY <1>2, <2>2, <2>3 DEF MonitorRows
  <2>6. MonSound(n)
    BY <1>2, <2>4, <2>5 DEF MonSound, Seen, Holding, Reconciling
  <2>. QED
    BY <2>1, <2>2, <2>6, MonitorReadsSound
<1>11. CASE ScanInsert
  <2>1. /\ m.pc = "insert" /\ UNCHANGED chainVars
        /\ InsertPaymentEvent(m.log.tx, m.log.inv, "detected", m.log.block, m.log.hash)
        /\ NextLog \/ MonitorGoto("attach") \/ MonitorGoto("receipt")
    BY <1>11 DEF ScanInsert, NextLog, MonitorGoto, MonitorStep
  <2>2. StoreSound' /\ Forward /\ Recorded(m.log.tx)'
    BY <1>2, <1>4, <2>1, InsertSound DEF Seen, Holding
  <2>3. event'[mon.log.tx].status # "none"
    BY <2>2 DEF Recorded
  <2>. QED
    BY <2>1, <2>2, <2>3, MonitorGotoSound, MonitorNextSound DEF Holding, Reconciling
<1>12. CASE ScanAttach
  <2>1. /\ m.pc = "attach" /\ UNCHANGED chainVars /\ MonitorGoto("receipt")
        /\ AttachInvoice(m.log.tx, m.log.inv)
    BY <1>12 DEF ScanAttach, MonitorGoto, MonitorStep
  <2>2. StoreSound' /\ Forward
    BY <1>2, <1>5, <2>1, AttachSound DEF Holding
  <2>. QED
    BY <2>1, <2>2, MonitorGotoSound DEF Holding, Reconciling
<1>13. CASE ScanReceipt
  <2>1. /\ m.pc = "receipt" /\ UNCHANGED chainVars /\ UNCHANGED <<event, settlement>>
        /\ NextLog \/ MonitorGoto("finality")
    BY <1>13 DEF ScanReceipt, NextLog, MonitorGoto, MonitorStep, storeVars
  <2>. QED
    BY <1>6, <2>1, MonitorGotoSound, MonitorNextSound DEF Holding, Reconciling
<1>14. CASE ScanFinality
  <2>1. PICK n : n = [m EXCEPT !.pc = "update", !.fin = final]
    OBVIOUS
  <2>2. n.pc = "update" /\ n.todo = m.todo /\ n.fin = final /\ n.log = m.log
    BY <1>2, <2>1 DEF MonitorRows
  <2>3. MonSound(n)
    BY <1>2, <1>14, <2>2 DEF MonSound, Holding, Reconciling, ScanFinality
  <2>. QED
    BY <1>14, <2>1, <2>3, MonitorReadsSound DEF ScanFinality
<1>15. CASE ScanUpdate
  <2>1. /\ m.pc = "update" /\ UNCHANGED chainVars
        /\ UpdateEventConfirmation(m.log.tx, FinalityStatus(m.fin, m.log.block),
                                   event[m.log.tx].hash)
        /\ NextLog \/ MonitorGoto("settle")
    BY <1>15 DEF ScanUpdate, NextLog, MonitorGoto, MonitorStep
  <2>2. /\ FinalityStatus(m.fin, m.log.block) \notin {"none", "settled"}
        /\ FinalityStatus(m.fin, m.log.block) = "confirmed" => m.fin >= m.log.block
    BY DEF FinalityStatus
  <2>3. m.fin <= final
    BY <1>2 DEF MonSound
  <2>4. m.log.tx \notin moved => m.log.block = at[m.log.tx] /\ at[m.log.tx] \in Nat
    BY <1>2, <1>4, <2>1 DEF Seen, Holding
  <2>5. m.log.tx \notin moved /\ FinalityStatus(m.fin, m.log.block) = "confirmed" => at[m.log.tx] <= final
    BY <1>2, <2>2, <2>3, <2>4
  <2>6. StoreSound' /\ Forward
    BY <1>2, <1>5, <2>1, <2>2, <2>5, UpdateSound DEF Holding
  <2>. QED
    BY <2>1, <2>6, MonitorGotoSound, MonitorNextSound DEF Holding, Reconciling
<1>16. CASE ScanSettle
  <2>1. m.pc = "settle" /\ Settle(m.log.inv, m.log.tx) /\ NextLog /\ UNCHANGED chainVars
    BY <1>16 DEF ScanSettle, NextLog, MonitorStep
  <2>2. StoreSound' /\ Forward
    BY <1>2, <1>3, <2>1, SettleSound DEF Holding, Linked
  <2>. QED
    BY <2>1, <2>2, MonitorNextSound
<1>17. CASE ScanAdvance
  <2>1. UNCHANGED <<event, settlement>> /\ UNCHANGED chainVars
    BY <1>17 DEF ScanAdvance, MoveCursor, MonitorStep
  <2>2. MonitorGoto("logs") \/ MonitorStep([Asleep EXCEPT !.pc = "reconcile"])
    BY <1>17 DEF ScanAdvance, MonitorGoto
  <2>3. MonSound([Asleep EXCEPT !.pc = "reconcile"])'
    BY <1>2, <2>1 DEF MonSound, Asleep, Holding, Reconciling, chainVars
  <2>. QED
    BY <1>6, <2>1, <2>2, <2>3, MonitorGotoSound, MonitorMoves DEF Holding, Reconciling
<1>. QED
  BY <1>7, <1>8, <1>9, <1>10, <1>11, <1>12, <1>13, <1>14, <1>15, <1>16, <1>17

LEMMA ReconcileSound ==
  ASSUME IInv, SoundInv,
         \/ ReconcileStart \/ ReconcileFinality \/ ReconcileRow \/ ReconcileDrop
         \/ ReconcileReopen \/ ReconcileSwap \/ ReconcileConfirm \/ ReconcileCredit
         \/ ReconcileWait \/ ReconcileDone
  PROVE  SoundInv' /\ Forward
<1>1. PICK m : m = mon
  OBVIOUS
<1>2. /\ m \in MonitorRows /\ MonSound(m) /\ m.fin \in Nat /\ m.todo \in SUBSET Logs
      /\ final \in Nat /\ at \in [Txs -> Nat]
      /\ m.pc \in Holding => m.log \in Logs /\ m.log.tx \in Txs
      /\ \A l \in m.todo : l.tx \in Txs
  BY <1>1, LogsAreTyped DEF SoundInv, IInv, ThreadInv, MonInv, Holding
<1>3. m.pc \in Linked => m.log.inv # 0 /\ m.log.inv \in Invoices
  BY <1>1, <1>2 DEF IInv, ThreadInv, MonInv, LogInv, Paired, Linked, Holding
<1>4. m.pc \in Holding => Seen(m.log)
  BY <1>2 DEF MonSound
<1>5. m.pc \in Holding \ {"insert"} => Recorded(m.log.tx)
  BY <1>2 DEF MonSound
<1>. USE <1>1
<1>6. ASSUME UNCHANGED <<event, settlement>>, UNCHANGED chainVars PROVE StoreSound' /\ Forward
  BY <1>6, NothingWritten
<1>7. MonSound(Asleep)
  BY <1>2 DEF MonSound, Asleep, Holding, Reconciling
<1>8. CASE ReconcileStart
  <2>. DEFINE rows == {RowOf(t) : t \in {s \in Txs : event[s].status = "confirming"}}
  <2>1. PICK n : n = [m EXCEPT !.pc = "rows", !.todo = rows]
    OBVIOUS
  <2>2. n.pc = "rows" /\ n.todo = rows /\ n.fin = m.fin
    BY <1>2, <2>1 DEF MonitorRows
  <2>3. \A l \in rows : Recorded(l.tx) /\ Seen(l)
    BY DEF RowOf, Seen, Recorded, SoundInv, StoreSound, RowSound
  <2>. HIDE DEF rows
  <2>4. MonSound(n)
    BY <1>2, <2>2, <2>3 DEF MonSound, Holding, Reconciling
  <2>5. MonitorReads(Asleep) \/ MonitorReads(n)
    BY <1>8, <2>1 DEF ReconcileStart, rows
  <2>. QED
    BY <1>7, <2>4, <2>5, MonitorReadsSound
<1>9. CASE ReconcileFinality
  <2>1. PICK n : n = [m EXCEPT !.pc = "row", !.fin = final]
    OBVIOUS
  <2>2. n.pc = "row" /\ n.todo = m.todo /\ n.fin = final
    BY <1>2, <2>1 DEF MonitorRows
  <2>3. MonSound(n)
    BY <1>2, <1>9, <2>2 DEF MonSound, Holding, Reconciling, ReconcileFinality
  <2>. QED
    BY <1>9, <2>1, <2>3, MonitorReadsSound DEF ReconcileFinality
<1>10. CASE ReconcileRow
  <2>1. PICK l \in m.todo :
          MonitorReads([m EXCEPT
            !.todo = @ \ {l},
            !.log = IF at[l.tx] # 0 THEN [l EXCEPT !.hash = HashOf(l.tx)] ELSE l,
            !.pc = IF at[l.tx] = 0 THEN "drop"
                   ELSE IF HashOf(l.tx) # l.hash THEN "swap"
                   ELSE IF m.fin >= l.block THEN "confirm" ELSE "wait"])
    BY <1>10 DEF ReconcileRow
  <2>2. PICK log : log = IF at[l.tx] # 0 THEN [l EXCEPT !.hash = HashOf(l.tx)] ELSE l
    OBVIOUS
  <2>3. PICK pc : pc = IF at[l.tx] = 0 THEN "drop"
                       ELSE IF HashOf(l.tx) # l.hash THEN "swap"
                       ELSE IF m.fin >= l.block THEN "confirm" ELSE "wait"
    OBVIOUS
  <2>4. PICK n : n = [m EXCEPT !.todo = @ \ {l}, !.log = log, !.pc = pc]
    OBVIOUS
  <2>5. log.tx = l.tx /\ log.block = l.block
    BY <1>2, <2>2 DEF Logs
  <2>6. pc \in {"drop", "swap", "confirm", "wait"} /\ (pc = "confirm" => m.fin >= l.block)
    BY <2>3
  <2>7. n.pc = pc /\ n.todo = m.todo \ {l} /\ n.log = log /\ n.fin = m.fin
    BY <1>2, <2>4 DEF MonitorRows
  <2>8. m.pc = "row" /\ l.tx \in Txs /\ l \in Logs /\ l.block \in Nat
    BY <1>2, <1>10 DEF ReconcileRow, Logs
  <2>9. MonSound(n)
    BY <1>2, <2>5, <2>6, <2>7, <2>8 DEF MonSound, Seen, Holding, Reconciling
  <2>. QED
    BY <2>1, <2>2, <2>3, <2>4, <2>9, MonitorReadsSound
<1>11. ASSUME NEW status \in {"reorged", "confirmed", "confirming"}, NEW hash,
              m.pc \in Holding \ {"insert"}, UNCHANGED chainVars,
              UpdateEventConfirmation(m.log.tx, status, hash),
              status = "confirmed" => m.pc = "confirm"
       PROVE  StoreSound' /\ Forward
  <2>1. status = "confirmed" /\ m.log.tx \notin moved => at[m.log.tx] <= final
    <3>1. m.log.block \in Nat /\ at[m.log.tx] \in Nat
      BY <1>2, <1>11 DEF Logs
    <3>. QED
      BY <1>2, <1>4, <1>11, <3>1 DEF MonSound, Seen
  <2>. QED
    BY <1>2, <1>5, <1>11, <2>1, UpdateSound
<1>12. CASE ReconcileDrop
  <2>1. /\ m.pc = "drop" /\ UNCHANGED chainVars
        /\ UpdateEventConfirmation(m.log.tx, "reorged", event[m.log.tx].hash)
        /\ NextRow \/ MonitorGoto("reopen")
    BY <1>12 DEF ReconcileDrop, NextRow, MonitorGoto, MonitorStep
  <2>2. StoreSound' /\ Forward
    BY <1>11, <2>1 DEF Holding
  <2>. QED
    BY <2>1, <2>2, MonitorGotoSound, MonitorNextSound DEF Holding, Reconciling
<1>13. CASE ReconcileReopen
  <2>1. /\ m.pc = "reopen" /\ UNCHANGED chainVars /\ UNCHANGED <<event, settlement>> /\ NextRow
    BY <1>13 DEF ReconcileReopen, NextRow, MonitorStep, ReopenInvoice
  <2>. QED
    BY <1>6, <2>1, MonitorNextSound DEF Reconciling
<1>14. CASE ReconcileSwap
  <2>1. /\ m.pc = "swap" /\ UNCHANGED chainVars /\ NextRow
        /\ UpdateEventConfirmation(m.log.tx, "reorged", m.log.hash)
    BY <1>14 DEF ReconcileSwap, NextRow, MonitorStep
  <2>. QED
    BY <1>11, <2>1, MonitorNextSound DEF Holding, Reconciling
<1>15. CASE ReconcileConfirm
  <2>1. /\ m.pc = "confirm" /\ UNCHANGED chainVars
        /\ UpdateEventConfirmation(m.log.tx, "confirmed", event[m.log.tx].hash)
        /\ NextRow \/ MonitorGoto("credit")
    BY <1>15 DEF ReconcileConfirm, NextRow, MonitorGoto, MonitorStep
  <2>2. StoreSound' /\ Forward
    BY <1>11, <2>1 DEF Holding
  <2>. QED
    BY <2>1, <2>2, MonitorGotoSound, MonitorNextSound DEF Holding, Reconciling
<1>16. CASE ReconcileCredit
  <2>1. m.pc = "credit" /\ Settle(m.log.inv, m.log.tx) /\ NextRow /\ UNCHANGED chainVars
    BY <1>16 DEF ReconcileCredit, NextRow, MonitorStep
  <2>2. StoreSound' /\ Forward
    BY <1>2, <1>3, <2>1, SettleSound DEF Holding, Linked
  <2>. QED
    BY <2>1, <2>2, MonitorNextSound DEF Reconciling
<1>17. CASE ReconcileWait
  <2>1. /\ m.pc = "wait" /\ UNCHANGED chainVars /\ NextRow
        /\ UpdateEventConfirmation(m.log.tx, "confirming", event[m.log.tx].hash)
    BY <1>17 DEF ReconcileWait, NextRow, MonitorStep
  <2>. QED
    BY <1>11, <2>1, MonitorNextSound DEF Holding, Reconciling
<1>18. CASE ReconcileDone
  BY <1>7, <1>18, MonitorReadsSound DEF ReconcileDone
<1>. QED
  BY <1>8, <1>9, <1>10, <1>12, <1>13, <1>14, <1>15, <1>16, <1>17, <1>18

LEMMA FaultsSound ==
  ASSUME IInv, SoundInv, \/ Crash \/ MonitorRpcError \/ NoReceiptYet
                         \/ \E v \in Verifiers : NoTimestamp(v)
  PROVE  SoundInv' /\ Forward
<1>1. UNCHANGED chainVars /\ UNCHANGED <<event, settlement>> /\ UNCHANGED storeVars
  BY DEF Crash, MonitorRpcError, NoReceiptYet, NoTimestamp, Fault, storeVars
<1>2. StoreSound' /\ Forward
  BY <1>1, NothingWritten
<1>3. PICK m : m = mon
  OBVIOUS
<1>4. /\ m \in MonitorRows /\ MonSound(m) /\ final \in Nat /\ final' = final
      /\ m.todo \in SUBSET Logs
  BY <1>1, <1>3, LogsAreTyped DEF SoundInv, chainVars
<1>5. MonSound(Asleep)' /\ VerSound(Idle)'
  BY <1>4, IdleSound
<1>6. CASE Crash
  <2>1. MonSound(mon)'
    BY <1>5, <1>6 DEF Crash, MonSound
  <2>2. \A v \in Verifiers : VerSound(ver[v])'
    BY <1>5, <1>6 DEF Crash, VerSound
  <2>3. ChainSound'
    BY <1>1 DEF ChainSound, SoundInv, chainVars
  <2>. QED
    BY <1>2, <2>1, <2>2, <2>3 DEF SoundInv
<1>7. CASE MonitorRpcError
  <2>1. MonSound(mon)' /\ ver' = ver
    BY <1>5, <1>7 DEF MonitorRpcError, MonSound
  <2>. QED
    BY <1>1, <1>2, <2>1, MonitorSound
<1>8. CASE NoReceiptYet
  <2>1. ASSUME NEW n, mon' = n, MonSound(n) PROVE SoundInv' /\ Forward
    <3>1. MonSound(mon)'
      BY <1>1, <2>1 DEF MonSound, Seen, Recorded, storeVars, chainVars
    <3>. QED
      BY <1>1, <1>2, <1>8, <3>1, MonitorSound DEF NoReceiptYet
  <2>2. CASE mon' = [m EXCEPT !.pc = "pick", !.log = NoTx, !.auto = FALSE]
    <3>1. PICK n : n = [m EXCEPT !.pc = "pick", !.log = NoTx, !.auto = FALSE]
      OBVIOUS
    <3>2. n.pc = "pick" /\ n.todo = m.todo /\ n.fin = m.fin
      BY <1>4, <3>1 DEF MonitorRows
    <3>3. MonSound(n)
      BY <1>4, <3>2 DEF MonSound, Holding, Reconciling
    <3>. QED
      BY <2>1, <2>2, <3>1, <3>3
  <2>3. ASSUME m.pc = "row", NEW l \in m.todo,
               mon' = [m EXCEPT !.pc = "drop", !.todo = @ \ {l}, !.log = l]
        PROVE  SoundInv' /\ Forward
    <3>1. PICK n : n = [m EXCEPT !.pc = "drop", !.todo = @ \ {l}, !.log = l]
      OBVIOUS
    <3>2. n.pc = "drop" /\ n.todo = m.todo \ {l} /\ n.log = l /\ n.fin = m.fin
      BY <1>4, <3>1 DEF MonitorRows
    <3>3. MonSound(n)
      BY <1>4, <2>3, <3>2 DEF MonSound, Holding, Reconciling
    <3>. QED
      BY <2>1, <2>3, <3>1, <3>3
  <2>. QED
    BY <1>3, <1>8, <2>2, <2>3 DEF NoReceiptYet
<1>9. ASSUME NEW v \in Verifiers, NoTimestamp(v) PROVE SoundInv'
  <2>. DEFINE d == Accepted(ver[v])
  <2>1. /\ mon' = mon /\ ver' = [ver EXCEPT ![v] = d] /\ ver[v].pc = "receipt"
        /\ at[ver[v].tx] # 0
    BY <1>9 DEF NoTimestamp, Exact
  <2>2. /\ ver \in [Verifiers -> VerifierRows] /\ ver[v] \in VerifierRows
        /\ VerSound(ver[v]) /\ at' = at /\ moved' = moved
    BY <1>1 DEF IInv, TypeOK, SoundInv, chainVars
  <2>3. d.pc = "finality" /\ d.block = at[d.tx] /\ d.block # 0 /\ d.fin = ver[v].fin
    BY <2>1, <2>2 DEF Accepted, VerifierRows
  <2>. HIDE DEF d
  <2>4. ver'[v] = d /\ \A w \in Verifiers : w # v => ver'[w] = ver[w]
    BY <2>1, <2>2
  <2>5. VerSound(ver[v])'
    BY <1>4, <2>2, <2>3, <2>4 DEF VerSound
  <2>. QED
    BY <1>1, <1>2, <2>1, <2>4, <2>5, VerifierSound
<1>. QED
  BY <1>2, <1>6, <1>7, <1>8, <1>9

LEMMA SoundStep == IInv /\ SoundInv /\ [Next]_vars => SoundInv' /\ Forward
<1>. SUFFICES ASSUME IInv, SoundInv, [Next]_vars PROVE SoundInv' /\ Forward
  OBVIOUS
<1>1. CASE MonitorNext
  BY <1>1, ScanSound, ReconcileSound DEF MonitorNext
<1>. QED
  BY <1>1, EnvironmentSound, RequestsSound, VerifySound, FaultsSound DEF Next

LEMMA SoundInit == Init => SoundInv
<1>. SUFFICES ASSUME Init PROVE SoundInv
  OBVIOUS
<1>1. ChainSound /\ MonSound(mon)
  BY DEF Init, ChainSound, MonSound, Asleep, Holding, Reconciling
<1>2. StoreSound
  BY DEF Init, StoreInit, StoreSound, SettledIsFinal, Settled, RowSound, NoEvent
<1>3. \A v \in Verifiers : VerSound(ver[v])
  BY DEF Init, VerSound, Idle
<1>. QED
  BY <1>1, <1>2, <1>3 DEF SoundInv

LEMMA SoundInvariance == Spec => [](IInv /\ SoundInv)
BY InitHolds, StepHolds, SoundInit, SoundStep, PTL DEF Spec

\* Whatever blocks are replaced, a credit is for a transfer in a finalized block, unless
\* a reorg put that very transfer at another height after it was read.
THEOREM SettlementsAreFinal == Spec => []SettledIsFinal
BY SoundInvariance, PTL DEF SoundInv, StoreSound

-----------------------------------------------------------------------------
(* The scan and its cursor *)

\* The first scan ever starts before the chain has grown by scan_lookback blocks.
FirstScanInTime == nextBlock = NoRow => head <= Lookback

Held(m, t) == \/ \E l \in m.todo : l.tx = t
              \/ m.pc = "insert" /\ m.log.tx = t

\* A transfer in the chunk at work is recorded or still in the monitor's hands.
SkipInv ==
  /\ NoPaymentSkipped
  /\ nextBlock \in Nat \cup {NoRow} /\ nextBlock <= head + 1
  /\ mon.pc \in Scanning => nextBlock # NoRow /\ nextBlock <= mon.latest /\ mon.latest <= head
  /\ reorgs = 0 /\ mon.pc \in Scanning \ {"logs"} =>
       \A t \in Txs : at[t] # 0 /\ at[t] \in nextBlock..ChunkEnd => Recorded(t) \/ Held(mon, t)

\* Without a reorg a step adds transfers in the next block only.
Grows == reorgs' = 0 => \A t \in Txs : at'[t] = at[t] \/ at'[t] = head + 1

LEMMA ChainGrows ==
  ASSUME IInv, [Next]_vars
  PROVE  Grows
<1>1. CASE UNCHANGED chainVars
  BY <1>1 DEF chainVars, Grows
<1>2. reorgs \in Nat /\ at \in [Txs -> Nat]
  BY DEF IInv, TypeOK, ChainTypeOK
<1>3. ASSUME NEW S \in SUBSET Txs, Mine(S) PROVE Grows
  BY <1>2, <1>3 DEF Mine, Grows
<1>4. CASE Finalize
  BY <1>4 DEF Finalize, Grows
<1>5. ASSUME NEW k \in 1..MaxBlock, Reorg(k) PROVE Grows
  BY <1>2, <1>5 DEF Reorg, Grows
<1>6. CASE Environment
  BY <1>1, <1>3, <1>4, <1>5, <1>6 DEF Environment
<1>7. CASE Requests \/ UNCHANGED vars
  BY <1>1, <1>7 DEF Requests, RequestInvoice, ReadInvoice, vars
<1>8. CASE MonitorNext
  BY <1>1, <1>8 DEF MonitorNext, MonitorWake, ScanStart, ScanLogs, ScanPick, ScanInsert,
     ScanAttach, ScanReceipt, ScanFinality, ScanUpdate, ScanSettle, ScanAdvance, ReconcileStart,
     ReconcileFinality, ReconcileRow, ReconcileDrop, ReconcileReopen, ReconcileSwap,
     ReconcileConfirm, ReconcileCredit, ReconcileWait, ReconcileDone, MonitorReads,
     MonitorGoto, NextLog, NextRow, MonitorStep
<1>9. ASSUME NEW v \in Verifiers, VerifyNext(v) PROVE Grows
  BY <1>1, <1>9 DEF VerifyNext, VerifyBegin, VerifyReceipt, VerifyFinality, VerifyInsert,
     VerifyAttach, VerifyUpdate, VerifySettle, VerifyGoto, VerifyDone, VerifyStep
<1>10. CASE Crash \/ MonitorRpcError \/ NoReceiptYet \/ \E v \in Verifiers : NoTimestamp(v)
  BY <1>1, <1>10 DEF Crash, MonitorRpcError, NoReceiptYet, NoTimestamp, Fault
<1>. QED
  BY <1>6, <1>7, <1>8, <1>9, <1>10 DEF Next

\* A step that moves neither the cursor nor the chunk and drops no transfer of it.
LEMMA ChunkKept ==
  ASSUME IInv, IInv', SoundInv, SkipInv, Forward, Grows, nextBlock' = nextBlock,
         mon'.pc \in Scanning => /\ mon.pc \in Scanning /\ mon'.latest = mon.latest
                                 /\ mon.pc = "logs" => mon'.pc = "logs",
         mon'.pc \in Scanning \ {"logs"} =>
           \A t \in Txs : Held(mon, t) => Recorded(t)' \/ Held(mon', t)
  PROVE  SkipInv'
<1>1. /\ head \in Nat /\ head' \in Nat /\ at \in [Txs -> Nat] /\ at' \in [Txs -> Nat]
      /\ nextBlock \in Int /\ mon.latest \in Nat /\ ScanChunk \in Nat
      /\ reorgs' = 0 => reorgs = 0
      /\ head <= head'
  BY BillingAssumption DEF IInv, TypeOK, ChainTypeOK, StoreTypeOK, MonitorRows, Forward
<1>2. NoPaymentSkipped'
  <2>1. SUFFICES ASSUME reorgs' = 0, NEW t \in Txs, at'[t] # 0, at'[t] < nextBlock
                 PROVE  Recorded(t)'
    BY DEF NoPaymentSkipped
  <2>2. at'[t] = at[t]
    BY <1>1, <2>1 DEF SkipInv, Grows
  <2>3. Recorded(t)
    BY <1>1, <2>1, <2>2 DEF SkipInv, NoPaymentSkipped
  <2>. QED
    BY <2>3 DEF Forward
<1>3. nextBlock \in Nat \cup {NoRow} /\ nextBlock <= head' + 1
  <2>1. nextBlock \in Nat \cup {NoRow} /\ nextBlock <= head + 1
    BY DEF SkipInv
  <2>2. nextBlock \in Int /\ head \in Int /\ head' \in Int /\ head <= head'
    BY <1>1
  <2>3. ASSUME NEW n \in Int, NEW h \in Int, NEW k \in Int, n <= h + 1, h <= k PROVE n <= k + 1
    BY <2>3
  <2>. QED
    BY <2>1, <2>2, <2>3, Zenon
<1>4. mon'.pc \in Scanning => nextBlock # NoRow /\ nextBlock <= mon'.latest /\ mon'.latest <= head'
  BY <1>1 DEF SkipInv
<1>5. ASSUME reorgs' = 0, mon'.pc \in Scanning \ {"logs"}, NEW t \in Txs, at'[t] # 0,
             at'[t] \in nextBlock'..ChunkEnd'
      PROVE  Recorded(t)' \/ Held(mon', t)
  <2>1. /\ mon.pc \in Scanning \ {"logs"} /\ mon'.latest = mon.latest
        /\ mon.latest <= head /\ ChunkEnd' = ChunkEnd /\ ChunkEnd <= mon.latest
        /\ ChunkEnd \in Int
    BY <1>1, <1>5 DEF SkipInv, ChunkEnd
  <2>2. at'[t] = at[t]
    BY <1>1, <1>5, <2>1 DEF Grows
  <2>3. Recorded(t) \/ Held(mon, t)
    BY <1>1, <1>5, <2>1, <2>2 DEF SkipInv
  <2>. QED
    BY <1>5, <2>3 DEF Forward
<1>. QED
  BY <1>2, <1>3, <1>4, <1>5 DEF SkipInv, Held

\* The monitor is not in the loop over the chunk, or has not begun it, after the step.
LEMMA NotScanning ==
  ASSUME IInv, IInv', SoundInv, SkipInv, Forward, Grows, nextBlock' = nextBlock,
         mon'.pc \notin Scanning
  PROVE  SkipInv'
BY ChunkKept

LEMMA ScanSkipsNone ==
  ASSUME IInv, IInv', SoundInv, SkipInv, FirstScanInTime, Forward, Grows,
         \/ MonitorWake \/ ScanStart \/ ScanLogs \/ ScanPick \/ ScanInsert \/ ScanAttach
         \/ ScanReceipt \/ ScanFinality \/ ScanUpdate \/ ScanSettle \/ ScanAdvance
  PROVE  SkipInv'
<1>1. PICK m : m = mon
  OBVIOUS
<1>. USE <1>1
<1>2. /\ m \in MonitorRows /\ m.latest \in Nat /\ m.todo \in SUBSET Logs
      /\ head \in Nat /\ at \in [Txs -> Nat] /\ nextBlock \in Int /\ reorgs \in Nat
      /\ ScanChunk \in Nat \ {0} /\ Lookback \in Nat
      /\ \A l \in m.todo : l.tx \in Txs
      /\ m.pc \in Holding => m.log \in Logs /\ m.log.tx \in Txs
  BY LogsAreTyped, BillingAssumption DEF IInv, TypeOK, ChainTypeOK, StoreTypeOK, MonitorRows,
     ThreadInv, MonInv, Holding
<1>3. UNCHANGED chainVars
  BY DEF MonitorWake, ScanStart, ScanLogs, ScanPick, ScanInsert,
     ScanAttach, ScanReceipt, ScanFinality, ScanUpdate, ScanSettle, ScanAdvance, MonitorReads,
     MonitorGoto, NextLog, MonitorStep
<1>4. /\ NoPaymentSkipped /\ nextBlock <= head + 1 /\ nextBlock \in Nat \cup {NoRow}
      /\ m.pc \in Scanning => nextBlock # NoRow /\ nextBlock <= m.latest /\ m.latest <= head
      /\ reorgs = 0 /\ m.pc \in Scanning \ {"logs"} =>
           \A t \in Txs : at[t] # 0 /\ at[t] \in nextBlock..ChunkEnd => Recorded(t) \/ Held(m, t)
  BY DEF SkipInv
<1>5. \A t \in Txs : Recorded(t) => Recorded(t)'
  BY DEF Forward
\* A step inside the chunk.
<1>6. ASSUME nextBlock' = nextBlock, m.pc \in Scanning \ {"logs"},
             mon'.todo = m.todo, mon'.latest = m.latest,
             m.pc = "insert" => Recorded(m.log.tx)'
      PROVE  SkipInv'
  <2>1. \A t \in Txs : Held(mon, t) => Recorded(t)' \/ Held(mon', t)
    BY <1>6 DEF Held
  <2>. QED
    BY <1>6, <2>1, ChunkKept
<1>7. ASSUME nextBlock' = nextBlock, NEW pc, m.pc \in Scanning \ {"logs"},
             NextLog \/ MonitorGoto(pc), m.pc = "insert" => Recorded(m.log.tx)'
      PROVE  SkipInv'
  <2>1. mon'.todo = m.todo /\ mon'.latest = m.latest
    BY <1>2, <1>7 DEF NextLog, MonitorGoto, MonitorStep, MonitorRows
  <2>. QED
    BY <1>6, <1>7, <2>1
<1>8. CASE MonitorWake
  <2>1. mon'.pc = "scan" /\ nextBlock' = nextBlock
    BY <1>2, <1>8 DEF MonitorWake, MarkExpired, MonitorGoto, MonitorStep, MonitorRows
  <2>. QED
    BY <2>1, NotScanning DEF Scanning
<1>9. CASE ScanStart
  <2>1. CASE MonitorReads([mon EXCEPT !.pc = "reconcile"])
    <3>1. mon'.pc = "reconcile" /\ nextBlock' = nextBlock
      BY <1>2, <2>1 DEF MonitorReads, MonitorStep, MonitorRows, storeVars
    <3>. QED
      BY <3>1, NotScanning DEF Scanning
  <2>2. CASE /\ head > 0
             /\ MoveCursor(IF nextBlock = NoRow \/ nextBlock > head
                           THEN IF head > Lookback THEN head - Lookback ELSE 0
                           ELSE nextBlock)
             /\ MonitorStep([mon EXCEPT !.pc = "logs", !.latest = head])
    <3>1. mon'.pc = "logs" /\ mon'.latest = head /\ head' = head /\ at' = at /\ reorgs' = reorgs
      BY <1>2, <1>3, <2>2 DEF MonitorStep, MonitorRows, chainVars
    <3>2. /\ nextBlock' \in Nat
          /\ nextBlock' # NoRow /\ nextBlock' <= head
          /\ nextBlock' <= nextBlock \/ nextBlock' <= 0
      <4>1. nextBlock' = IF nextBlock = NoRow \/ nextBlock > head
                         THEN IF head > Lookback THEN head - Lookback ELSE 0
                         ELSE nextBlock
        BY <2>2 DEF MoveCursor
      <4>. QED
        BY <1>2, <1>4, <2>2, <4>1 DEF NoRow, FirstScanInTime
    <3>3. NoPaymentSkipped'
      <4>1. SUFFICES ASSUME reorgs = 0, NEW t \in Txs, at[t] # 0, at[t] < nextBlock'
                     PROVE  Recorded(t)'
        BY <3>1 DEF NoPaymentSkipped
      <4>2. nextBlock' \in Int /\ at[t] \in Nat
        BY <1>2, <3>2
      <4>3. at[t] < nextBlock
        BY <1>2, <3>2, <4>1, <4>2
      <4>. QED
        BY <1>4, <1>5, <4>1, <4>3 DEF NoPaymentSkipped
    <3>4. nextBlock' <= head + 1
      BY <1>2, <3>2
    <3>. QED
      BY <1>2, <3>1, <3>2, <3>3, <3>4 DEF SkipInv
  <2>. QED
    BY <1>9, <2>1, <2>2 DEF ScanStart
<1>10. CASE ScanLogs
  <2>. DEFINE logs == {LogOf(t, 0) : t \in {s \in Txs : at[s] # 0 /\ at[s] \in nextBlock..ChunkEnd}}
  <2>1. /\ mon'.pc = "pick" /\ mon'.todo = logs /\ mon'.latest = m.latest /\ m.pc = "logs"
        /\ nextBlock' = nextBlock /\ head' = head /\ at' = at /\ reorgs' = reorgs /\ event' = event
    BY <1>2, <1>3, <1>10 DEF ScanLogs, MonitorReads, MonitorStep, MonitorRows, chainVars, storeVars
  <2>2. \A t \in Txs : at[t] # 0 /\ at[t] \in nextBlock..ChunkEnd => \E l \in logs : l.tx = t
    <3>1. TAKE t \in Txs
    <3>2. HAVE at[t] # 0 /\ at[t] \in nextBlock..ChunkEnd
    <3>3. LogOf(t, 0) \in logs
      BY <3>2
    <3>4. LogOf(t, 0).tx = t
      BY DEF LogOf
    <3>. QED
      BY <3>3, <3>4
  <2>. HIDE DEF logs
  <2>3. ChunkEnd' = ChunkEnd
    BY <2>1 DEF ChunkEnd
  <2>4. \A t \in Txs : at'[t] # 0 /\ at'[t] \in nextBlock'..ChunkEnd' => Held(mon', t)
    BY <2>1, <2>2, <2>3 DEF Held
  <2>5. NoPaymentSkipped'
    BY <1>4, <2>1 DEF NoPaymentSkipped, Recorded
  <2>6. nextBlock' # NoRow /\ nextBlock' <= mon'.latest /\ mon'.latest <= head' /\ nextBlock' <= head' + 1
        /\ nextBlock' \in Nat \cup {NoRow}
    BY <1>4, <2>1 DEF Scanning
  <2>. QED
    BY <2>4, <2>5, <2>6 DEF SkipInv, Held
<1>11. CASE ScanPick
  <2>0. PICK l \in m.todo :
          \E i, auto :
            MonitorReads([m EXCEPT !.pc = "insert", !.todo = @ \ {l}, !.log = [l EXCEPT !.inv = i],
                                   !.auto = auto])
    BY <1>11 DEF ScanPick
  <2>1. PICK i, auto :
          MonitorReads([m EXCEPT !.pc = "insert", !.todo = @ \ {l}, !.log = [l EXCEPT !.inv = i],
                                 !.auto = auto])
    BY <2>0
  <2>2. PICK log : log = [l EXCEPT !.inv = i]
    OBVIOUS
  <2>3. log.tx = l.tx
    BY <1>2, <2>2 DEF Logs
  <2>4. /\ mon'.pc = "insert" /\ mon'.todo = m.todo \ {l} /\ mon'.log = log
        /\ mon'.latest = m.latest /\ m.pc = "pick" /\ nextBlock' = nextBlock
    BY <1>2, <1>11, <2>1, <2>2 DEF ScanPick, MonitorReads, MonitorStep, MonitorRows, storeVars
  <2>5. \A t \in Txs : Held(mon, t) => Held(mon', t)
    BY <2>3, <2>4 DEF Held
  <2>. QED
    BY <2>4, <2>5, ChunkKept DEF Scanning
<1>12. CASE ScanInsert
  <2>1. /\ m.pc = "insert" /\ UNCHANGED chainVars /\ nextBlock' = nextBlock
        /\ InsertPaymentEvent(m.log.tx, m.log.inv, "detected", m.log.block, m.log.hash)
        /\ NextLog \/ MonitorGoto("attach") \/ MonitorGoto("receipt")
    BY <1>12 DEF ScanInsert, NextLog, MonitorGoto, MonitorStep, InsertPaymentEvent
  <2>2. m.log.tx \notin moved => m.log.block = at[m.log.tx] /\ m.log.block # 0
    BY <2>1 DEF SoundInv, MonSound, Seen, Holding
  <2>3. Recorded(m.log.tx)'
    BY <1>2, <2>1, <2>2, InsertSound DEF Holding
  <2>. QED
    BY <1>7, <2>1, <2>3 DEF Scanning
<1>13. CASE ScanAttach
  BY <1>7, <1>13 DEF ScanAttach, AttachInvoice, Scanning
<1>14. CASE ScanReceipt
  BY <1>7, <1>14 DEF ScanReceipt, storeVars, Scanning
<1>15. CASE ScanFinality
  <2>1. /\ mon'.todo = m.todo /\ mon'.latest = m.latest /\ m.pc = "finality"
        /\ nextBlock' = nextBlock
    BY <1>2, <1>15 DEF ScanFinality, MonitorReads, MonitorStep, MonitorRows, storeVars
  <2>. QED
    BY <1>6, <2>1 DEF Scanning
<1>16. CASE ScanUpdate
  <2>1. m.pc = "update" /\ nextBlock' = nextBlock /\ (NextLog \/ MonitorGoto("settle"))
    BY <1>16 DEF ScanUpdate, UpdateEventConfirmation
  <2>. QED
    BY <1>7, <2>1 DEF Scanning
<1>17. CASE ScanSettle
  <2>1. m.pc = "settle" /\ nextBlock' = nextBlock /\ NextLog
    BY <1>17 DEF ScanSettle, Settle, storeVars
  <2>. QED
    BY <1>7, <2>1 DEF Scanning
<1>18. CASE ScanAdvance
  <2>1. /\ m.pc = "pick" /\ m.todo = {} /\ nextBlock' = ChunkEnd + 1 /\ event' = event
        /\ head' = head /\ at' = at /\ reorgs' = reorgs
    BY <1>3, <1>18 DEF ScanAdvance, MoveCursor, chainVars
  <2>2. /\ ChunkEnd \in Int /\ ChunkEnd <= m.latest /\ nextBlock <= ChunkEnd
        /\ nextBlock <= m.latest /\ m.latest <= head /\ nextBlock # NoRow
    BY <1>2, <1>4, <2>1 DEF ChunkEnd, Scanning
  <2>3. NoPaymentSkipped'
    <3>1. SUFFICES ASSUME reorgs = 0, NEW t \in Txs, at[t] # 0, at[t] < ChunkEnd + 1
                   PROVE  Recorded(t)
      BY <2>1 DEF NoPaymentSkipped, Recorded
    <3>2. CASE at[t] < nextBlock
      BY <1>4, <3>1, <3>2 DEF NoPaymentSkipped
    <3>3. CASE ~(at[t] < nextBlock)
      <4>1. at[t] \in nextBlock..ChunkEnd
        BY <1>2, <2>2, <3>1, <3>3
      <4>2. ~Held(m, t)
        BY <2>1 DEF Held
      <4>. QED
        BY <1>4, <2>1, <3>1, <4>1, <4>2 DEF Scanning
    <3>. QED
      BY <3>2, <3>3
  <2>4. nextBlock' <= head' + 1 /\ nextBlock' \in Nat
    BY <1>2, <1>4, <2>1, <2>2
  <2>5. CASE ChunkEnd < m.latest /\ mon' = [mon EXCEPT !.pc = "logs"]
    <3>1. mon'.pc = "logs" /\ mon'.latest = m.latest
      BY <1>2, <2>5 DEF MonitorRows
    <3>2. nextBlock' # NoRow
      BY <2>4 DEF NoRow
    <3>3. nextBlock' <= mon'.latest /\ mon'.latest <= head'
      BY <1>2, <2>1, <2>2, <2>5, <3>1
    <3>. QED
      BY <2>3, <2>4, <3>1, <3>2, <3>3 DEF SkipInv
  <2>6. CASE mon' = [Asleep EXCEPT !.pc = "reconcile"]
    <3>1. mon'.pc = "reconcile"
      BY <2>6 DEF Asleep
    <3>. QED
      BY <2>3, <2>4, <3>1 DEF SkipInv, Scanning
  <2>. QED
    BY <1>18, <2>5, <2>6 DEF ScanAdvance, MonitorStep
<1>. QED
  BY <1>8, <1>9, <1>10, <1>11, <1>12, <1>13, <1>14, <1>15, <1>16, <1>17, <1>18

LEMMA OthersSkipNone ==
  ASSUME IInv, IInv', SoundInv, SkipInv, Forward, Grows,
         \/ Environment \/ Requests \/ UNCHANGED vars
         \/ \E v \in Verifiers : VerifyNext(v)
         \/ \/ ReconcileStart \/ ReconcileFinality \/ ReconcileRow \/ ReconcileDrop
            \/ ReconcileReopen \/ ReconcileSwap \/ ReconcileConfirm \/ ReconcileCredit
            \/ ReconcileWait \/ ReconcileDone
         \/ Crash \/ MonitorRpcError \/ NoReceiptYet
         \/ \E v \in Verifiers : NoTimestamp(v)
  PROVE  SkipInv'
<1>1. mon \in MonitorRows
  BY DEF IInv, TypeOK
<1>2. CASE mon' = mon /\ nextBlock' = nextBlock
  BY <1>2, ChunkKept DEF Held
<1>3. CASE Environment
  BY <1>2, <1>3 DEF Environment, Mine, Finalize, Reorg, Lapse, TogglePlan, storeVars, threadVars
<1>4. CASE Requests \/ UNCHANGED vars
  BY <1>2, <1>4 DEF Requests, RequestInvoice, CreateInvoice, ReadInvoice, MarkExpired, vars,
     storeVars, threadVars
<1>5. ASSUME NEW v \in Verifiers, VerifyNext(v) PROVE SkipInv'
  BY <1>2, <1>5 DEF VerifyNext, VerifyBegin, VerifyReceipt, VerifyFinality, VerifyInsert,
     VerifyAttach, VerifyUpdate, VerifySettle, VerifyGoto, VerifyDone, VerifyStep,
     InsertPaymentEvent, AttachInvoice, UpdateEventConfirmation, Settle, storeVars
<1>6. ASSUME \/ ReconcileStart \/ ReconcileFinality \/ ReconcileRow \/ ReconcileDrop
             \/ ReconcileReopen \/ ReconcileSwap \/ ReconcileConfirm \/ ReconcileCredit
             \/ ReconcileWait \/ ReconcileDone
      PROVE  SkipInv'
  <2>1. nextBlock' = nextBlock
    BY <1>6 DEF ReconcileStart, ReconcileFinality, ReconcileRow, ReconcileDrop, ReconcileReopen,
       ReconcileSwap, ReconcileConfirm, ReconcileCredit, ReconcileWait, ReconcileDone,
       MonitorReads, ReopenInvoice, UpdateEventConfirmation, Settle, storeVars
  <2>2. mon'.pc \notin Scanning
    <3>1. CASE ReconcileStart
      BY <1>1, <3>1 DEF ReconcileStart, MonitorReads, MonitorStep, Asleep, MonitorRows, Scanning
    <3>2. CASE ReconcileRow
      <4>1. PICK l \in mon.todo :
              mon' = [mon EXCEPT
                !.todo = @ \ {l},
                !.log = IF at[l.tx] # 0 THEN [l EXCEPT !.hash = HashOf(l.tx)] ELSE l,
                !.pc = IF at[l.tx] = 0 THEN "drop"
                       ELSE IF HashOf(l.tx) # l.hash THEN "swap"
                       ELSE IF mon.fin >= l.block THEN "confirm" ELSE "wait"]
        BY <3>2 DEF ReconcileRow, MonitorReads, MonitorStep
      <4>2. mon'.pc \in {"drop", "swap", "confirm", "wait"}
        BY <1>1, <4>1 DEF MonitorRows
      <4>. QED
        BY <4>2 DEF Scanning
    <3>3. CASE ReconcileFinality
      <4>1. mon' = [mon EXCEPT !.pc = "row", !.fin = final]
        BY <3>3 DEF ReconcileFinality, MonitorReads, MonitorStep
      <4>. QED
        BY <1>1, <4>1 DEF MonitorRows, Scanning
    <3>5. CASE ReconcileDone
      BY <3>5 DEF ReconcileDone, MonitorReads, MonitorStep, Asleep, Scanning
    <3>4. CASE \/ ReconcileDrop \/ ReconcileReopen \/ ReconcileSwap \/ ReconcileConfirm
               \/ ReconcileCredit \/ ReconcileWait
      <4>1. NextRow \/ MonitorGoto("reopen") \/ MonitorGoto("credit")
        BY <3>4 DEF ReconcileDrop, ReconcileReopen, ReconcileSwap, ReconcileConfirm,
           ReconcileCredit, ReconcileWait
      <4>. QED
        BY <1>1, <4>1 DEF NextRow, MonitorGoto, MonitorStep, MonitorRows, Scanning
    <3>. QED
      BY <1>6, <3>1, <3>2, <3>3, <3>4, <3>5
  <2>. QED
    BY <2>1, <2>2, NotScanning
<1>7. CASE Crash \/ MonitorRpcError \/ NoReceiptYet
  <2>1. nextBlock' = nextBlock
    BY <1>7 DEF Crash, MonitorRpcError, NoReceiptYet, Fault, storeVars
  <2>2. CASE mon' = Asleep
    BY <2>1, <2>2, NotScanning DEF Asleep, Scanning
  <2>3. CASE mon.pc = "receipt" /\ mon' = [mon EXCEPT !.pc = "pick", !.log = NoTx, !.auto = FALSE]
    <3>1. mon'.pc = "pick" /\ mon'.todo = mon.todo /\ mon'.latest = mon.latest
      BY <1>1, <2>3 DEF MonitorRows
    <3>. QED
      BY <2>1, <2>3, <3>1, ChunkKept DEF Held, Scanning
  <2>4. ASSUME NEW l \in mon.todo, mon' = [mon EXCEPT !.pc = "drop", !.todo = @ \ {l}, !.log = l]
        PROVE  SkipInv'
    <3>1. mon'.pc = "drop"
      BY <1>1, <2>4 DEF MonitorRows
    <3>. QED
      BY <2>1, <3>1, NotScanning DEF Scanning
  <2>. QED
    BY <1>7, <2>2, <2>3, <2>4 DEF Crash, MonitorRpcError, NoReceiptYet
<1>8. ASSUME NEW v \in Verifiers, NoTimestamp(v) PROVE SkipInv'
  BY <1>2, <1>8 DEF NoTimestamp, Fault, storeVars
<1>. QED
  BY <1>3, <1>4, <1>5, <1>6, <1>7, <1>8

LEMMA SkipStep ==
  IInv /\ SoundInv /\ SkipInv /\ FirstScanInTime /\ [Next]_vars => SkipInv'
<1>. SUFFICES ASSUME IInv, SoundInv, SkipInv, FirstScanInTime, [Next]_vars PROVE SkipInv'
  OBVIOUS
<1>1. IInv' /\ Forward /\ Grows
  BY StepHolds, SoundStep, ChainGrows
<1>. QED
  BY <1>1, ScanSkipsNone, OthersSkipNone DEF Next, MonitorNext

LEMMA SkipInit == Init => SkipInv
<1>. SUFFICES ASSUME Init PROVE SkipInv
  OBVIOUS
<1>1. \A t \in Txs : at[t] = 0
  BY DEF Init
<1>2. mon.pc = "sleep" /\ nextBlock = NoRow /\ nextBlock <= head + 1
  BY DEF Init, StoreInit, Asleep, NoRow
<1>. QED
  BY <1>1, <1>2 DEF SkipInv, NoPaymentSkipped, Scanning

\* As long as no block is replaced, the cursor never passes a transfer that is not
\* recorded, wherever a scan was cut off by a crash or an RPC error, if the service
\* scans for the first time before the chain has grown by scan_lookback blocks.
THEOREM NoneIsSkipped == Spec /\ []FirstScanInTime => []NoPaymentSkipped
<1>1. Spec /\ []FirstScanInTime => []SkipInv
  BY SoundInvariance, SkipInit, SkipStep, PTL DEF Spec
<1>2. SkipInv => NoPaymentSkipped
  BY DEF SkipInv
<1>. QED
  BY <1>1, <1>2, PTL

-----------------------------------------------------------------------------
(* The wallet of an invoice *)

PaidBy(t, i) == invoice[i].payer = SenderOf[t]
PayersKnown == \A i \in Invoices : Created(i) => invoice[i].payer # NoPayer
LinksPaid == \A t \in Txs : event[t].inv # 0 => PaidBy(t, event[t].inv)
LogPaid(l) == l.inv # 0 => PaidBy(l.tx, l.inv)
MonPaid(m) == /\ \A l \in m.todo : LogPaid(l)
              /\ m.pc \in Holding => LogPaid(m.log)
VerPaid(c) == /\ c.pc = "receipt" => c.payer = invoice[c.inv].payer
              /\ c.pc \notin {"idle", "receipt"} => PaidBy(c.tx, c.inv)

\* Whoever linked a transfer to an invoice, or is about to, saw that it is from its wallet.
PayerInv ==
  /\ PayersKnown /\ LinksPaid /\ MonPaid(mon)
  /\ \A v \in Verifiers : VerPaid(ver[v])

\* The wallet of an invoice is there from the start and never changes.
PayersKept ==
  \A i \in Invoices : /\ Created(i) => invoice'[i].payer = invoice[i].payer
                      /\ Created(i)' => invoice'[i].payer # NoPayer

\* Every link after the step is to an invoice of before it, with the right wallet.
LinksMade ==
  \A t \in Txs : event'[t].inv # 0 =>
    /\ event'[t].inv \in Invoices /\ Created(event'[t].inv)
    /\ PaidBy(t, event'[t].inv)

LEMMA SweptPayers ==
  ASSUME StoreTypeOK
  PROVE  \A i \in Invoices : /\ Swept[i].payer = invoice[i].payer
                             /\ Swept[i].status # "none" <=> Created(i)
BY DEF Swept, StoreTypeOK, InvoiceRows, Created

LEMMA SweepKeepsPayers ==
  ASSUME StoreTypeOK, PayersKnown, invoice' = Swept
  PROVE  PayersKept
BY SweptPayers DEF PayersKept, PayersKnown, Created

LEMMA RowKeepsPayers ==
  ASSUME StoreTypeOK, PayersKnown, NEW i \in Invoices, Created(i), NEW status,
         invoice' = [invoice EXCEPT ![i].status = status]
  PROVE  PayersKept
<1>. DEFINE row == [invoice[i] EXCEPT !.status = status]
<1>1. row.payer = invoice[i].payer /\ invoice' = [invoice EXCEPT ![i] = row]
  BY DEF StoreTypeOK, InvoiceRows
<1>. HIDE DEF row
<1>2. \A j \in Invoices : invoice'[j].payer = invoice[j].payer /\ (j # i => invoice'[j] = invoice[j])
  BY <1>1 DEF StoreTypeOK
<1>. QED
  BY <1>2 DEF PayersKept, PayersKnown, Created

LEMMA SameKeepsPayers ==
  ASSUME PayersKnown, invoice' = invoice
  PROVE  PayersKept
BY DEF PayersKept, PayersKnown, Created

LEMMA RequestKeepsPayers ==
  ASSUME StoreTypeOK, StoreInv, PayersKnown, NEW u, NEW p, NEW payer, payer # NoPayer,
         CreateInvoice(u, p, payer)
  PROVE  PayersKept
<1>1. CASE ReuseInvoice(u, p, payer)
  <2>1. \A i \in OpenFor(u, p) : i \in Invoices /\ Swept[i].payer # NoPayer
    BY SweptPayers DEF OpenFor, OPEN_INVOICE_STATUSES, PayersKnown
  <2>2. \A i, j \in OpenFor(u, p) : i = j
    <3>1. \A i \in OpenFor(u, p) : /\ i \in Invoices /\ Open(i)
                                   /\ invoice[i].user = u /\ invoice[i].plan = p
      BY DEF OpenFor, Swept, Open, StoreTypeOK, InvoiceRows, OPEN_INVOICE_STATUSES
    <3>. QED
      BY <3>1 DEF StoreInv, OneOpenInvoice
  <2>3. PICK k \in OpenFor(u, p) : OpenFor(u, p) = {k}
    BY <1>1, <2>2 DEF ReuseInvoice
  <2>4. Latest(OpenFor(u, p)) = k
    BY <2>1, <2>3 DEF Latest, Invoices
  <2>5. invoice' = Swept
    BY <1>1, <2>1, <2>4 DEF ReuseInvoice
  <2>. QED
    BY <2>5, SweepKeepsPayers
<1>2. CASE FreshInvoice(u, p, payer)
  <2>. DEFINE row == [status |-> "awaiting_payment", user |-> u, plan |-> p, payer |-> payer]
  <2>1. PICK i \in Invoices : ~Created(i) /\ invoice' = [Swept EXCEPT ![i] = row]
    BY <1>2 DEF FreshInvoice
  <2>2. invoice'[i] = row /\ \A j \in Invoices : j # i => invoice'[j] = Swept[j]
    BY <2>1 DEF Swept
  <2>3. row.payer # NoPayer
    OBVIOUS
  <2>. HIDE DEF row
  <2>. QED
    BY <2>1, <2>2, <2>3, SweptPayers DEF PayersKept, PayersKnown, Created
<1>. QED
  BY <1>1, <1>2 DEF CreateInvoice

LEMMA AttachPays ==
  ASSUME StoreTypeOK, StoreInv, PayersKnown, LinksPaid, NEW t, NEW i, Paired(t, i), PaidBy(t, i),
         AttachInvoice(t, i)
  PROVE  PayersKept /\ LinksMade
<1>1. PayersKept
  <2>1. CASE invoice' = invoice
    BY <2>1, SameKeepsPayers
  <2>2. CASE invoice' = [invoice EXCEPT ![i].status = "confirming"]
    BY <2>2, RowKeepsPayers DEF Paired
  <2>. QED
    BY <2>1, <2>2 DEF AttachInvoice
<1>. DEFINE status == IF i \in lapsed THEN "rejected" ELSE "payment_detected"
            row == [event[t] EXCEPT !.inv = i, !.status = status]
<1>2. t \in Txs /\ i \in Invoices /\ Created(i) /\ event \in [Txs -> EventRows]
  BY DEF Paired, StoreTypeOK
<1>3. event' = [event EXCEPT ![t] = row]
  BY DEF AttachInvoice
<1>4. row.inv = i
  BY <1>2 DEF EventRows
<1>. HIDE DEF row
<1>5. \A s \in Txs : event'[s].inv = IF s = t THEN i ELSE event[s].inv
  BY <1>2, <1>3, <1>4
<1>6. \A s \in Txs : event[s].inv \in 0..MaxInvoices
  BY <1>2 DEF EventRows
<1>7. \A s \in Txs : event[s].inv # 0 => event[s].inv \in Invoices
  BY <1>6, StoreAssumption DEF Invoices
<1>. QED
  BY <1>1, <1>2, <1>5, <1>7 DEF LinksMade, LinksPaid, StoreInv

\* A step that links nothing.
LEMMA NoLinkMade ==
  ASSUME StoreTypeOK, StoreInv, LinksPaid,
         \A t \in Txs : event'[t].inv = event[t].inv
  PROVE  LinksMade
<1>1. \A s \in Txs : event[s].inv \in 0..MaxInvoices
  BY DEF StoreTypeOK, EventRows
<1>2. \A s \in Txs : event[s].inv # 0 => event[s].inv \in Invoices
  BY <1>1, StoreAssumption DEF Invoices
<1>. QED
  BY <1>2 DEF LinksMade, LinksPaid, StoreInv

LEMMA InsertPays ==
  ASSUME StoreTypeOK, StoreInv, PayersKnown, LinksPaid, NEW t \in Txs, NEW i, NEW status,
         NEW block, NEW hash, InsertPaymentEvent(t, i, status, block, hash),
         i # 0 => Paired(t, i) /\ PaidBy(t, i)
  PROVE  PayersKept /\ LinksMade
<1>1. PayersKept
  BY SameKeepsPayers DEF InsertPaymentEvent
<1>2. CASE event' = event
  BY <1>1, <1>2, NoLinkMade
<1>3. CASE event' # event
  <2>. DEFINE row == [status |-> status, inv |-> i, block |-> block, hash |-> hash,
                      late |-> AmountOf[t] \in lapsed]
  <2>1. event' = [event EXCEPT ![t] = row]
    BY <1>3 DEF InsertPaymentEvent
  <2>2. \A s \in Txs : event'[s].inv = IF s = t THEN i ELSE event[s].inv
    BY <2>1 DEF StoreTypeOK
  <2>3. \A s \in Txs : event[s].inv \in 0..MaxInvoices
    BY DEF StoreTypeOK, EventRows
  <2>4. \A s \in Txs : event[s].inv # 0 => event[s].inv \in Invoices
    BY <2>3, StoreAssumption DEF Invoices
  <2>. QED
    BY <1>1, <2>2, <2>4 DEF LinksMade, LinksPaid, StoreInv, Paired
<1>. QED
  BY <1>2, <1>3

LEMMA UpdatePays ==
  ASSUME StoreTypeOK, StoreInv, PayersKnown, LinksPaid, NEW t \in Txs, NEW status, NEW hash,
         UpdateEventConfirmation(t, status, hash)
  PROVE  PayersKept /\ LinksMade
<1>1. PayersKept
  BY SameKeepsPayers DEF UpdateEventConfirmation
<1>. DEFINE row == [event[t] EXCEPT !.status = status, !.hash = hash]
<1>2. event' = [event EXCEPT ![t] = row] /\ row.inv = event[t].inv
  BY DEF UpdateEventConfirmation, StoreTypeOK, EventRows
<1>. HIDE DEF row
<1>3. \A s \in Txs : event'[s].inv = event[s].inv
  BY <1>2 DEF StoreTypeOK
<1>. QED
  BY <1>1, <1>3, NoLinkMade

LEMMA SettlePays ==
  ASSUME StoreTypeOK, StoreInv, PayersKnown, LinksPaid, NEW t, NEW i, Paired(t, i), Settle(i, t)
  PROVE  PayersKept /\ LinksMade
<1>1. CASE UNCHANGED <<invoice, event>>
  BY <1>1, SameKeepsPayers, NoLinkMade
<1>2. CASE /\ invoice' = [invoice EXCEPT ![i].status = "paid"]
           /\ event' = [event EXCEPT ![t].status = "settled"]
  <2>1. PayersKept
    BY <1>2, RowKeepsPayers DEF Paired
  <2>. DEFINE row == [event[t] EXCEPT !.status = "settled"]
  <2>2. event' = [event EXCEPT ![t] = row] /\ row.inv = event[t].inv
    BY <1>2 DEF StoreTypeOK, EventRows, Paired
  <2>. HIDE DEF row
  <2>3. \A s \in Txs : event'[s].inv = event[s].inv
    BY <2>2 DEF StoreTypeOK
  <2>. QED
    BY <2>1, <2>3, NoLinkMade
<1>. QED
  BY <1>1, <1>2 DEF Settle

\* A step that writes no event, and invoices only by the sweep or not at all.
LEMMA QuietPays ==
  ASSUME StoreTypeOK, StoreInv, PayersKnown, LinksPaid, event' = event,
         invoice' = invoice \/ invoice' = Swept
  PROVE  PayersKept /\ LinksMade
BY SameKeepsPayers, SweepKeepsPayers, NoLinkMade

\* What a thread may hold: a pair whose wallet fits.
GoodLog(l) == l.inv # 0 => Paired(l.tx, l.inv) /\ PaidBy(l.tx, l.inv)
GoodMon(m) == (\A l \in m.todo : GoodLog(l)) /\ (m.pc \in Holding => GoodLog(m.log))
GoodCall(c) ==
  /\ c.pc # "idle" => c.tx \in Txs /\ c.inv \in Invoices /\ Created(c.inv)
  /\ c.pc = "receipt" => c.payer = invoice[c.inv].payer
  /\ c.pc \notin {"idle", "receipt"} => Paired(c.tx, c.inv) /\ PaidBy(c.tx, c.inv)

LEMMA ThreadsAreGood ==
  ASSUME IInv, PayerInv
  PROVE  GoodMon(mon) /\ \A v \in Verifiers : GoodCall(ver[v])
<1>1. GoodMon(mon)
  BY DEF IInv, ThreadInv, MonInv, LogInv, PayerInv, MonPaid, LogPaid, GoodMon, GoodLog, Holding
<1>2. \A v \in Verifiers : GoodCall(ver[v])
  BY DEF IInv, ThreadInv, VerInv, PayerInv, VerPaid, GoodCall
<1>. QED
  BY <1>1, <1>2

LEMMA ThreadsStayPaid ==
  ASSUME PayersKept, LinksMade, NEW m, mon' = m, GoodMon(m),
         \A v \in Verifiers : GoodCall(ver'[v])
  PROVE  PayerInv'
<1>1. PayersKnown' /\ LinksPaid'
  BY DEF PayersKept, PayersKnown, Created, LinksMade, LinksPaid, PaidBy
<1>2. ASSUME NEW l, GoodLog(l) PROVE LogPaid(l)'
  BY <1>2 DEF GoodLog, LogPaid, Paired, PaidBy, PayersKept
<1>3. MonPaid(m)'
  BY <1>2 DEF GoodMon, MonPaid
<1>4. MonPaid(mon)'
  BY <1>3 DEF MonPaid
<1>5. \A v \in Verifiers : VerPaid(ver[v])'
  BY DEF GoodCall, VerPaid, Paired, PaidBy, PayersKept
<1>. QED
  BY <1>1, <1>4, <1>5 DEF PayerInv

LEMMA MonitorIsGood ==
  ASSUME IInv, PayerInv, NEW pc,
         \/ NextLog \/ NextRow \/ MonitorStep(Asleep)
         \/ MonitorGoto(pc) /\ (pc \in Holding => mon.pc \in Holding)
  PROVE  GoodMon(mon') /\ ver' = ver
<1>1. mon \in MonitorRows /\ GoodMon(mon)
  BY ThreadsAreGood DEF IInv, TypeOK
<1>2. CASE NextLog \/ NextRow
  <2>1. mon'.todo = mon.todo /\ mon'.pc \in {"pick", "row"}
    BY <1>1, <1>2 DEF NextLog, NextRow, MonitorStep, MonitorRows
  <2>. QED
    BY <1>1, <1>2, <2>1 DEF GoodMon, Holding, NextLog, NextRow, MonitorStep
<1>3. CASE MonitorStep(Asleep)
  <2>1. mon'.todo = {} /\ mon'.pc = "sleep"
    BY <1>3 DEF MonitorStep, Asleep
  <2>. QED
    BY <1>3, <2>1 DEF GoodMon, Holding, MonitorStep
<1>4. CASE MonitorGoto(pc) /\ (pc \in Holding => mon.pc \in Holding)
  <2>1. mon'.todo = mon.todo /\ mon'.log = mon.log /\ mon'.pc = pc
    BY <1>1, <1>4 DEF MonitorGoto, MonitorStep, MonitorRows
  <2>. QED
    BY <1>1, <1>4, <2>1 DEF GoodMon, MonitorGoto, MonitorStep
<1>. QED
  BY <1>2, <1>3, <1>4

LEMMA ScanPays ==
  ASSUME IInv, PayerInv,
         \/ MonitorWake \/ ScanStart \/ ScanLogs \/ ScanPick \/ ScanInsert \/ ScanAttach
         \/ ScanReceipt \/ ScanFinality \/ ScanUpdate \/ ScanSettle \/ ScanAdvance
  PROVE  PayersKept /\ LinksMade /\ GoodMon(mon') /\ ver' = ver
<1>1. /\ StoreTypeOK /\ StoreInv /\ PayersKnown /\ LinksPaid /\ mon \in MonitorRows /\ GoodMon(mon)
      /\ \A l \in mon.todo : l \in Logs /\ l.tx \in Txs /\ GoodLog(l)
      /\ mon.pc \in Holding => mon.log.tx \in Txs /\ GoodLog(mon.log)
      /\ mon.pc \in Linked => Paired(mon.log.tx, mon.log.inv) /\ PaidBy(mon.log.tx, mon.log.inv)
  <2>1. /\ StoreTypeOK /\ StoreInv /\ PayersKnown /\ LinksPaid /\ GoodMon(mon)
        /\ mon.todo \in SUBSET Logs
        /\ mon.pc \in Linked => mon.pc \in Holding /\ mon.log.inv # 0
    BY ThreadsAreGood, LogsAreTyped DEF IInv, TypeOK, PayerInv, ThreadInv, MonInv, Linked, Holding
  <2>. QED
    BY <2>1, LogsAreTyped DEF GoodMon, GoodLog
<1>2. ASSUME NEW n, MonitorStep(n), GoodMon(n) PROVE GoodMon(mon') /\ ver' = ver
  BY <1>2 DEF MonitorStep
<1>3. CASE MonitorWake
  <2>1. PayersKept /\ LinksMade
    BY <1>1, <1>3, QuietPays DEF MonitorWake, MarkExpired
  <2>. QED
    BY <1>3, <2>1, MonitorIsGood DEF MonitorWake, Holding
<1>4. CASE ScanStart
  <2>1. PayersKept /\ LinksMade
    BY <1>1, <1>4, QuietPays DEF ScanStart, MonitorReads, MoveCursor, storeVars
  <2>2. CASE MonitorStep([mon EXCEPT !.pc = "reconcile"])
    BY <2>1, <2>2, MonitorIsGood DEF MonitorGoto, Holding
  <2>3. CASE MonitorStep([mon EXCEPT !.pc = "logs", !.latest = head])
    <3>1. PICK n : n = [mon EXCEPT !.pc = "logs", !.latest = head]
      OBVIOUS
    <3>2. n.todo = mon.todo /\ n.pc = "logs"
      BY <1>1, <3>1 DEF MonitorRows
    <3>3. GoodMon(n)
      BY <1>1, <3>2 DEF GoodMon, Holding
    <3>. QED
      BY <1>2, <2>1, <2>3, <3>1, <3>3
  <2>. QED
    BY <1>4, <2>2, <2>3 DEF ScanStart, MonitorReads
<1>5. CASE ScanLogs
  <2>. DEFINE logs == {LogOf(t, 0) : t \in {s \in Txs : at[s] # 0 /\ at[s] \in nextBlock..ChunkEnd}}
  <2>1. PayersKept /\ LinksMade
    BY <1>1, <1>5, QuietPays DEF ScanLogs, MonitorReads, storeVars
  <2>2. PICK n : n = [mon EXCEPT !.pc = "pick", !.todo = logs]
    OBVIOUS
  <2>3. n.todo = logs /\ n.pc = "pick"
    BY <1>1, <2>2 DEF MonitorRows
  <2>4. \A l \in logs : GoodLog(l)
    BY DEF LogOf, GoodLog
  <2>5. GoodMon(n)
    BY <2>3, <2>4 DEF GoodMon, Holding
  <2>. QED
    BY <1>2, <1>5, <2>1, <2>2, <2>5 DEF ScanLogs, MonitorReads
<1>6. CASE ScanPick
  <2>1. PayersKept /\ LinksMade
    BY <1>1, <1>6, QuietPays DEF ScanPick, MonitorReads, storeVars
  <2>0. PICK l \in mon.todo :
          \E auto :
            MonitorStep([mon EXCEPT !.pc = "insert", !.todo = @ \ {l},
                                    !.log = [l EXCEPT !.inv = Matching(l.tx)], !.auto = auto])
    BY <1>6 DEF ScanPick, MonitorReads
  <2>2. PICK auto :
          MonitorStep([mon EXCEPT !.pc = "insert", !.todo = @ \ {l},
                                  !.log = [l EXCEPT !.inv = Matching(l.tx)], !.auto = auto])
    BY <2>0
  <2>3. PICK i : i = Matching(l.tx)
    OBVIOUS
  <2>4. PICK log : log = [l EXCEPT !.inv = i]
    OBVIOUS
  <2>5. log.tx = l.tx /\ log.inv = i /\ l.tx \in Txs
    BY <1>1, <2>4 DEF Logs
  <2>6. i # 0 => /\ i = AmountOf[l.tx] /\ Open(i)
                 /\ invoice[i].payer \in {NoPayer, SenderOf[l.tx]}
    BY <2>3 DEF Matching
  <2>7. i # 0 => i \in Invoices /\ Created(i) /\ invoice[i].payer # NoPayer
    BY <1>1, <2>5, <2>6, StoreAssumption DEF Invoices, Open, Created, OPEN_INVOICE_STATUSES, PayersKnown
  <2>8. GoodLog(log)
    BY <2>5, <2>6, <2>7 DEF GoodLog, Paired, PaidBy
  <2>9. PICK n : n = [mon EXCEPT !.pc = "insert", !.todo = @ \ {l}, !.log = log, !.auto = auto]
    OBVIOUS
  <2>10. n.todo = mon.todo \ {l} /\ n.log = log
    BY <1>1, <2>9 DEF MonitorRows
  <2>11. GoodMon(n)
    BY <1>1, <2>8, <2>10 DEF GoodMon
  <2>. QED
    BY <1>2, <2>1, <2>2, <2>3, <2>4, <2>9, <2>11
<1>7. CASE ScanInsert
  <2>1. PayersKept /\ LinksMade
    BY <1>1, <1>7, InsertPays DEF ScanInsert, GoodLog, Holding
  <2>2. mon.pc = "insert" /\ (NextLog \/ MonitorGoto("attach") \/ MonitorGoto("receipt"))
    BY <1>7 DEF ScanInsert
  <2>. QED
    BY <2>1, <2>2, MonitorIsGood DEF Holding
<1>8. CASE ScanAttach
  <2>1. PayersKept /\ LinksMade
    BY <1>1, <1>8, AttachPays DEF ScanAttach, Linked
  <2>. QED
    BY <1>8, <2>1, MonitorIsGood DEF ScanAttach, Holding
<1>9. CASE ScanReceipt
  <2>1. PayersKept /\ LinksMade
    BY <1>1, <1>9, QuietPays DEF ScanReceipt, storeVars
  <2>2. mon.pc = "receipt" /\ (NextLog \/ MonitorGoto("finality"))
    BY <1>9 DEF ScanReceipt
  <2>. QED
    BY <2>1, <2>2, MonitorIsGood DEF Holding
<1>10. CASE ScanFinality
  <2>1. PayersKept /\ LinksMade
    BY <1>1, <1>10, QuietPays DEF ScanFinality, MonitorReads, storeVars
  <2>2. PICK n : n = [mon EXCEPT !.pc = "update", !.fin = final]
    OBVIOUS
  <2>3. n.todo = mon.todo /\ n.log = mon.log /\ mon.pc = "finality"
    BY <1>1, <1>10, <2>2 DEF MonitorRows, ScanFinality
  <2>4. GoodMon(n)
    BY <1>1, <2>3 DEF GoodMon, Holding
  <2>. QED
    BY <1>2, <1>10, <2>1, <2>2, <2>4 DEF ScanFinality, MonitorReads
<1>11. CASE ScanUpdate
  <2>1. PayersKept /\ LinksMade
    BY <1>1, <1>11, UpdatePays DEF ScanUpdate, Holding
  <2>2. mon.pc = "update" /\ (NextLog \/ MonitorGoto("settle"))
    BY <1>11 DEF ScanUpdate
  <2>. QED
    BY <2>1, <2>2, MonitorIsGood DEF Holding
<1>12. CASE ScanSettle
  <2>1. PayersKept /\ LinksMade
    BY <1>1, <1>12, SettlePays DEF ScanSettle, Linked
  <2>. QED
    BY <1>12, <2>1, MonitorIsGood DEF ScanSettle
<1>13. CASE ScanAdvance
  <2>1. PayersKept /\ LinksMade
    BY <1>1, <1>13, QuietPays DEF ScanAdvance, MoveCursor
  <2>2. CASE MonitorGoto("logs")
    BY <2>1, <2>2, MonitorIsGood DEF Holding
  <2>3. CASE MonitorStep([Asleep EXCEPT !.pc = "reconcile"])
    <3>1. mon'.todo = {} /\ mon'.pc = "reconcile" /\ ver' = ver
      BY <2>3 DEF MonitorStep, Asleep
    <3>. QED
      BY <2>1, <3>1 DEF GoodMon, Holding
  <2>. QED
    BY <1>13, <2>2, <2>3 DEF ScanAdvance, MonitorGoto
<1>. QED
  BY <1>3, <1>4, <1>5, <1>6, <1>7, <1>8, <1>9, <1>10, <1>11, <1>12, <1>13

LEMMA ReconcilePays ==
  ASSUME IInv, PayerInv,
         \/ ReconcileStart \/ ReconcileFinality \/ ReconcileRow \/ ReconcileDrop
         \/ ReconcileReopen \/ ReconcileSwap \/ ReconcileConfirm \/ ReconcileCredit
         \/ ReconcileWait \/ ReconcileDone
  PROVE  PayersKept /\ LinksMade /\ GoodMon(mon') /\ ver' = ver
<1>1. /\ StoreTypeOK /\ StoreInv /\ PayersKnown /\ LinksPaid /\ mon \in MonitorRows /\ GoodMon(mon)
      /\ \A l \in mon.todo : l \in Logs /\ l.tx \in Txs /\ GoodLog(l)
      /\ mon.pc \in Holding => mon.log.tx \in Txs /\ mon.log.inv \in 0..MaxInvoices
      /\ mon.pc \in Linked => Paired(mon.log.tx, mon.log.inv) /\ PaidBy(mon.log.tx, mon.log.inv)
  <2>1. /\ StoreTypeOK /\ StoreInv /\ PayersKnown /\ LinksPaid /\ GoodMon(mon)
        /\ mon.todo \in SUBSET Logs
        /\ mon.pc \in Holding => mon.log \in Logs
        /\ mon.pc \in Linked => mon.pc \in Holding /\ mon.log.inv # 0
    BY ThreadsAreGood, LogsAreTyped DEF IInv, TypeOK, PayerInv, ThreadInv, MonInv, Linked, Holding
  <2>. QED
    BY <2>1, LogsAreTyped DEF GoodMon, GoodLog, Logs
<1>2. ASSUME NEW n, MonitorStep(n), GoodMon(n) PROVE GoodMon(mon') /\ ver' = ver
  BY <1>2 DEF MonitorStep
<1>3. CASE ReconcileStart
  <2>. DEFINE rows == {RowOf(t) : t \in {s \in Txs : event[s].status = "confirming"}}
  <2>1. PayersKept /\ LinksMade
    BY <1>1, <1>3, QuietPays DEF ReconcileStart, MonitorReads, storeVars
  <2>2. ASSUME NEW t \in Txs PROVE GoodLog(RowOf(t))
    <3>1. event[t].inv \in 0..MaxInvoices
      BY <1>1 DEF StoreTypeOK, EventRows
    <3>2. event[t].inv # 0 => event[t].inv \in Invoices
      BY <3>1, StoreAssumption DEF Invoices
    <3>. QED
      BY <1>1, <3>2 DEF RowOf, GoodLog, Paired, LinksPaid, StoreInv, LinksExact
  <2>3. PICK n : n = [mon EXCEPT !.pc = "rows", !.todo = rows]
    OBVIOUS
  <2>4. n.todo = rows /\ n.pc = "rows"
    BY <1>1, <2>3 DEF MonitorRows
  <2>5. GoodMon(n)
    BY <2>2, <2>4 DEF GoodMon, Holding
  <2>6. MonitorStep(Asleep) \/ MonitorStep(n)
    BY <1>3, <2>3 DEF ReconcileStart, MonitorReads
  <2>. QED
    BY <1>2, <2>1, <2>5, <2>6, MonitorIsGood
<1>4. CASE ReconcileFinality
  <2>1. PayersKept /\ LinksMade
    BY <1>1, <1>4, QuietPays DEF ReconcileFinality, MonitorReads, storeVars
  <2>2. PICK n : n = [mon EXCEPT !.pc = "row", !.fin = final]
    OBVIOUS
  <2>3. n.todo = mon.todo /\ n.pc = "row"
    BY <1>1, <2>2 DEF MonitorRows
  <2>4. GoodMon(n)
    BY <1>1, <2>3 DEF GoodMon, Holding
  <2>. QED
    BY <1>2, <1>4, <2>1, <2>2, <2>4 DEF ReconcileFinality, MonitorReads
<1>5. CASE ReconcileRow
  <2>1. PayersKept /\ LinksMade
    BY <1>1, <1>5, QuietPays DEF ReconcileRow, MonitorReads, storeVars
  <2>2. PICK l \in mon.todo :
          MonitorStep([mon EXCEPT
            !.todo = @ \ {l},
            !.log = IF at[l.tx] # 0 THEN [l EXCEPT !.hash = HashOf(l.tx)] ELSE l,
            !.pc = IF at[l.tx] = 0 THEN "drop"
                   ELSE IF HashOf(l.tx) # l.hash THEN "swap"
                   ELSE IF mon.fin >= l.block THEN "confirm" ELSE "wait"])
    BY <1>5 DEF ReconcileRow, MonitorReads
  <2>3. PICK log : log = IF at[l.tx] # 0 THEN [l EXCEPT !.hash = HashOf(l.tx)] ELSE l
    OBVIOUS
  <2>4. PICK pc : pc = IF at[l.tx] = 0 THEN "drop"
                       ELSE IF HashOf(l.tx) # l.hash THEN "swap"
                       ELSE IF mon.fin >= l.block THEN "confirm" ELSE "wait"
    OBVIOUS
  <2>5. PICK n : n = [mon EXCEPT !.todo = @ \ {l}, !.log = log, !.pc = pc]
    OBVIOUS
  <2>6. log.tx = l.tx /\ log.inv = l.inv
    BY <1>1, <2>3 DEF Logs
  <2>7. n.todo = mon.todo \ {l} /\ n.log = log
    BY <1>1, <2>5 DEF MonitorRows
  <2>8. GoodMon(n)
    BY <1>1, <2>6, <2>7 DEF GoodMon, GoodLog
  <2>. QED
    BY <1>2, <2>1, <2>2, <2>3, <2>4, <2>5, <2>8
<1>6. CASE ReconcileDrop
  <2>1. PayersKept /\ LinksMade
    BY <1>1, <1>6, UpdatePays DEF ReconcileDrop, Holding
  <2>2. mon.pc = "drop" /\ (NextRow \/ MonitorGoto("reopen"))
    BY <1>6 DEF ReconcileDrop
  <2>. QED
    BY <2>1, <2>2, MonitorIsGood DEF Holding
<1>7. CASE ReconcileReopen
  <2>1. PayersKept
    <3>1. Paired(mon.log.tx, mon.log.inv)
      BY <1>1, <1>7 DEF ReconcileReopen, Linked
    <3>. QED
      BY <1>1, <1>7, <3>1, RowKeepsPayers, SameKeepsPayers
         DEF ReconcileReopen, ReopenInvoice, Paired
  <2>2. LinksMade
    BY <1>1, <1>7, NoLinkMade DEF ReconcileReopen, ReopenInvoice
  <2>. QED
    BY <1>7, <2>1, <2>2, MonitorIsGood DEF ReconcileReopen
<1>8. CASE ReconcileSwap
  <2>1. PayersKept /\ LinksMade
    BY <1>1, <1>8, UpdatePays DEF ReconcileSwap, Holding
  <2>. QED
    BY <1>8, <2>1, MonitorIsGood DEF ReconcileSwap
<1>9. CASE ReconcileConfirm
  <2>1. PayersKept /\ LinksMade
    BY <1>1, <1>9, UpdatePays DEF ReconcileConfirm, Holding
  <2>2. mon.pc = "confirm" /\ (NextRow \/ MonitorGoto("credit"))
    BY <1>9 DEF ReconcileConfirm
  <2>. QED
    BY <2>1, <2>2, MonitorIsGood DEF Holding
<1>10. CASE ReconcileCredit
  <2>1. PayersKept /\ LinksMade
    BY <1>1, <1>10, SettlePays DEF ReconcileCredit, Linked
  <2>. QED
    BY <1>10, <2>1, MonitorIsGood DEF ReconcileCredit
<1>11. CASE ReconcileWait
  <2>1. PayersKept /\ LinksMade
    BY <1>1, <1>11, UpdatePays DEF ReconcileWait, Holding
  <2>. QED
    BY <1>11, <2>1, MonitorIsGood DEF ReconcileWait
<1>12. CASE ReconcileDone
  <2>1. PayersKept /\ LinksMade
    BY <1>1, <1>12, QuietPays DEF ReconcileDone, MonitorReads, storeVars
  <2>. QED
    BY <1>12, <2>1, MonitorIsGood DEF ReconcileDone, MonitorReads
<1>. QED
  BY <1>3, <1>4, <1>5, <1>6, <1>7, <1>8, <1>9, <1>10, <1>11, <1>12

\* A verify call reads the wallet with the invoice and compares the sender with it.
LEMMA VerifyPays ==
  ASSUME IInv, PayerInv, NEW v \in Verifiers, VerifyNext(v)
  PROVE  PayersKept /\ LinksMade /\ mon' = mon /\ \A w \in Verifiers : GoodCall(ver'[w])
<1>1. PICK c : c = ver[v]
  OBVIOUS
<1>. USE <1>1
<1>2. /\ StoreTypeOK /\ StoreInv /\ PayersKnown /\ LinksPaid /\ c \in VerifierRows /\ GoodCall(c)
      /\ ver \in [Verifiers -> VerifierRows] /\ \A w \in Verifiers : GoodCall(ver[w])
      /\ c.inv \in 0..MaxInvoices
  BY ThreadsAreGood DEF IInv, TypeOK, PayerInv, VerifierRows
<1>3. ASSUME NEW d, VerifyStep(v, d), GoodCall(d)
      PROVE  mon' = mon /\ \A w \in Verifiers : GoodCall(ver'[w])
  <2>1. \A w \in Verifiers : ver'[w] = d \/ ver'[w] = ver[w]
    BY <1>2, <1>3 DEF VerifyStep
  <2>. QED
    BY <1>2, <1>3, <2>1 DEF VerifyStep
<1>4. GoodCall(Idle)
  BY DEF GoodCall, Idle
<1>5. ASSUME NEW pc, VerifyGoto(v, pc), c.pc \notin {"idle", "receipt"}, pc \notin {"idle", "receipt"}
      PROVE  mon' = mon /\ \A w \in Verifiers : GoodCall(ver'[w])
  <2>1. PICK d : d = [c EXCEPT !.pc = pc]
    OBVIOUS
  <2>2. d.pc = pc /\ d.tx = c.tx /\ d.inv = c.inv
    BY <1>2, <2>1 DEF VerifierRows
  <2>3. GoodCall(d)
    BY <1>2, <1>5, <2>2 DEF GoodCall
  <2>. QED
    BY <1>3, <1>5, <2>1, <2>3 DEF VerifyGoto
<1>6. c.pc \notin {"idle", "receipt"} => Paired(c.tx, c.inv) /\ PaidBy(c.tx, c.inv) /\ c.tx \in Txs
  BY <1>2 DEF GoodCall
<1>7. ASSUME UNCHANGED storeVars PROVE PayersKept /\ LinksMade
  BY <1>2, <1>7, QuietPays DEF storeVars
<1>8. ASSUME NEW i \in Invoices, NEW t \in Txs, VerifyBegin(v, i, t)
      PROVE  PayersKept /\ LinksMade /\ mon' = mon /\ \A w \in Verifiers : GoodCall(ver'[w])
  <2>1. PICK d : d = [Idle EXCEPT !.pc = "receipt", !.inv = i, !.tx = t, !.payer = invoice[i].payer]
    OBVIOUS
  <2>2. d.pc = "receipt" /\ d.tx = t /\ d.inv = i /\ d.payer = invoice[i].payer
    BY <2>1 DEF Idle
  <2>3. GoodCall(d)
    BY <1>8, <2>2 DEF GoodCall, VerifyBegin
  <2>. QED
    BY <1>3, <1>7, <1>8, <2>1, <2>3 DEF VerifyBegin
<1>9. CASE VerifyReceipt(v)
  <2>1. PICK d : d = Accepted(c)
    OBVIOUS
  <2>2. d.pc = "finality" /\ d.tx = c.tx /\ d.inv = c.inv
    BY <1>2, <2>1 DEF Accepted, VerifierRows
  <2>3. CASE /\ AmountOf[c.tx] = c.inv /\ c.payer \in {NoPayer, SenderOf[c.tx]}
             /\ VerifyStep(v, d)
    <3>1. c.pc = "receipt" /\ UNCHANGED storeVars
      BY <1>9 DEF VerifyReceipt
    <3>2. c.inv \in Invoices /\ Created(c.inv) /\ c.tx \in Txs /\ c.payer = invoice[c.inv].payer
      BY <1>2, <3>1 DEF GoodCall
    <3>3. GoodCall(d)
      BY <1>2, <2>2, <2>3, <3>2 DEF GoodCall, Paired, PaidBy, PayersKnown
    <3>. QED
      BY <1>3, <1>7, <2>3, <3>1, <3>3
  <2>4. CASE VerifyStep(v, Idle)
    BY <1>3, <1>4, <1>7, <1>9, <2>4 DEF VerifyReceipt
  <2>. QED
    BY <1>9, <2>1, <2>3, <2>4 DEF VerifyReceipt, Exact, VerifyDone
<1>10. CASE VerifyFinality(v)
  <2>1. PICK d : d = [c EXCEPT !.pc = "insert", !.fin = final]
    OBVIOUS
  <2>2. d.pc = "insert" /\ d.tx = c.tx /\ d.inv = c.inv
    BY <1>2, <2>1 DEF VerifierRows
  <2>3. c.pc = "finality" /\ UNCHANGED storeVars /\ (VerifyStep(v, d) \/ VerifyStep(v, Idle))
    BY <1>10, <2>1 DEF VerifyFinality, VerifyDone
  <2>4. GoodCall(d)
    BY <1>2, <2>2, <2>3 DEF GoodCall
  <2>. QED
    BY <1>3, <1>4, <1>7, <2>3, <2>4
<1>11. CASE VerifyInsert(v)
  <2>1. /\ c.pc = "insert" /\ (VerifyGoto(v, "attach") \/ VerifyGoto(v, "update"))
        /\ InsertPaymentEvent(c.tx, c.inv, FinalityStatus(c.fin, c.block), c.block, c.hash)
    BY <1>11 DEF VerifyInsert
  <2>2. PayersKept /\ LinksMade
    BY <1>2, <1>6, <2>1, InsertPays
  <2>. QED
    BY <1>5, <2>1, <2>2
<1>12. CASE VerifyAttach(v)
  <2>1. PayersKept /\ LinksMade
    BY <1>2, <1>6, <1>12, AttachPays DEF VerifyAttach
  <2>. QED
    BY <1>5, <1>12, <2>1 DEF VerifyAttach
<1>13. CASE VerifyUpdate(v)
  <2>1. /\ c.pc = "update" /\ (VerifyGoto(v, "settle") \/ VerifyStep(v, Idle))
        /\ UpdateEventConfirmation(c.tx, FinalityStatus(c.fin, c.block), event[c.tx].hash)
    BY <1>13 DEF VerifyUpdate, VerifyDone
  <2>2. PayersKept /\ LinksMade
    BY <1>2, <1>6, <2>1, UpdatePays
  <2>. QED
    BY <1>3, <1>4, <1>5, <2>1, <2>2
<1>14. CASE VerifySettle(v)
  <2>1. PayersKept /\ LinksMade
    BY <1>2, <1>6, <1>14, SettlePays DEF VerifySettle
  <2>. QED
    BY <1>3, <1>4, <1>14, <2>1 DEF VerifySettle, VerifyDone
<1>. QED
  BY <1>8, <1>9, <1>10, <1>11, <1>12, <1>13, <1>14 DEF VerifyNext

LEMMA OthersPay ==
  ASSUME IInv, PayerInv, NoPayer \notin PayerChoices,
         \/ Environment \/ Requests \/ UNCHANGED vars \/ Crash \/ MonitorRpcError \/ NoReceiptYet
         \/ \E v \in Verifiers : NoTimestamp(v)
  PROVE  /\ PayersKept /\ LinksMade /\ GoodMon(mon')
         /\ \A v \in Verifiers : GoodCall(ver'[v])
<1>1. /\ StoreTypeOK /\ StoreInv /\ PayersKnown /\ LinksPaid /\ mon \in MonitorRows /\ GoodMon(mon)
      /\ \A v \in Verifiers : GoodCall(ver[v])
  BY ThreadsAreGood DEF IInv, TypeOK, PayerInv
<1>2. CASE Environment \/ ReadInvoice \/ UNCHANGED vars
  <2>1. /\ event' = event /\ (invoice' = invoice \/ invoice' = Swept) /\ mon' = mon /\ ver' = ver
    BY <1>2 DEF Environment, Mine, Finalize, Reorg, Lapse, TogglePlan, ReadInvoice, MarkExpired,
       vars, storeVars, threadVars
  <2>. QED
    BY <1>1, <2>1, QuietPays
<1>3. ASSUME NEW u, NEW p, NEW payer \in PayerChoices, RequestInvoice(u, p, payer)
      PROVE  /\ PayersKept /\ LinksMade /\ GoodMon(mon')
             /\ \A v \in Verifiers : GoodCall(ver'[v])
  <2>1. PayersKept
    BY <1>1, <1>3, RequestKeepsPayers DEF RequestInvoice
  <2>2. event' = event /\ mon' = mon /\ ver' = ver
    BY <1>3 DEF RequestInvoice, CreateInvoice, threadVars
  <2>. QED
    BY <1>1, <2>1, <2>2, NoLinkMade
<1>4. CASE Crash \/ MonitorRpcError \/ NoReceiptYet
  <2>1. PayersKept /\ LinksMade
    BY <1>1, <1>4, QuietPays DEF Crash, MonitorRpcError, NoReceiptYet, Fault, storeVars
  <2>2. GoodCall(Idle) /\ GoodMon(Asleep)
    BY DEF GoodCall, Idle, GoodMon, Asleep, Holding
  <2>3. \A v \in Verifiers : GoodCall(ver'[v])
    BY <1>1, <1>4, <2>2 DEF Crash, MonitorRpcError, NoReceiptYet
  <2>4. CASE mon' = Asleep
    BY <2>1, <2>2, <2>3, <2>4
  <2>5. CASE mon' = [mon EXCEPT !.pc = "pick", !.log = NoTx, !.auto = FALSE]
    <3>1. mon'.todo = mon.todo /\ mon'.pc = "pick"
      BY <1>1, <2>5 DEF MonitorRows
    <3>. QED
      BY <1>1, <2>1, <2>3, <3>1 DEF GoodMon, Holding
  <2>6. ASSUME NEW l \in mon.todo, mon' = [mon EXCEPT !.pc = "drop", !.todo = @ \ {l}, !.log = l]
        PROVE  GoodMon(mon')
    <3>1. mon'.todo = mon.todo \ {l} /\ mon'.log = l
      BY <1>1, <2>6 DEF MonitorRows
    <3>. QED
      BY <1>1, <3>1 DEF GoodMon
  <2>. QED
    BY <1>4, <2>1, <2>3, <2>4, <2>5, <2>6 DEF Crash, MonitorRpcError, NoReceiptYet
<1>5. ASSUME NEW v \in Verifiers, NoTimestamp(v)
      PROVE  /\ PayersKept /\ LinksMade /\ GoodMon(mon')
             /\ \A w \in Verifiers : GoodCall(ver'[w])
  <2>1. PICK c : c = ver[v]
    OBVIOUS
  <2>2. PICK d : d = Accepted(c)
    OBVIOUS
  <2>3. /\ mon' = mon /\ ver' = [ver EXCEPT ![v] = d] /\ c.pc = "receipt"
        /\ AmountOf[c.tx] = c.inv /\ c.payer \in {NoPayer, SenderOf[c.tx]}
        /\ UNCHANGED storeVars
    BY <1>5, <2>1, <2>2 DEF NoTimestamp, Exact, Fault
  <2>4. ver \in [Verifiers -> VerifierRows] /\ c \in VerifierRows /\ GoodCall(c)
    BY <1>1, <2>1 DEF IInv, TypeOK
  <2>5. d.pc = "finality" /\ d.tx = c.tx /\ d.inv = c.inv
    BY <2>2, <2>4 DEF Accepted, VerifierRows
  <2>6. c.inv \in Invoices /\ Created(c.inv) /\ c.tx \in Txs /\ c.payer = invoice[c.inv].payer
    BY <2>3, <2>4 DEF GoodCall
  <2>7. GoodCall(d)
    BY <1>1, <2>3, <2>5, <2>6 DEF GoodCall, Paired, PaidBy, PayersKnown
  <2>8. \A w \in Verifiers : ver'[w] = d \/ ver'[w] = ver[w]
    BY <2>3, <2>4
  <2>9. PayersKept /\ LinksMade
    BY <1>1, <2>3, QuietPays DEF storeVars
  <2>. QED
    BY <1>1, <2>3, <2>7, <2>8, <2>9
<1>. QED
  BY <1>2, <1>3, <1>4, <1>5 DEF Requests

LEMMA PayerStep ==
  ASSUME NoPayer \notin PayerChoices
  PROVE  IInv /\ PayerInv /\ [Next]_vars => PayerInv'
<1>. SUFFICES ASSUME IInv, PayerInv, [Next]_vars PROVE PayerInv'
  OBVIOUS
<1>1. /\ PayersKept /\ LinksMade /\ GoodMon(mon')
      /\ \A v \in Verifiers : GoodCall(ver'[v])
  <2>1. CASE MonitorNext
    BY <2>1, ScanPays, ReconcilePays, ThreadsAreGood DEF MonitorNext
  <2>2. ASSUME NEW v \in Verifiers, VerifyNext(v)
        PROVE  /\ PayersKept /\ LinksMade /\ GoodMon(mon')
               /\ \A w \in Verifiers : GoodCall(ver'[w])
    BY <2>2, VerifyPays, ThreadsAreGood
  <2>. QED
    BY <2>1, <2>2, OthersPay DEF Next
<1>. QED
  BY <1>1, ThreadsStayPaid

LEMMA PayerInit == Init => PayerInv
<1>. SUFFICES ASSUME Init PROVE PayerInv
  OBVIOUS
<1>1. PayersKnown /\ LinksPaid
  BY DEF Init, StoreInit, PayersKnown, LinksPaid, Created, NoInvoice, NoEvent
<1>2. MonPaid(mon) /\ \A v \in Verifiers : VerPaid(ver[v])
  BY DEF Init, MonPaid, VerPaid, Asleep, Idle, Holding
<1>. QED
  BY <1>1, <1>2 DEF PayerInv

\* settlement names a transfer that is linked to the invoice.
LEMMA LinkedIsFromPayer == IInv /\ PayerInv => PayerRespected
<1>. SUFFICES ASSUME IInv, PayerInv, NEW i \in Invoices, Settled(i)
              PROVE  invoice[i].payer = SenderOf[settlement[i]]
  BY DEF PayerRespected
<1>1. settlement[i] \in Txs /\ event[settlement[i]].inv = i /\ i # 0
  BY DEF IInv, TypeOK, StoreTypeOK, StoreInv, SettlementBacked, Settled, Invoices
<1>. QED
  BY <1>1 DEF PayerInv, LinksPaid, PaidBy

\* If every invoice is requested with its wallet, no invoice is credited by a transfer
\* from another one, reorgs and crashes included.
THEOREM CreditsAreFromThePayer ==
  ASSUME NoPayer \notin PayerChoices
  PROVE  Spec => []PayerRespected
<1>1. IInv /\ PayerInv /\ [Next]_vars => PayerInv'
  BY PayerStep
<1>. QED
  BY <1>1, Invariance, PayerInit, LinkedIsFromPayer, PTL DEF Spec

\* Both: every credit is from the wallet the invoice was requested with and for a
\* transfer in a finalized block, save a transfer that a reorg moved after it was read.
THEOREM EveryCreditIsSound ==
  ASSUME NoPayer \notin PayerChoices
  PROVE  Spec => []CreditsAreSound
<1>1. Spec => []PayerRespected
  BY CreditsAreFromThePayer
<1>. QED
  BY <1>1, SettlementsAreFinal, PTL DEF CreditsAreSound
=============================================================================

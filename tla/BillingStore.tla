---------------------------- MODULE BillingStore ----------------------------
(***************************************************************************)
(* The durable state of crypto billing (service/billing.py, BillingStore)  *)
(* and its methods.  Every method is one SQLite transaction under the      *)
(* store's lock, so every method is one operator here; the flows that call *)
(* several of them in a row are in module Billing.                         *)
(*                                                                         *)
(* payment_amount_units is UNIQUE over all invoices, so the exact amount a *)
(* transfer carries names at most one invoice: AmountOf[t] is that invoice *)
(* and 0 stands for every other amount.  Invoices are numbered in the      *)
(* order of created_at.  Time is kept as the set of invoices whose         *)
(* expires_at has passed; first_seen_at is kept as the bit the code tests: *)
(* did the event arrive after its invoice expired.                         *)
(***************************************************************************)
EXTENDS Integers, FiniteSets

CONSTANTS
  MaxInvoices,  \* bound: invoices ever created
  Txs,          \* USDT transfers to the receiving address
  Users, Plans,
  Payers,       \* wallet addresses
  NoTx, NoPayer, NoUser, NoPlan,
  AmountOf,     \* [Txs -> 0..MaxInvoices], see above
  SenderOf      \* [Txs -> Payers], the from address of a transfer

Invoices == 1..MaxInvoices

ASSUME StoreAssumption ==
  /\ MaxInvoices \in Nat
  /\ IsFiniteSet(Txs) /\ NoTx \notin Txs
  /\ NoPayer \notin Payers /\ NoUser \notin Users /\ NoPlan \notin Plans
  /\ AmountOf \in [Txs -> 0..MaxInvoices]
  /\ SenderOf \in [Txs -> Payers]

VARIABLES
  invoice,      \* payment_invoices
  event,        \* payment_events, one per transfer: UNIQUE(chain, tx, log)
  settlement,   \* payment_settlements: invoice -> transfer, NoTx when none
  subscription, \* subscriptions: the plan, and how many periods were credited
  nextBlock,    \* payment_scanner_state.next_block, NoRow before the first scan
  lapsed,       \* the invoices whose expires_at has passed
  activePlans,  \* api_plans.active
  refused       \* history: invoices whose settlement the inactive plan refused

storeVars == <<invoice, event, settlement, subscription, nextBlock, lapsed,
               activePlans, refused>>

OPEN_INVOICE_STATUSES == {"awaiting_payment", "payment_detected", "confirming"}
InvoiceStatuses == OPEN_INVOICE_STATUSES \cup {"none", "paid", "expired"}
EventStatuses == {"none", "detected", "payment_detected", "confirming",
                  "confirmed", "settled", "reorged", "rejected"}
NoRow == -1

InvoiceRows == [status : InvoiceStatuses, user : Users \cup {NoUser},
                plan : Plans \cup {NoPlan}, payer : Payers \cup {NoPayer}]
EventRows == [status : EventStatuses, inv : 0..MaxInvoices, block : Nat,
              hash : Nat \X Nat, late : BOOLEAN]

NoInvoice == [status |-> "none", user |-> NoUser, plan |-> NoPlan, payer |-> NoPayer]
NoEvent == [status |-> "none", inv |-> 0, block |-> 0, hash |-> <<0, 0>>,
            late |-> FALSE]

StoreTypeOK ==
  /\ invoice \in [Invoices -> InvoiceRows]
  /\ event \in [Txs -> EventRows]
  /\ settlement \in [Invoices -> Txs \cup {NoTx}]
  /\ subscription \in [Users -> [plan : Plans \cup {NoPlan}, periods : Nat]]
  /\ nextBlock \in Int
  /\ lapsed \subseteq Invoices
  /\ activePlans \subseteq Plans
  /\ refused \subseteq Invoices

StoreInit ==
  /\ invoice = [i \in Invoices |-> NoInvoice]
  /\ event = [t \in Txs |-> NoEvent]
  /\ settlement = [i \in Invoices |-> NoTx]
  /\ subscription = [u \in Users |-> [plan |-> NoPlan, periods |-> 0]]
  /\ nextBlock = NoRow
  /\ lapsed = {}
  /\ activePlans = Plans
  /\ refused = {}

-----------------------------------------------------------------------------
(* Invoices *)

Created(i) == invoice[i].status # "none"
Open(i) == invoice[i].status \in OPEN_INVOICE_STATUSES
Settled(i) == settlement[i] # NoTx

\* UPDATE ... SET status='expired' WHERE status='awaiting_payment' AND overdue
Swept == [i \in Invoices |->
            IF invoice[i].status = "awaiting_payment" /\ i \in lapsed
            THEN [invoice[i] EXCEPT !.status = "expired"] ELSE invoice[i]]

MarkExpired ==
  /\ invoice' = Swept
  /\ UNCHANGED <<event, settlement, subscription, nextBlock, lapsed, activePlans, refused>>

\* Mutant: an invoice that is being confirmed is not counted as open.
OpenForUnconfirmed(u, p) ==
  {i \in Invoices : /\ Swept[i].user = u /\ Swept[i].plan = p
                    /\ Swept[i].status = "awaiting_payment"}

OpenFor(u, p) == {i \in Invoices : /\ Swept[i].user = u /\ Swept[i].plan = p
                                   /\ Swept[i].status \in OPEN_INVOICE_STATUSES}
Latest(S) == CHOOSE i \in S : \A j \in S : j <= i

\* The 409 INVOICE_PAYER_LOCKED rolls the sweep back: no step at all.
ReuseInvoice(u, p, payer) ==
  /\ OpenFor(u, p) # {}
  /\ LET i == Latest(OpenFor(u, p)) IN
       /\ \/ Swept[i].payer = NoPayer
          \/ payer \in {NoPayer, Swept[i].payer}
       /\ invoice' = IF Swept[i].payer = NoPayer
                     THEN [Swept EXCEPT ![i].payer = payer] ELSE Swept

FreshInvoice(u, p, payer) ==
  /\ OpenFor(u, p) = {}
  /\ \E i \in Invoices :
       /\ ~Created(i) /\ \A j \in Invoices : j < i => Created(j)
       /\ invoice' = [Swept EXCEPT ![i] = [status |-> "awaiting_payment",
                                           user |-> u, plan |-> p, payer |-> payer]]

CreateInvoice(u, p, payer) ==
  /\ p \in activePlans
  /\ ReuseInvoice(u, p, payer) \/ FreshInvoice(u, p, payer)
  /\ UNCHANGED <<event, settlement, subscription, nextBlock, lapsed, activePlans, refused>>

\* find_matching_invoice: 0 when there is none, or when it is past expires_at.
Matching(t) ==
  LET i == AmountOf[t] IN
    IF i # 0 /\ Open(i) /\ invoice[i].payer \in {NoPayer, SenderOf[t]}
       /\ i \notin lapsed
    THEN i ELSE 0

-----------------------------------------------------------------------------
(* Payment events *)

Recorded(t) == event[t].status # "none"

\* Idempotent: a transfer already recorded keeps its row.
InsertPaymentEvent(t, i, status, block, hash) ==
  /\ event' = IF Recorded(t) THEN event
              ELSE [event EXCEPT ![t] = [status |-> status, inv |-> i,
                      block |-> block, hash |-> hash,
                      late |-> AmountOf[t] \in lapsed]]
  /\ UNCHANGED <<invoice, settlement, subscription, nextBlock, lapsed, activePlans, refused>>

\* The callers' test on the row that insert_payment_event returned.
NeedsAttach(row) == row.inv = 0 \/ row.status \in {"detected", "confirming"}

\* Mutant: the invoice's expiry is not looked at.
AttachInvoiceExpired(t, i) ==
  /\ event' = [event EXCEPT ![t].inv = i,
                 ![t].status = IF i \in lapsed THEN "rejected" ELSE "payment_detected"]
  /\ invoice' = IF Open(i) THEN [invoice EXCEPT ![i].status = "confirming"] ELSE invoice
  /\ UNCHANGED <<settlement, subscription, nextBlock, lapsed, activePlans, refused>>

\* Both callers pass payer_matches = True.
AttachInvoice(t, i) ==
  /\ event' = [event EXCEPT ![t].inv = i,
                 ![t].status = IF i \in lapsed THEN "rejected" ELSE "payment_detected"]
  /\ invoice' = IF i \notin lapsed /\ Open(i)
                THEN [invoice EXCEPT ![i].status = "confirming"] ELSE invoice
  /\ UNCHANGED <<settlement, subscription, nextBlock, lapsed, activePlans, refused>>

\* Writes the status whatever the row's status is now.
UpdateEventConfirmation(t, status, hash) ==
  /\ event' = [event EXCEPT ![t].status = status, ![t].hash = hash]
  /\ UNCHANGED <<invoice, settlement, subscription, nextBlock, lapsed, activePlans, refused>>

\* Mutant: without AND status='confirming'.
ReopenInvoiceAlways(i) ==
  /\ invoice' = [invoice EXCEPT ![i].status = "awaiting_payment"]
  /\ UNCHANGED <<event, settlement, subscription, nextBlock, lapsed, activePlans, refused>>

\* The UPDATE that reconcile_confirming issues itself.
ReopenInvoice(i) ==
  /\ invoice' = IF invoice[i].status = "confirming"
                THEN [invoice EXCEPT ![i].status = "awaiting_payment"] ELSE invoice
  /\ UNCHANGED <<event, settlement, subscription, nextBlock, lapsed, activePlans, refused>>

-----------------------------------------------------------------------------
(* Settlement: one BEGIN IMMEDIATE transaction. *)

\* Mutant: no check of first_seen_at.
MaySettleLate(i, t) ==
  /\ ~Settled(i)
  /\ event[t].inv = i
  /\ event[t].status \in {"confirmed", "settled"}
  /\ invoice[i].plan \in activePlans

\* The checks between BEGIN and the first write; a failed one leaves the
\* database as it was, by a return (already settled) or by an exception.
MaySettle(i, t) ==
  /\ ~Settled(i)
  /\ event[t].inv = i
  /\ event[t].status \in {"confirmed", "settled"}
  /\ ~(i \in lapsed /\ event[t].late)
  /\ invoice[i].plan \in activePlans

\* The last of the checks fails: PLAN_INACTIVE.
PlanRefuses(i, t) ==
  /\ ~Settled(i)
  /\ event[t].inv = i
  /\ event[t].status \in {"confirmed", "settled"}
  /\ ~(i \in lapsed /\ event[t].late)
  /\ invoice[i].plan \notin activePlans

\* payment_settlements.payment_event_id is UNIQUE: a second use aborts.
EventUnused(t) == \A j \in Invoices : settlement[j] # t

\* Mutant: the settlement is inserted or replaced, and no existing one is looked for.
SettleReplacing(i, t) ==
  /\ event[t].inv = i /\ event[t].status \in {"confirmed", "settled"}
  /\ LET u == invoice[i].user IN
       subscription' = [subscription EXCEPT ![u].plan = invoice[i].plan,
                                            ![u].periods = @ + 1]
  /\ settlement' = [settlement EXCEPT ![i] = t]
  /\ invoice' = [invoice EXCEPT ![i].status = "paid"]
  /\ event' = [event EXCEPT ![t].status = "settled"]
  /\ UNCHANGED <<nextBlock, lapsed, activePlans, refused>>

Settle(i, t) ==
  \/ /\ MaySettle(i, t) /\ EventUnused(t)
     /\ LET u == invoice[i].user IN
          subscription' = [subscription EXCEPT ![u].plan = invoice[i].plan,
                                               ![u].periods = @ + 1]
     /\ settlement' = [settlement EXCEPT ![i] = t]
     /\ invoice' = [invoice EXCEPT ![i].status = "paid"]
     /\ event' = [event EXCEPT ![t].status = "settled"]
     /\ UNCHANGED <<nextBlock, lapsed, activePlans, refused>>
  \/ /\ ~(MaySettle(i, t) /\ EventUnused(t))
     /\ refused' = IF PlanRefuses(i, t) THEN refused \cup {i} ELSE refused
     /\ UNCHANGED <<invoice, event, settlement, subscription, nextBlock, lapsed, activePlans>>

-----------------------------------------------------------------------------
(* What changes around the store: the clock and the plan catalogue. *)

Lapse(i) ==
  /\ Created(i) /\ i \notin lapsed
  /\ lapsed' = lapsed \cup {i}
  /\ UNCHANGED <<invoice, event, settlement, subscription, nextBlock, activePlans, refused>>

TogglePlan(p) ==
  /\ activePlans' = IF p \in activePlans THEN activePlans \ {p}
                    ELSE activePlans \cup {p}
  /\ UNCHANGED <<invoice, event, settlement, subscription, nextBlock, lapsed, refused>>

MoveCursor(block) ==
  /\ nextBlock' = block
  /\ UNCHANGED <<invoice, event, settlement, subscription, lapsed, activePlans, refused>>
=============================================================================

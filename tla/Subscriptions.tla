---------------------------- MODULE Subscriptions ----------------------------
(***************************************************************************)
(* The subscription of one user and the hands that write it: the grants    *)
(* and recorded payments of the administration (service/admin.py), the     *)
(* development plan (service/developer_api.py) and, from outside, the      *)
(* settlement of crypto invoices (module Billing).                         *)
(*                                                                         *)
(* Every table is keyed by user, so one user stands for all.  Methods of   *)
(* the admin store exclude each other; other stores do not wait for them.  *)
(***************************************************************************)
EXTENDS Naturals, FiniteSets

CONSTANTS
  Plans,            \* rows of api_plans; "developer" among them
  MaxGrants, Payments,
  BillingRequired,  \* SMARTRISK_BILLING_REQUIRED
  Period,           \* the 30 days of a payment
  MaxTime, MaxEnd   \* bounds: the clock, and the time a subscription reaches

ASSUME SubscriptionsAssumption ==
  /\ "developer" \in Plans /\ "none" \notin Plans
  /\ {MaxGrants, MaxTime, MaxEnd} \subseteq Nat /\ Period \in Nat \ {0}
  /\ BillingRequired \in BOOLEAN

VARIABLES
  sub,        \* the row of subscriptions; by: the grant it comes from, or 0
  onSale,     \* plans with active = 1
  grant,      \* plan_grants, in the order they were made
  granting,   \* the grant being made: its previous_* have been read
  payment,    \* payment_transactions; credits: extensions since it was last not confirmed
  now,        \* time
  disordered  \* a grant was revoked before a later one

subscriptionVars == <<sub, onSale, grant, granting, payment, now, disordered>>

Grants == 1..MaxGrants
SubStatuses == {"active", "expired"} \* "trialing" counts as active, the others as expired
Subscription == [plan : Plans, status : SubStatuses, ends : 0..MaxEnd, by : 0..MaxGrants]
NoSub == [plan |-> "none", status |-> "expired", ends |-> 0, by |-> 0]
NoGrant == [state |-> "none", prev |-> NoSub]
NoPayment == [state |-> "none", plan |-> "none", recorded |-> FALSE, credits |-> 0]
NotGranting == [g |-> 0, plan |-> "none", ends |-> 0, prev |-> NoSub]

SubscriptionsTypeOK ==
  /\ sub \in Subscription \cup {NoSub}
  /\ onSale \subseteq Plans
  /\ grant \in [Grants -> [state : {"none", "active", "revoked"}, prev : Subscription \cup {NoSub}]]
  /\ granting \in [g : 0..MaxGrants, plan : Plans \cup {"none"}, ends : 0..MaxEnd,
                   prev : Subscription \cup {NoSub}]
  /\ payment \in [Payments -> [state : {"none", "pending", "confirmed", "refunded"},
                   plan : Plans \cup {"none"}, recorded : BOOLEAN, credits : 0..1]]
  /\ now \in 0..MaxTime /\ disordered \in BOOLEAN

Development == [plan |-> "developer", status |-> "active", ends |-> 0, by |-> 0]

SubscriptionsInit ==
  /\ sub \in {NoSub, Development} /\ onSale = Plans
  /\ grant = [g \in Grants |-> NoGrant] /\ granting = NotGranting
  /\ payment = [p \in Payments |-> NoPayment]
  /\ now = 0 /\ disordered = FALSE

Later(a, b) == IF a > b THEN a ELSE b
\* An end that is given: none, or some time ahead.
Ends == {0} \cup {e \in {now + Period} : e <= MaxEnd}

\* subscription_for_user: the developer API is for running subscriptions.
Running == sub # NoSub /\ sub.status = "active" /\ (sub.ends = 0 \/ sub.ends > now)
\* authenticate_key asks for a plan on sale as well.
Usable == Running /\ sub.plan \in onSale

Unlocked == granting = NotGranting

-----------------------------------------------------------------------------
\* ensure_development_subscription
EnsureDevelopment ==
  /\ ~BillingRequired /\ sub = NoSub
  /\ sub' = Development
  /\ UNCHANGED <<onSale, grant, granting, payment, now, disordered>>

\* BillingStore.settle, in a transaction that does not wait for the admin store.
Settle(plan) ==
  LET end == Later(sub.ends, now) + Period IN
  /\ plan \in onSale /\ end <= MaxEnd
  /\ sub' = [plan |-> plan, status |-> "active", ends |-> end, by |-> 0]
  /\ UNCHANGED <<onSale, grant, granting, payment, now, disordered>>

\* upsert_subscription
Upsert(plan, status, ends) ==
  /\ Unlocked
  /\ sub' = [plan |-> plan, status |-> status, ends |-> ends, by |-> 0]
  /\ UNCHANGED <<onSale, grant, granting, payment, now, disordered>>

\* update_plan: price and limits are left out.
UpdatePlan(plan) ==
  /\ Unlocked
  /\ onSale' = IF plan \in onSale THEN onSale \ {plan} ELSE onSale \cup {plan}
  /\ UNCHANGED <<sub, grant, granting, payment, now, disordered>>

\* Mutant: what is put back is what the grant wrote.
GrantReadNew(g, plan, ends) ==
  /\ Unlocked /\ grant[g].state = "none" /\ \A h \in 1..(g - 1) : grant[h].state # "none"
  /\ granting' = [g |-> g, plan |-> plan, ends |-> ends,
       prev |-> IF sub = NoSub THEN NoSub ELSE [plan |-> plan, status |-> "active", ends |-> ends, by |-> g]]
  /\ UNCHANGED <<sub, onSale, grant, payment, now, disordered>>

\* create_grant reads the subscription before its transaction begins to write...
GrantRead(g, plan, ends) ==
  /\ Unlocked /\ grant[g].state = "none" /\ \A h \in 1..(g - 1) : grant[h].state # "none"
  /\ granting' = [g |-> g, plan |-> plan, ends |-> ends, prev |-> sub]
  /\ UNCHANGED <<sub, onSale, grant, payment, now, disordered>>

\* ...and keeps what it read.  A second subscription of the user is refused,
\* and the grant with it.
GrantWrite ==
  LET x == granting IN
  /\ ~Unlocked /\ granting' = NotGranting
  /\ IF x.prev = NoSub /\ sub # NoSub THEN UNCHANGED <<sub, grant>> ELSE
       /\ grant' = [grant EXCEPT ![x.g] = [state |-> "active", prev |-> x.prev]]
       /\ sub' = [plan |-> x.plan, status |-> "active", ends |-> x.ends, by |-> x.g]
  /\ UNCHANGED <<onSale, payment, now, disordered>>

\* revoke_grant puts the former subscription back, or deletes the present one.
RevokeGrant(g) ==
  /\ Unlocked /\ grant[g].state = "active"
  /\ grant' = [grant EXCEPT ![g].state = "revoked"]
  /\ sub' = grant[g].prev
  /\ disordered' = (disordered \/ \E h \in Grants : h > g /\ grant[h].state = "active")
  /\ UNCHANGED <<onSale, granting, payment, now>>

\* create_payment takes any status and extends nothing.
CreatePayment(p, plan, state) ==
  /\ Unlocked /\ payment[p].state = "none"
  /\ payment' = [payment EXCEPT ![p] = [NoPayment EXCEPT !.state = state, !.plan = plan,
                                         !.recorded = (state = "confirmed")]]
  /\ UNCHANGED <<sub, onSale, grant, granting, now, disordered>>

\* Mutant: a payment that is confirmed is confirmed again.
ConfirmAgain(p) ==
  LET plan == payment[p].plan  end == Later(sub.ends, now) + Period IN
  /\ Unlocked /\ payment[p].state # "none" /\ plan \in onSale /\ end <= MaxEnd
  /\ payment' = [payment EXCEPT ![p].state = "confirmed", ![p].recorded = FALSE, ![p].credits = @ + 1]
  /\ sub' = [plan |-> plan, status |-> "active", ends |-> end, by |-> 0]
  /\ UNCHANGED <<onSale, grant, granting, now, disordered>>

\* set_payment_status to "confirmed": one transaction, undone when the plan is
\* not on sale; a payment that is confirmed already is left alone.
Confirm(p) ==
  LET plan == payment[p].plan  end == Later(sub.ends, now) + Period IN
  /\ Unlocked /\ payment[p].state \notin {"none", "confirmed"}
  /\ \/ /\ plan = "none"
        /\ payment' = [payment EXCEPT ![p].state = "confirmed", ![p].recorded = FALSE]
        /\ UNCHANGED sub
     \/ /\ plan \in onSale /\ end <= MaxEnd
        /\ payment' = [payment EXCEPT ![p].state = "confirmed", ![p].recorded = FALSE, ![p].credits = @ + 1]
        /\ sub' = [plan |-> plan, status |-> "active", ends |-> end, by |-> 0]
  /\ UNCHANGED <<onSale, grant, granting, now, disordered>>

\* set_payment_status to another status takes no time back.
Unconfirm(p) ==
  /\ Unlocked /\ payment[p].state # "none"
  /\ payment' = [payment EXCEPT ![p].state = "refunded", ![p].recorded = FALSE, ![p].credits = 0]
  /\ UNCHANGED <<sub, onSale, grant, granting, now, disordered>>

Tick ==
  /\ now < MaxTime /\ now' = now + 1
  /\ UNCHANGED <<sub, onSale, grant, granting, payment, disordered>>

\* What a request to the administration, or a settlement, starts.
SubscriptionRequest ==
  \/ EnsureDevelopment
  \/ \E plan \in Plans : Settle(plan) \/ UpdatePlan(plan)
  \/ \E plan \in Plans, ends \in Ends :
       \/ \E status \in SubStatuses : Upsert(plan, status, ends)
       \/ \E g \in Grants : GrantRead(g, plan, ends)
  \/ \E g \in Grants : RevokeGrant(g)
  \/ \E p \in Payments : Confirm(p) \/ Unconfirm(p)
       \/ \E plan \in Plans \cup {"none"}, state \in {"pending", "confirmed"} : CreatePayment(p, plan, state)

-----------------------------------------------------------------------------
\* A confirmed payment for a plan has extended the subscription exactly once
\* since it was last not confirmed (two administrators confirm it, a plan is
\* taken off sale), unless it was recorded as confirmed; another has not.
PaymentsCredited ==
  \A p \in Payments : payment[p].credits =
    IF payment[p].state = "confirmed" /\ payment[p].plan # "none" /\ ~payment[p].recorded THEN 1 ELSE 0

\* "Saving the previous subscription and restoring it" (ADMIN-CONSOLE-AR.md:25):
\* a subscription that comes from a grant outlives it only when grants were
\* revoked in another order than the reverse of the one they were made in.
GrantsEnd == disordered \/ sub.by = 0 \/ grant[sub.by].state = "active"
=============================================================================

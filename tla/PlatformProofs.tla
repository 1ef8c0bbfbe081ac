--------------------------- MODULE PlatformProofs ---------------------------
(***************************************************************************)
(* Proofs about Platform, for any numbers of plans, grants, payments, keys *)
(* and threads: the types, and what the administration promises of         *)
(* payments, grants, keys and quotas while others write beside it.         *)
(***************************************************************************)
EXTENDS Platform, FiniteSetTheorems, TLAPS

(* Subscriptions *)

\* A grant being made is the next one, for a plan.
GrantingInv ==
  Unlocked \/ /\ granting.g \in Grants /\ granting.plan \in Plans
              /\ grant[granting.g].state = "none"
              /\ \A h \in Grants : h < granting.g => grant[h].state # "none"

GrantsInOrder ==
  \A g, h \in Grants : h < g /\ grant[g].state # "none" => grant[h].state # "none"

\* A subscription that is not of a grant, or of one that was not revoked.
Backed(s) == s.by = 0 \/ grant[s.by].state = "active"

\* While grants are revoked in order, the subscriptions put aside by running
\* grants are backed by earlier ones.
GrantsInv ==
  ~disordered =>
    /\ Backed(sub)
    /\ \A g \in Grants : grant[g].state = "active" => Backed(grant[g].prev) /\ grant[g].prev.by < g
    /\ ~Unlocked => Backed(granting.prev) /\ granting.prev.by < granting.g

SubscriptionsInv ==
  SubscriptionsTypeOK /\ PaymentsCredited /\ GrantingInv /\ GrantsInOrder /\ GrantsInv

-----------------------------------------------------------------------------
(* API keys *)

\* A request that is not late still finds its key as it read it.
KeyReqCurrent(t) ==
  /\ keyReq[t].pc \in {"rotate", "state"} => keyReq[t].key \in Keys
  /\ keyReq[t].pc = "rotate" /\ ~keyReq[t].late => key[keyReq[t].key] = "active"
  /\ keyReq[t].pc = "state" => keyReq[t].to # ""
  /\ keyReq[t].pc = "state" /\ ~keyReq[t].late /\ key[keyReq[t].key] = "revoked" => keyReq[t].to = "revoked"

KeyReqInv == \A t \in KeyThreads : KeyReqCurrent(t)

\* There is room for the key of an insertion that is not late.
KeysInv ==
  ~stale =>
    /\ Cardinality(ActiveKeys) <= KeyLimit
    /\ \A t \in KeyThreads : keyReq[t].pc = "insert" /\ ~keyReq[t].late => Cardinality(ActiveKeys) < KeyLimit

ApiKeysInv == ApiKeysTypeOK /\ KeyReqInv /\ KeysInv

\* A window that was dropped is of a second no request comes from in time.
RateInv ==
  /\ \A t \in KeyThreads : keyReq[t].pc = "rate" => keyReq[t].at <= now
  /\ \A s \in Seconds \ overdue :
       /\ granted[s] <= RateLimit
       /\ IF s \in DOMAIN window THEN window[s] = granted[s] ELSE granted[s] = 0 \/ s + 2 < now

-----------------------------------------------------------------------------
(* Embed applications *)

Reserved(m) == {t \in EmbedThreads : EmbedAt(t, "reserved") /\ embedReq[t].month = m}

\* Every scan of a month and every place reserved in it is counted, but for
\* those given away wrongly.
QuotaInv ==
  \A m \in AllMonths :
    /\ IsFiniteSet(Reserved(m)) /\ used[m] <= Quota
    /\ scans[m] + Cardinality(Reserved(m)) <= used[m] + misgiven

EmbedAppsInv == EmbedAppsTypeOK /\ QuotaInv

IInv == SubscriptionsInv /\ ApiKeysInv /\ EmbedAppsInv /\ requests \in 0..MaxRequests

-----------------------------------------------------------------------------
(* Proofs: subscriptions *)

LEMMA Numbers ==
  MaxGrants \in Nat /\ MaxTime \in Nat /\ MaxEnd \in Nat /\ Period \in Nat /\ Grants \subseteq Nat
BY SubscriptionsAssumption DEF Grants

LEMMA Extended ==
  ASSUME SubscriptionsTypeOK, NEW plan \in onSale, Later(sub.ends, now) + Period <= MaxEnd
  PROVE  [plan |-> plan, status |-> "active", ends |-> Later(sub.ends, now) + Period, by |-> 0] \in Subscription
<1>1. sub.ends \in Nat /\ now \in Nat
  BY Numbers DEF SubscriptionsTypeOK, Subscription, NoSub
<1>. QED
  BY <1>1, Numbers DEF SubscriptionsTypeOK, Later, Subscription, SubStatuses

PaymentRow == [state : {"none", "pending", "confirmed", "refunded"},
               plan : Plans \cup {"none"}, recorded : BOOLEAN, credits : 0..1]

\* (A change of several fields is taken field by field.)
LEMMA PaymentRows ==
  ASSUME NEW x \in PaymentRow
  PROVE  /\ [x EXCEPT !.state = "refunded", !.recorded = FALSE, !.credits = 0] \in PaymentRow
         /\ \A plan \in Plans \cup {"none"}, state \in {"pending", "confirmed"}, b \in BOOLEAN :
              [x EXCEPT !.state = state, !.plan = plan, !.recorded = b] \in PaymentRow
<1>1. \A y \in PaymentRow :
        /\ \A state \in {"pending", "confirmed", "refunded"} : [y EXCEPT !.state = state] \in PaymentRow
        /\ \A plan \in Plans \cup {"none"} : [y EXCEPT !.plan = plan] \in PaymentRow
        /\ \A b \in BOOLEAN : [y EXCEPT !.recorded = b] \in PaymentRow
        /\ [y EXCEPT !.credits = 0] \in PaymentRow
  BY DEF PaymentRow
<1>2. [x EXCEPT !.state = "refunded", !.recorded = FALSE, !.credits = 0]
        = [[[x EXCEPT !.state = "refunded"] EXCEPT !.recorded = FALSE] EXCEPT !.credits = 0]
  OBVIOUS
<1>3. ASSUME NEW plan \in Plans \cup {"none"}, NEW state \in {"pending", "confirmed"}, NEW b \in BOOLEAN
      PROVE  [x EXCEPT !.state = state, !.plan = plan, !.recorded = b] \in PaymentRow
  <2>1. [x EXCEPT !.state = state, !.plan = plan, !.recorded = b]
          = [[[x EXCEPT !.state = state] EXCEPT !.plan = plan] EXCEPT !.recorded = b]
    OBVIOUS
  <2>. QED
    BY <1>1, <2>1
<1>. QED
  BY <1>1, <1>2, <1>3

LEMMA SubscriptionsTypeStep ==
  ASSUME SubscriptionsTypeOK, PaymentsCredited, GrantingInv,
         SubscriptionRequest \/ GrantWrite \/ Tick \/ UNCHANGED subscriptionVars
  PROVE  SubscriptionsTypeOK'
<1>. USE Numbers DEF SubscriptionsTypeOK, PaymentRow
<1>0. Ends \subseteq 0..MaxEnd
  BY DEF Ends
<1>1. CASE EnsureDevelopment
  <2>1. Development \in Subscription
    BY SubscriptionsAssumption DEF Development, Subscription, SubStatuses
  <2>. QED
    BY <1>1, <2>1 DEF EnsureDevelopment
<1>2. ASSUME NEW plan \in Plans, Settle(plan)  PROVE SubscriptionsTypeOK'
  BY <1>2, Extended DEF Settle
<1>3. ASSUME NEW plan \in Plans, UpdatePlan(plan)  PROVE SubscriptionsTypeOK'
  BY <1>3 DEF UpdatePlan
<1>4. ASSUME NEW plan \in Plans, NEW ends \in Ends, NEW status \in SubStatuses, Upsert(plan, status, ends)
      PROVE  SubscriptionsTypeOK'
  <2>1. [plan |-> plan, status |-> status, ends |-> ends, by |-> 0] \in Subscription
    BY <1>0 DEF Subscription
  <2>. QED
    BY <1>4, <2>1 DEF Upsert
<1>5. ASSUME NEW plan \in Plans, NEW ends \in Ends, NEW g \in Grants, GrantRead(g, plan, ends)
      PROVE  SubscriptionsTypeOK'
  <2>1. [g |-> g, plan |-> plan, ends |-> ends, prev |-> sub] \in
          [g : 0..MaxGrants, plan : Plans \cup {"none"}, ends : 0..MaxEnd, prev : Subscription \cup {NoSub}]
    BY <1>0 DEF Grants
  <2>. QED
    BY <1>5, <2>1 DEF GrantRead
<1>6. ASSUME NEW g \in Grants, RevokeGrant(g)  PROVE SubscriptionsTypeOK'
  BY <1>6 DEF RevokeGrant
<1>7. ASSUME NEW p \in Payments, Confirm(p)  PROVE SubscriptionsTypeOK'
  <2>1. sub' \in Subscription \cup {NoSub}
    BY <1>7, Extended DEF Confirm
  <2>2. payment[p].credits = 0
    BY <1>7 DEF Confirm, PaymentsCredited
  <2>3. payment' \in [Payments -> PaymentRow]
    BY <1>7, <2>2 DEF Confirm
  <2>. QED
    BY <1>7, <2>1, <2>3 DEF Confirm
<1>8. ASSUME NEW p \in Payments, Unconfirm(p)  PROVE SubscriptionsTypeOK'
  <2>1. [payment[p] EXCEPT !.state = "refunded", !.recorded = FALSE, !.credits = 0] \in PaymentRow
    <3>1. payment[p] \in PaymentRow
      OBVIOUS
    <3>. QED
      BY <3>1, PaymentRows
  <2>2. payment' \in [Payments -> PaymentRow]
    BY <1>8, <2>1 DEF Unconfirm
  <2>. QED
    BY <1>8, <2>2 DEF Unconfirm
<1>9. ASSUME NEW p \in Payments, NEW plan \in Plans \cup {"none"}, NEW state \in {"pending", "confirmed"},
             CreatePayment(p, plan, state)
      PROVE  SubscriptionsTypeOK'
  <2>1. [NoPayment EXCEPT !.state = state, !.plan = plan, !.recorded = (state = "confirmed")] \in PaymentRow
    <3>1. NoPayment \in PaymentRow
      BY DEF NoPayment
    <3>. QED
      BY <3>1, PaymentRows
  <2>2. payment' \in [Payments -> PaymentRow]
    BY <1>9, <2>1 DEF CreatePayment
  <2>. QED
    BY <1>9, <2>2 DEF CreatePayment
<1>10. CASE GrantWrite
  <2>1. NotGranting \in [g : 0..MaxGrants, plan : Plans \cup {"none"}, ends : 0..MaxEnd,
                         prev : Subscription \cup {NoSub}]
    BY DEF NotGranting
  <2>2. [plan |-> granting.plan, status |-> "active", ends |-> granting.ends, by |-> granting.g] \in Subscription
    BY <1>10 DEF GrantWrite, GrantingInv, Subscription, SubStatuses, Grants
  <2>. QED
    BY <1>10, <2>1, <2>2 DEF GrantWrite
<1>11. CASE Tick
  BY <1>11 DEF Tick
<1>12. CASE UNCHANGED subscriptionVars
  BY <1>12 DEF subscriptionVars
<1>. QED
  BY <1>1, <1>2, <1>3, <1>4, <1>5, <1>6, <1>7, <1>8, <1>9, <1>10, <1>11, <1>12 DEF SubscriptionRequest

LEMMA PaymentsStep ==
  ASSUME SubscriptionsTypeOK, PaymentsCredited,
         SubscriptionRequest \/ GrantWrite \/ Tick \/ UNCHANGED subscriptionVars
  PROVE  PaymentsCredited'
<1>. USE DEF SubscriptionsTypeOK, PaymentsCredited
<1>1. ASSUME NEW p \in Payments, Confirm(p)  PROVE PaymentsCredited'
  <2>1. payment[p].credits = 0 /\ payment[p].state # "confirmed"
    BY <1>1 DEF Confirm
  <2>2. payment'[p].state = "confirmed" /\ ~payment'[p].recorded /\ payment'[p].plan = payment[p].plan
        /\ payment'[p].credits = IF payment[p].plan # "none" THEN 1 ELSE 0
    <3>1. payment[p].plan \in onSale => payment[p].plan # "none"
      BY SubscriptionsAssumption
    <3>. QED
      BY <1>1, <2>1, <3>1 DEF Confirm
  <2>3. \A q \in Payments \ {p} : payment'[q] = payment[q]
    BY <1>1 DEF Confirm
  <2>. QED
    BY <2>2, <2>3
<1>2. ASSUME NEW p \in Payments, Unconfirm(p)  PROVE PaymentsCredited'
  BY <1>2 DEF Unconfirm
<1>3. ASSUME NEW p \in Payments, NEW plan \in Plans \cup {"none"}, NEW state \in {"pending", "confirmed"},
             CreatePayment(p, plan, state)
      PROVE  PaymentsCredited'
  <2>1. payment'[p].state = state /\ payment'[p].credits = 0 /\ (state = "confirmed" => payment'[p].recorded)
    BY <1>3 DEF CreatePayment, NoPayment
  <2>2. \A q \in Payments \ {p} : payment'[q] = payment[q]
    BY <1>3 DEF CreatePayment
  <2>. QED
    BY <2>1, <2>2
<1>4. CASE UNCHANGED payment
  BY <1>4
<1>. QED
  BY <1>1, <1>2, <1>3, <1>4
  DEF SubscriptionRequest, EnsureDevelopment, Settle, UpdatePlan, Upsert, GrantRead, RevokeGrant,
      GrantWrite, Tick, subscriptionVars

LEMMA GrantsStep ==
  ASSUME SubscriptionsTypeOK, GrantingInv, GrantsInOrder, GrantsInv,
         SubscriptionRequest \/ GrantWrite \/ Tick \/ UNCHANGED subscriptionVars
  PROVE  GrantingInv' /\ GrantsInOrder' /\ GrantsInv'
<1>. USE Numbers DEF SubscriptionsTypeOK, Backed
\* A subscription that comes from no grant disturbs nothing.
<1>1. ASSUME sub' = sub \/ sub'.by = 0, UNCHANGED <<grant, granting, disordered>>
      PROVE  GrantingInv' /\ GrantsInOrder' /\ GrantsInv'
  BY <1>1 DEF GrantingInv, GrantsInOrder, GrantsInv, Unlocked
<1>2. CASE EnsureDevelopment
  BY <1>1, <1>2 DEF EnsureDevelopment, Development
<1>3. ASSUME NEW plan \in Plans, Settle(plan) \/ UpdatePlan(plan)
      PROVE  GrantingInv' /\ GrantsInOrder' /\ GrantsInv'
  BY <1>1, <1>3 DEF Settle, UpdatePlan
<1>4. ASSUME NEW plan \in Plans, NEW ends, NEW status, Upsert(plan, status, ends)
      PROVE  GrantingInv' /\ GrantsInOrder' /\ GrantsInv'
  BY <1>1, <1>4 DEF Upsert
<1>5. ASSUME NEW plan \in Plans, NEW ends, NEW g \in Grants, GrantRead(g, plan, ends)
      PROVE  GrantingInv' /\ GrantsInOrder' /\ GrantsInv'
  <2>1. /\ UNCHANGED <<sub, grant, disordered>> /\ grant[g].state = "none"
        /\ \A h \in Grants : h < g => grant[h].state # "none"
    BY <1>5 DEF GrantRead, Grants
  <2>2. granting'.g = g /\ granting'.plan = plan /\ granting'.prev = sub
    BY <1>5 DEF GrantRead
  <2>3. GrantingInv' /\ GrantsInOrder'
    BY <2>1, <2>2 DEF GrantingInv, GrantsInOrder
  <2>4. ~disordered => Backed(sub) /\ sub.by < g
    <3>1. sub.by \in Nat /\ (sub.by # 0 => sub.by \in Grants)
      BY DEF Subscription, NoSub, Grants
    <3>2. 0 < g
      BY DEF Grants
    <3>. QED
      BY <2>1, <3>1, <3>2 DEF GrantsInv, GrantsInOrder
  <2>5. GrantsInv'
    BY <2>1, <2>2, <2>4 DEF GrantsInv
  <2>. QED
    BY <2>3, <2>5
<1>6. ASSUME NEW g \in Grants, RevokeGrant(g)
      PROVE  GrantingInv' /\ GrantsInOrder' /\ GrantsInv'
  <2>1. /\ granting' = granting /\ sub' = grant[g].prev /\ Unlocked /\ grant[g].state = "active"
        /\ grant'[g].state = "revoked" /\ grant'[g].prev = grant[g].prev
        /\ \A h \in Grants \ {g} : grant'[h] = grant[h]
    BY <1>6 DEF RevokeGrant
  <2>2. ~disordered' => ~disordered /\ \A h \in Grants : h > g => grant[h].state # "active"
    BY <1>6 DEF RevokeGrant
  <2>3. \A h \in Grants : h <= g \/ h > g
    OBVIOUS
  <2>4. GrantingInv' /\ GrantsInOrder'
    BY <2>1 DEF GrantingInv, GrantsInOrder, Unlocked
  <2>5. \A x \in Subscription \cup {NoSub} : x.by < g /\ Backed(x) => Backed(x)'
    <3>1. \A x \in Subscription \cup {NoSub} : x.by \in Nat /\ (x.by # 0 => x.by \in Grants)
      BY DEF Subscription, NoSub, Grants
    <3>. QED
      BY <2>1, <3>1
  <2>6. GrantsInv'
    <3>1. SUFFICES ASSUME ~disordered'  PROVE Backed(sub)' /\ \A h \in Grants : grant'[h].state = "active" =>
                                                 Backed(grant[h].prev)' /\ grant[h].prev.by < h
      BY <2>1 DEF GrantsInv, Unlocked
    <3>2. Backed(sub)'
      BY <2>1, <2>2, <2>5, <3>1 DEF GrantsInv
    <3>3. ASSUME NEW h \in Grants, grant'[h].state = "active"
          PROVE  Backed(grant[h].prev)' /\ grant[h].prev.by < h
      <4>1. h # g /\ h < g /\ grant[h].state = "active"
        <5>1. h # g
          BY <2>1, <3>3
        <5>2. grant[h].state = "active"
          BY <2>1, <3>3, <5>1
        <5>3. ~(h > g)
          BY <2>2, <3>1, <5>2
        <5>. QED
          BY <2>3, <5>1, <5>2, <5>3
      <4>2. Backed(grant[h].prev) /\ grant[h].prev.by < h
        BY <2>2, <3>1, <4>1 DEF GrantsInv
      <4>3. grant[h].prev \in Subscription \cup {NoSub} /\ grant[h].prev.by \in Nat
        BY DEF Subscription, NoSub
      <4>4. grant[h].prev.by < g
        BY <4>1, <4>2, <4>3
      <4>5. PICK x \in Subscription \cup {NoSub} : x = grant[h].prev
        BY <4>3
      <4>6. Backed(x)'
        BY <2>5, <4>2, <4>4, <4>5
      <4>. QED
        BY <2>1, <4>1, <4>2, <4>5, <4>6
    <3>. QED
      BY <3>2, <3>3
  <2>. QED
    BY <2>4, <2>6
<1>7. ASSUME NEW p \in Payments, Confirm(p)
      PROVE  GrantingInv' /\ GrantsInOrder' /\ GrantsInv'
  BY <1>1, <1>7 DEF Confirm
<1>8. ASSUME NEW p \in Payments, NEW plan, NEW state, Unconfirm(p) \/ CreatePayment(p, plan, state)
      PROVE  GrantingInv' /\ GrantsInOrder' /\ GrantsInv'
  BY <1>1, <1>8 DEF Unconfirm, CreatePayment
<1>9. CASE GrantWrite
  <2>1. ~Unlocked /\ granting' = NotGranting /\ disordered' = disordered
    BY <1>9 DEF GrantWrite
  <2>2. CASE UNCHANGED <<sub, grant>>
    BY <2>1, <2>2 DEF GrantingInv, GrantsInOrder, GrantsInv, Unlocked
  <2>3. CASE ~UNCHANGED <<sub, grant>>
    <3>1. PICK g \in Grants : g = granting.g
      BY <2>1 DEF GrantingInv
    <3>2. /\ grant'[g].state = "active" /\ grant'[g].prev = granting.prev
          /\ \A h \in Grants \ {g} : grant'[h] = grant[h]
          /\ sub'.by = g
      BY <1>9, <2>3, <3>1 DEF GrantWrite
    <3>3. grant[g].state = "none" /\ \A h \in Grants : h < g => grant[h].state # "none"
      BY <2>1, <3>1 DEF GrantingInv
    <3>4. GrantsInOrder'
      BY <3>2, <3>3 DEF GrantsInOrder
    <3>5. \A x \in Subscription \cup {NoSub} : Backed(x) => Backed(x)'
      <4>1. \A x \in Subscription \cup {NoSub} : x.by # 0 => x.by \in Grants
        BY DEF Subscription, NoSub, Grants
      <4>. QED
        BY <3>2, <4>1
    <3>6. ASSUME ~disordered, NEW h \in Grants, grant'[h].state = "active"
          PROVE  Backed(grant[h].prev)' /\ grant'[h].prev.by < h
      <4>1. PICK x \in Subscription \cup {NoSub} : x = grant'[h].prev
        BY <3>2
      <4>2. Backed(x) /\ x.by < h
        BY <2>1, <3>1, <3>2, <3>6, <4>1 DEF GrantsInv
      <4>3. Backed(x)'
        BY <3>5, <4>2
      <4>. QED
        BY <4>1, <4>2, <4>3
    <3>7. GrantsInv'
      BY <2>1, <3>2, <3>6 DEF GrantsInv, Unlocked
    <3>. QED
      BY <2>1, <3>4, <3>7 DEF GrantingInv, Unlocked
  <2>. QED
    BY <2>2, <2>3
<1>10. CASE Tick \/ UNCHANGED subscriptionVars
  BY <1>1, <1>10 DEF Tick, subscriptionVars
<1>. QED
  BY <1>2, <1>3, <1>4, <1>5, <1>6, <1>7, <1>8, <1>9, <1>10 DEF SubscriptionRequest

-----------------------------------------------------------------------------
(* Proofs: API keys *)

KeyReqs == [pc : {"idle", "insert", "rotate", "state", "rate"}, key : Keys \cup {""},
            to : {"", "active", "disabled", "revoked"}, at : Seconds, late : BOOLEAN]

LEMMA KeyReqRows ==
  /\ NoKeyReq \in KeyReqs
  /\ \A r \in KeyReqs :
       /\ r.at \in Seconds /\ r.late \in BOOLEAN
       /\ \A pc \in {"idle", "insert", "rotate", "state", "rate"} : [r EXCEPT !.pc = pc] \in KeyReqs
       /\ \A k \in Keys : [r EXCEPT !.key = k] \in KeyReqs
       /\ \A to \in {"active", "disabled", "revoked"} : [r EXCEPT !.to = to] \in KeyReqs
       /\ \A at \in Seconds : [r EXCEPT !.at = at] \in KeyReqs
       /\ \A b \in BOOLEAN : [r EXCEPT !.late = b] \in KeyReqs
<1>1. NoKeyReq \in KeyReqs
  BY Numbers DEF NoKeyReq, KeyReqs, Seconds
<1>. QED
  BY <1>1 DEF KeyReqs

\* The requests a user, an administrator or a caller starts with, and the one
\* of a rotation that has revoked its key.
CreateReq == [NoKeyReq EXCEPT !.pc = "insert"]
RotateReq(k) == [NoKeyReq EXCEPT !.pc = "rotate", !.key = k]
StateReq(k, to) == [NoKeyReq EXCEPT !.pc = "state", !.key = k, !.to = to]
RateReq(at) == [NoKeyReq EXCEPT !.pc = "rate", !.at = at]
RotatedReq(b) == [NoKeyReq EXCEPT !.pc = "insert", !.late = b]

LEMMA NewKeyReqs ==
  /\ NoKeyReq.pc = "idle"
  /\ CreateReq \in KeyReqs /\ CreateReq.pc = "insert" /\ ~CreateReq.late
  /\ \A k \in Keys : RotateReq(k) \in KeyReqs /\ RotateReq(k).pc = "rotate" /\ RotateReq(k).key = k
  /\ \A k \in Keys, to \in {"active", "disabled", "revoked"} :
       /\ StateReq(k, to) \in KeyReqs /\ StateReq(k, to).pc = "state"
       /\ StateReq(k, to).key = k /\ StateReq(k, to).to = to
  /\ \A at \in Seconds : RateReq(at) \in KeyReqs /\ RateReq(at).pc = "rate" /\ RateReq(at).at = at
  /\ \A b \in BOOLEAN : RotatedReq(b) \in KeyReqs /\ RotatedReq(b).pc = "insert" /\ RotatedReq(b).late = b
<1>1. CreateReq \in KeyReqs /\ CreateReq.pc = "insert" /\ ~CreateReq.late
  BY KeyReqRows DEF NoKeyReq, CreateReq
<1>2. ASSUME NEW k \in Keys
      PROVE  RotateReq(k) \in KeyReqs /\ RotateReq(k).pc = "rotate" /\ RotateReq(k).key = k
  <2>1. RotateReq(k) = [[NoKeyReq EXCEPT !.pc = "rotate"] EXCEPT !.key = k]
    BY DEF RotateReq
  <2>2. [[NoKeyReq EXCEPT !.pc = "rotate"] EXCEPT !.key = k] \in KeyReqs
    BY KeyReqRows
  <2>. QED
    BY <2>1, <2>2 DEF NoKeyReq
<1>3. ASSUME NEW k \in Keys, NEW to \in {"active", "disabled", "revoked"}
      PROVE  /\ StateReq(k, to) \in KeyReqs /\ StateReq(k, to).pc = "state"
             /\ StateReq(k, to).key = k /\ StateReq(k, to).to = to
  <2>1. StateReq(k, to) = [[[NoKeyReq EXCEPT !.pc = "state"] EXCEPT !.key = k] EXCEPT !.to = to]
    BY DEF StateReq
  <2>2. [[[NoKeyReq EXCEPT !.pc = "state"] EXCEPT !.key = k] EXCEPT !.to = to] \in KeyReqs
    BY KeyReqRows
  <2>. QED
    BY <2>1, <2>2 DEF NoKeyReq
<1>4. ASSUME NEW at \in Seconds
      PROVE  RateReq(at) \in KeyReqs /\ RateReq(at).pc = "rate" /\ RateReq(at).at = at
  <2>1. RateReq(at) = [[NoKeyReq EXCEPT !.pc = "rate"] EXCEPT !.at = at]
    BY DEF RateReq
  <2>2. [[NoKeyReq EXCEPT !.pc = "rate"] EXCEPT !.at = at] \in KeyReqs
    BY KeyReqRows
  <2>. QED
    BY <2>1, <2>2 DEF NoKeyReq
<1>5. ASSUME NEW b \in BOOLEAN
      PROVE  RotatedReq(b) \in KeyReqs /\ RotatedReq(b).pc = "insert" /\ RotatedReq(b).late = b
  <2>1. RotatedReq(b) = [[NoKeyReq EXCEPT !.pc = "insert"] EXCEPT !.late = b]
    BY DEF RotatedReq
  <2>2. [[NoKeyReq EXCEPT !.pc = "insert"] EXCEPT !.late = b] \in KeyReqs
    BY KeyReqRows
  <2>. QED
    BY <2>1, <2>2 DEF NoKeyReq
<1>6. NoKeyReq.pc = "idle"
  BY DEF NoKeyReq
<1>. QED
  BY <1>1, <1>2, <1>3, <1>4, <1>5, <1>6

LEMMA OvertakenTypes ==
  ASSUME NEW r \in [KeyThreads -> KeyReqs], NEW k
  PROVE  Overtaken(r, k) \in [KeyThreads -> KeyReqs]
<1>1. \A x \in KeyThreads : [r[x] EXCEPT !.late = TRUE] \in KeyReqs
  BY KeyReqRows
<1>. QED
  BY <1>1 DEF Overtaken

LEMMA OvertakenKeeps ==
  ASSUME NEW r \in [KeyThreads -> KeyReqs], NEW k, NEW t \in KeyThreads
  PROVE  LET q == Overtaken(r, k) IN
         /\ q[t].pc = r[t].pc /\ q[t].key = r[t].key /\ q[t].to = r[t].to /\ q[t].at = r[t].at
         /\ r[t].late => q[t].late
         /\ r[t].pc = "insert" \/ r[t].key = k => q[t].late
<1>1. CASE r[t].pc = "insert" \/ r[t].key = k
  <2>1. Overtaken(r, k)[t] = [r[t] EXCEPT !.late = TRUE]
    BY <1>1 DEF Overtaken
  <2>2. r[t] \in KeyReqs
    OBVIOUS
  <2>. QED
    BY <1>1, <2>1, <2>2 DEF KeyReqs
<1>2. CASE ~(r[t].pc = "insert" \/ r[t].key = k)
  <2>1. Overtaken(r, k)[t] = r[t]
    BY <1>2 DEF Overtaken
  <2>. QED
    BY <1>2, <2>1
<1>. QED
  BY <1>1, <1>2

\* A change of key k by the threads ts: it makes the others' readings of k late,
\* and their counts of the keys.
Changing(k, ts) ==
  /\ \A j \in Keys : j # k => key'[j] = key[j]
  /\ \A t \in KeyThreads \ ts :
       /\ keyReq'[t].pc = keyReq[t].pc /\ keyReq'[t].key = keyReq[t].key /\ keyReq'[t].to = keyReq[t].to
       /\ keyReq[t].late => keyReq'[t].late
       /\ keyReq[t].pc = "insert" \/ keyReq[t].key = k => keyReq'[t].late

LEMMA OvertakenChanges ==
  ASSUME NEW r \in [KeyThreads -> KeyReqs], NEW k, NEW ts, \A j \in Keys : j # k => key'[j] = key[j],
         \A t \in KeyThreads \ ts : r[t] = keyReq[t] /\ keyReq'[t] = Overtaken(r, k)[t]
  PROVE  Changing(k, ts)
BY OvertakenKeeps DEF Changing

LEMMA SelfChanges ==
  ASSUME keyReq \in [KeyThreads -> KeyReqs], NEW t \in KeyThreads, NEW k,
         \A j \in Keys : j # k => key'[j] = key[j],
         keyReq' = Overtaken([keyReq EXCEPT ![t] = NoKeyReq], k)
  PROVE  Changing(k, {t}) /\ keyReq' \in [KeyThreads -> KeyReqs] /\ keyReq'[t].pc = "idle"
<1>1. PICK r : r = [keyReq EXCEPT ![t] = NoKeyReq]
  OBVIOUS
<1>2. r \in [KeyThreads -> KeyReqs] /\ r[t] = NoKeyReq /\ \A x \in KeyThreads \ {t} : r[x] = keyReq[x]
  BY <1>1, KeyReqRows
<1>3. keyReq' = Overtaken(r, k) /\ keyReq' \in [KeyThreads -> KeyReqs]
  BY <1>1, <1>2, OvertakenTypes
<1>4. keyReq'[t].pc = "idle"
  BY <1>2, <1>3, OvertakenKeeps, NewKeyReqs
<1>5. Changing(k, {t})
  BY <1>2, <1>3, OvertakenChanges
<1>. QED
  BY <1>3, <1>4, <1>5

LEMMA ChangeKeeps ==
  ASSUME KeyReqInv, NEW k, NEW ts, Changing(k, ts)
  PROVE  /\ \A t \in KeyThreads \ ts : KeyReqCurrent(t)'
         /\ \A t \in KeyThreads \ ts : keyReq'[t].pc = "insert" => keyReq'[t].late
<1>. SUFFICES ASSUME NEW t \in KeyThreads \ ts
              PROVE  KeyReqCurrent(t)' /\ (keyReq'[t].pc = "insert" => keyReq'[t].late)
  OBVIOUS
<1>1. KeyReqCurrent(t)
  BY DEF KeyReqInv
<1>2. /\ keyReq'[t].pc = keyReq[t].pc /\ keyReq'[t].key = keyReq[t].key /\ keyReq'[t].to = keyReq[t].to
      /\ keyReq[t].late => keyReq'[t].late
      /\ keyReq[t].pc = "insert" \/ keyReq[t].key = k => keyReq'[t].late
  BY DEF Changing
<1>3. keyReq[t].key \in Keys /\ ~keyReq'[t].late => key'[keyReq[t].key] = key[keyReq[t].key]
  BY <1>2 DEF Changing
<1>. QED
  BY <1>1, <1>2, <1>3 DEF KeyReqCurrent

LEMMA ActiveFinite ==
  ASSUME NEW S \in SUBSET Keys
  PROVE  IsFiniteSet(S) /\ Cardinality(S) \in Nat
BY FS_Subset, FS_CardinalityType, ApiKeysAssumption

LEMMA ApiKeysStep ==
  ASSUME SubscriptionsTypeOK, ApiKeysInv, KeyRequest \/ KeyStep \/ UNCHANGED keyVars
  PROVE  ApiKeysInv'
<1>. USE DEF rateVars
<1>0. /\ keyReq \in [KeyThreads -> KeyReqs] /\ ActiveKeys \subseteq Keys /\ ActiveKeys' \subseteq Keys
      /\ now \in Seconds /\ KeyLimit \in Nat
      /\ ApiKeysTypeOK /\ KeyReqInv /\ KeysInv
      /\ key \in [Keys -> {"none", "active", "disabled", "revoked"}]
      /\ DOMAIN window \subseteq Seconds /\ granted \in [Seconds -> Nat]
      /\ overdue \subseteq Seconds /\ stale \in BOOLEAN
  BY ApiKeysAssumption DEF ApiKeysInv, ApiKeysTypeOK, KeyReqs, ActiveKeys, SubscriptionsTypeOK, Seconds
\* A thread that starts with a reading of the keys as they are.
<1>1. ASSUME NEW t \in KeyThreads, NEW r \in KeyReqs, KeyGoto(t, r), UNCHANGED <<key, stale, rateVars>>,
             KeyReqCurrent(t)', r.pc = "insert" => Cardinality(ActiveKeys) < KeyLimit
      PROVE  ApiKeysInv'
  <2>1. keyReq' \in [KeyThreads -> KeyReqs] /\ keyReq'[t] = r /\ \A x \in KeyThreads \ {t} : keyReq'[x] = keyReq[x]
    BY <1>0, <1>1 DEF KeyGoto
  <2>2. ApiKeysTypeOK'
    BY <1>0, <1>1, <2>1 DEF KeyReqs, ApiKeysTypeOK
  <2>3. KeyReqInv'
    BY <1>0, <1>1, <2>1 DEF KeyReqInv, KeyReqCurrent
  <2>4. KeysInv'
    BY <1>0, <1>1, <2>1 DEF KeysInv, ActiveKeys
  <2>. QED
    BY <1>0, <2>2, <2>3, <2>4 DEF ApiKeysInv
<1>2. ASSUME NEW t \in KeyThreads, CreateCheck(t)  PROVE ApiKeysInv'
  <2>1. KeyGoto(t, CreateReq) /\ UNCHANGED <<key, stale, rateVars>> /\ Cardinality(ActiveKeys) < KeyLimit
    BY <1>0, <1>2 DEF CreateCheck, CreateReq
  <2>2. keyReq'[t] = CreateReq
    BY <1>0, <2>1 DEF KeyGoto
  <2>3. KeyReqCurrent(t)'
    BY <1>0, <2>2, NewKeyReqs DEF KeyReqCurrent
  <2>. QED
    BY <1>0, <1>1, <2>1, <2>3, NewKeyReqs
<1>3. ASSUME NEW t \in KeyThreads, NEW k \in Keys, RotateRead(t, k)  PROVE ApiKeysInv'
  <2>1. KeyGoto(t, RotateReq(k)) /\ UNCHANGED <<key, stale, rateVars>> /\ key[k] = "active"
    BY <1>0, <1>3 DEF RotateRead, RotateReq
  <2>2. keyReq'[t] = RotateReq(k)
    BY <1>0, <2>1 DEF KeyGoto
  <2>3. keyReq'[t].pc = "rotate" /\ keyReq'[t].key = k
    BY <1>0, <2>2, NewKeyReqs
  <2>4. KeyReqCurrent(t)'
    BY <1>0, <2>1, <2>3 DEF KeyReqCurrent
  <2>. QED
    BY <1>0, <1>1, <2>1, <2>4, NewKeyReqs
<1>4. ASSUME NEW t \in KeyThreads, NEW k \in Keys, Authenticate(t, k)  PROVE ApiKeysInv'
  <2>1. KeyGoto(t, RateReq(now)) /\ UNCHANGED <<key, stale, rateVars>>
    BY <1>0, <1>4 DEF Authenticate, RateReq
  <2>2. keyReq'[t] = RateReq(now)
    BY <1>0, <2>1 DEF KeyGoto
  <2>3. KeyReqCurrent(t)'
    BY <1>0, <2>2, NewKeyReqs DEF KeyReqCurrent
  <2>. QED
    BY <1>0, <1>1, <2>1, <2>3, NewKeyReqs
<1>5. ASSUME NEW t \in KeyThreads, NEW k \in Keys, NEW to \in {"active", "disabled", "revoked"}, StateRead(t, k, to)
      PROVE  ApiKeysInv'
  <2>1. /\ KeyGoto(t, StateReq(k, to)) /\ UNCHANGED <<key, stale, rateVars>>
        /\ key[k] = "revoked" => to = "revoked"
    BY <1>0, <1>5 DEF StateRead, StateReq
  <2>2. keyReq'[t] = StateReq(k, to)
    BY <1>0, <2>1 DEF KeyGoto
  <2>3. keyReq'[t].pc = "state" /\ keyReq'[t].key = k /\ keyReq'[t].to = to
    BY <1>0, <2>2, NewKeyReqs
  <2>4. KeyReqCurrent(t)'
    BY <1>0, <2>1, <2>3 DEF KeyReqCurrent
  <2>. QED
    BY <1>0, <1>1, <2>1, <2>4, NewKeyReqs
<1>6. ASSUME NEW k \in Keys, RevokeKey(k)  PROVE ApiKeysInv'
  <2>1. Changing(k, {}) /\ keyReq' \in [KeyThreads -> KeyReqs]
    <3>1. keyReq' = Overtaken(keyReq, k) /\ \A j \in Keys : j # k => key'[j] = key[j]
      BY <1>0, <1>6 DEF RevokeKey
    <3>2. keyReq' \in [KeyThreads -> KeyReqs]
      <4>. SUFFICES Overtaken(keyReq, k) \in [KeyThreads -> KeyReqs]
        BY <1>0, <3>1
      <4>. QED
        BY <1>0, OvertakenTypes
    <3>. QED
      BY <1>0, <3>1, <3>2, OvertakenChanges
  <2>2. ActiveKeys' \subseteq ActiveKeys
    BY <1>0, <1>6 DEF RevokeKey, ActiveKeys
  <2>3. Cardinality(ActiveKeys') <= Cardinality(ActiveKeys)
    BY <1>0, <2>2, ActiveFinite, FS_Subset
  <2>4. ApiKeysTypeOK'
    BY <1>0, <1>6, <2>1 DEF RevokeKey, KeyReqs, ApiKeysTypeOK
  <2>5. KeyReqInv'
    BY <1>0, <2>1, ChangeKeeps DEF KeyReqInv
  <2>6. \A x \in KeyThreads : keyReq'[x].pc = "insert" => keyReq'[x].late
    BY <1>0, <2>1, ChangeKeeps
  <2>7. KeysInv'
    <3>1. stale' = stale
      BY <1>0, <1>6 DEF RevokeKey
    <3>2. Cardinality(ActiveKeys) \in Nat /\ Cardinality(ActiveKeys') \in Nat
      BY <1>0, ActiveFinite
    <3>. QED
      BY <1>0, <2>3, <2>6, <3>1, <3>2 DEF KeysInv
  <2>. QED
    BY <1>0, <2>4, <2>5, <2>7 DEF ApiKeysInv
<1>7. ASSUME NEW t \in KeyThreads, NEW k \in Keys, InsertKey(t, k)  PROVE ApiKeysInv'
  <2>1. [keyReq EXCEPT ![t] = NoKeyReq] \in [KeyThreads -> KeyReqs]
    BY <1>0, KeyReqRows
  <2>2. Changing(k, {t}) /\ keyReq' \in [KeyThreads -> KeyReqs] /\ keyReq'[t].pc = "idle"
    <3>1. NoKeyReq.pc = "idle"
      BY DEF NoKeyReq
    <3>. QED
      BY <1>0, <1>7, <2>1, <3>1, SelfChanges DEF InsertKey
  <2>3. ActiveKeys' = ActiveKeys \cup {k} /\ k \notin ActiveKeys
    BY <1>0, <1>7 DEF InsertKey, ActiveKeys
  <2>4. Cardinality(ActiveKeys') = Cardinality(ActiveKeys) + 1 /\ Cardinality(ActiveKeys) \in Nat
    BY <1>0, <2>3, ActiveFinite, FS_AddElement
  <2>5. ApiKeysTypeOK'
    <3>1. keyReq[t].late \in BOOLEAN
      BY <1>0, KeyReqRows
    <3>. QED
      BY <1>0, <1>7, <2>2, <3>1 DEF InsertKey, KeyReqs, ApiKeysTypeOK
  <2>6. KeyReqInv'
    <3>1. KeyReqCurrent(t)'
      BY <1>0, <2>2 DEF KeyReqCurrent
    <3>. QED
      BY <1>0, <2>2, <3>1, ChangeKeeps DEF KeyReqInv
  <2>7. KeysInv'
    <3>0. \A x \in KeyThreads \ {t} : keyReq'[x].pc = "insert" => keyReq'[x].late
      BY <1>0, <2>2, ChangeKeeps
    <3>1. ~stale' => ~stale /\ Cardinality(ActiveKeys) < KeyLimit
      BY <1>0, <1>7 DEF InsertKey, KeysInv
    <3>. QED
      BY <1>0, <2>2, <2>4, <3>0, <3>1 DEF KeysInv
  <2>. QED
    BY <1>0, <2>5, <2>6, <2>7 DEF ApiKeysInv
<1>8. ASSUME NEW t \in KeyThreads, RotateRevoke(t)  PROVE ApiKeysInv'
  <2>1. [keyReq EXCEPT ![t] = NoKeyReq] \in [KeyThreads -> KeyReqs]
    BY <1>0, KeyReqRows
  <2>2. PICK k \in Keys : k = keyReq[t].key
    BY <1>0, <1>8 DEF RotateRevoke, KeyReqInv, KeyReqCurrent
  <2>3. keyReq[t].late \in BOOLEAN
    BY <1>0, KeyReqRows
  <2>4. /\ Changing(k, {t}) /\ keyReq' \in [KeyThreads -> KeyReqs]
        /\ keyReq'[t].pc = "insert" /\ keyReq'[t].late = keyReq[t].late
    <3> DEFINE r == [keyReq EXCEPT ![t] = NoKeyReq]
               new == RotatedReq(keyReq[t].late)
    <3>1. keyReq' = [Overtaken(r, k) EXCEPT ![t] = new] /\ \A j \in Keys : j # k => key'[j] = key[j]
      BY <1>0, <1>8, <2>2 DEF RotateRevoke, RotatedReq
    <3>2. new \in KeyReqs /\ new.pc = "insert" /\ new.late = keyReq[t].late
      BY <1>0, <2>3, NewKeyReqs
    <3>3. Overtaken(r, k) \in [KeyThreads -> KeyReqs]
      BY <1>0, <2>1, OvertakenTypes
    <3>4. r \in [KeyThreads -> KeyReqs] /\ \A x \in KeyThreads \ {t} : r[x] = keyReq[x]
      BY <1>0, <2>1
    <3>. HIDE DEF r, new
    <3>5. /\ keyReq' \in [KeyThreads -> KeyReqs] /\ keyReq'[t] = new
          /\ \A x \in KeyThreads \ {t} : keyReq'[x] = Overtaken(r, k)[x]
      BY <1>0, <3>1, <3>2, <3>3
    <3>6. \A x \in KeyThreads \ {t} : r[x] = keyReq[x] /\ keyReq'[x] = Overtaken(r, k)[x]
      BY <1>0, <3>4, <3>5
    <3>7. Changing(k, {t})
      <4>. HIDE DEF KeyReqInv
      <4>. QED
        BY <1>0, <3>1, <3>4, <3>6, OvertakenChanges
    <3>. QED
      BY <1>0, <3>2, <3>5, <3>7
  <2>5. ActiveKeys' = ActiveKeys \ {k}
    BY <1>0, <1>8, <2>2 DEF RotateRevoke, ActiveKeys
  <2>6. /\ Cardinality(ActiveKeys) \in Nat /\ Cardinality(ActiveKeys') \in Nat
        /\ Cardinality(ActiveKeys') = IF k \in ActiveKeys THEN Cardinality(ActiveKeys) - 1 ELSE Cardinality(ActiveKeys)
    BY <1>0, <2>5, ActiveFinite, FS_RemoveElement
  <2>7. ApiKeysTypeOK'
    BY <1>0, <1>8, <2>2, <2>4 DEF RotateRevoke, KeyReqs, ApiKeysTypeOK
  <2>8. KeyReqInv'
    <3>1. KeyReqCurrent(t)'
      BY <1>0, <2>4 DEF KeyReqCurrent
    <3>. QED
      BY <1>0, <2>4, <3>1, ChangeKeeps DEF KeyReqInv
  <2>9. KeysInv'
    <3>0. \A x \in KeyThreads \ {t} : keyReq'[x].pc = "insert" => keyReq'[x].late
      BY <1>0, <2>4, ChangeKeeps
    <3>1. ~keyReq[t].late => k \in ActiveKeys
      BY <1>0, <1>8, <2>2 DEF RotateRevoke, KeyReqInv, KeyReqCurrent, ActiveKeys
    <3>2. stale' = stale
      BY <1>0, <1>8 DEF RotateRevoke
    <3>. QED
      BY <1>0, <2>4, <2>6, <3>0, <3>1, <3>2 DEF KeysInv
  <2>. QED
    BY <1>0, <2>7, <2>8, <2>9 DEF ApiKeysInv
<1>9. ASSUME NEW t \in KeyThreads, StateWrite(t)  PROVE ApiKeysInv'
  <2>1. [keyReq EXCEPT ![t] = NoKeyReq] \in [KeyThreads -> KeyReqs]
    BY <1>0, KeyReqRows
  <2>2. PICK k \in Keys : k = keyReq[t].key
    BY <1>0, <1>9 DEF StateWrite, Switching, KeyReqInv, KeyReqCurrent
  <2>3. keyReq[t].to \in {"active", "disabled", "revoked"}
    BY <1>0, <1>9 DEF StateWrite, Switching, KeyReqInv, KeyReqCurrent, KeyReqs
  <2>4. Changing(k, {t}) /\ keyReq' \in [KeyThreads -> KeyReqs] /\ keyReq'[t].pc = "idle"
    <3>1. NoKeyReq.pc = "idle"
      BY DEF NoKeyReq
    <3>. QED
      BY <1>0, <1>9, <2>1, <2>2, <3>1, SelfChanges DEF StateWrite
  <2>5. ~stale' => ~stale /\ ActiveKeys' \subseteq ActiveKeys
    BY <1>0, <1>9, <2>2 DEF StateWrite, ActiveKeys
  <2>6. ~stale' => Cardinality(ActiveKeys') <= Cardinality(ActiveKeys)
    BY <1>0, <2>5, ActiveFinite, FS_Subset
  <2>7. ApiKeysTypeOK'
    BY <1>0, <1>9, <2>2, <2>3, <2>4 DEF StateWrite, KeyReqs, ApiKeysTypeOK
  <2>8. KeyReqInv'
    <3>1. KeyReqCurrent(t)'
      BY <1>0, <2>4 DEF KeyReqCurrent
    <3>. QED
      BY <1>0, <2>4, <3>1, ChangeKeeps DEF KeyReqInv
  <2>9. KeysInv'
    <3>0. \A x \in KeyThreads \ {t} : keyReq'[x].pc = "insert" => keyReq'[x].late
      BY <1>0, <2>4, ChangeKeeps
    <3>1. Cardinality(ActiveKeys) \in Nat /\ Cardinality(ActiveKeys') \in Nat
      BY <1>0, ActiveFinite
    <3>. QED
      BY <1>0, <2>4, <2>5, <2>6, <3>0, <3>1 DEF KeysInv
  <2>. QED
    BY <1>0, <2>7, <2>8, <2>9 DEF ApiKeysInv
<1>10. ASSUME NEW t \in KeyThreads, ConsumeRate(t)  PROVE ApiKeysInv'
  <2>1. keyReq' \in [KeyThreads -> KeyReqs] /\ keyReq'[t].pc = "idle" /\ \A x \in KeyThreads \ {t} : keyReq'[x] = keyReq[x]
    <3>1. NoKeyReq.pc = "idle"
      BY DEF NoKeyReq
    <3>. QED
      BY <1>0, <1>10, <3>1, KeyReqRows DEF ConsumeRate, KeyGoto
  <2>2. keyReq[t].at \in Seconds
    BY <1>0, KeyReqRows
  <2>3. DOMAIN window' \subseteq Seconds
    BY <1>0, <1>10, <2>2 DEF ConsumeRate, Kept
  <2>4. granted' \in [Seconds -> Nat]
    <3>. DEFINE s == keyReq[t].at
                n == IF CountAt(s) < RateLimit THEN granted[s] + 1 ELSE granted[s]
    <3>1. granted[s] \in Nat /\ n \in {granted[s], granted[s] + 1}
      BY <1>0, <2>2
    <3>2. granted' = [granted EXCEPT ![s] = n]
      BY <1>0, <1>10 DEF ConsumeRate
    <3>3. n \in Nat
      BY <3>1
    <3>. HIDE DEF n
    <3>. QED
      BY <1>0, <2>2, <3>2, <3>3
  <2>5. ApiKeysTypeOK'
    BY <1>0, <1>10, <2>1, <2>2, <2>3, <2>4 DEF ConsumeRate, KeyReqs, ApiKeysTypeOK
  <2>6. KeyReqInv' /\ KeysInv'
    <3>1. UNCHANGED <<key, stale>> /\ ActiveKeys' = ActiveKeys
      BY <1>0, <1>10 DEF ConsumeRate, ActiveKeys
    <3>2. KeyReqInv'
      BY <1>0, <2>1, <3>1 DEF KeyReqInv, KeyReqCurrent
    <3>3. KeysInv'
      BY <1>0, <2>1, <3>1 DEF KeysInv
    <3>. QED
      BY <1>0, <3>2, <3>3
  <2>. QED
    BY <1>0, <2>5, <2>6 DEF ApiKeysInv
<1>11. CASE UNCHANGED keyVars
  BY <1>0, <1>11 DEF ApiKeysInv, ApiKeysTypeOK, keyVars, KeyReqInv, KeyReqCurrent, KeysInv, ActiveKeys
<1>. QED
  BY <1>2, <1>3, <1>4, <1>5, <1>6, <1>7, <1>8, <1>9, <1>10, <1>11 DEF KeyRequest, KeyStep

\* A key that was revoked is written only by a switch that has read it before.
LEMMA RevocationStep ==
  ASSUME ApiKeysTypeOK, KeyReqInv, KeyRequest \/ KeyStep,
         NEW k \in Keys, key[k] = "revoked", key'[k] # "revoked"
  PROVE  \E t \in Switching : keyReq[t].key = k /\ keyReq[t].late
<1>0. key \in [Keys -> {"none", "active", "disabled", "revoked"}] /\ key' # key
  BY DEF ApiKeysTypeOK
<1>1. ASSUME NEW j \in Keys, RevokeKey(j)  PROVE FALSE
  BY <1>0, <1>1 DEF RevokeKey
<1>2. ASSUME NEW t \in KeyThreads, NEW j \in Keys, InsertKey(t, j)  PROVE FALSE
  BY <1>0, <1>2 DEF InsertKey
<1>3. ASSUME NEW t \in KeyThreads, RotateRevoke(t)  PROVE FALSE
  BY <1>0, <1>3 DEF RotateRevoke
<1>4. ASSUME NEW t \in KeyThreads, StateWrite(t)
      PROVE  \E x \in Switching : keyReq[x].key = k /\ keyReq[x].late
  <2>1. t \in Switching /\ keyReq[t].key = k /\ keyReq[t].to # "revoked"
    BY <1>0, <1>4 DEF StateWrite
  <2>2. keyReq[t].late
    BY <2>1 DEF KeyReqInv, KeyReqCurrent, Switching
  <2>. QED
    BY <2>1, <2>2
<1>. QED
  BY <1>0, <1>1, <1>2, <1>3, <1>4
  DEF KeyRequest, KeyStep, CreateCheck, RotateRead, Authenticate, StateRead, ConsumeRate

-----------------------------------------------------------------------------
(* Proofs: the rate of requests *)

LEMMA RateStep ==
  ASSUME SubscriptionsTypeOK, ApiKeysTypeOK, RateInv, [Next]_vars
  PROVE  RateInv'
<1>. USE DEF rateVars
<1>0. /\ keyReq \in [KeyThreads -> KeyReqs] /\ now \in Seconds /\ Seconds \subseteq Nat
      /\ granted \in [Seconds -> Nat] /\ DOMAIN window \subseteq Seconds
      /\ RateLimit \in Nat \ {0}
  <2>1. now \in Seconds /\ Seconds \subseteq Nat
    BY Numbers DEF SubscriptionsTypeOK, Seconds
  <2>2. keyReq \in [KeyThreads -> KeyReqs] /\ granted \in [Seconds -> Nat] /\ DOMAIN window \subseteq Seconds
    BY DEF ApiKeysTypeOK, KeyReqs
  <2>. QED
    BY <2>1, <2>2, ApiKeysAssumption
<1>a. \A t \in KeyThreads : keyReq[t].at \in Seconds
  BY <1>0, KeyReqRows
\* A step at which no second's requests change, and no request starts to wait.
<1>1. ASSUME UNCHANGED <<now, rateVars>>,
             \A t \in KeyThreads : keyReq'[t].pc = "rate" => keyReq[t].pc = "rate" /\ keyReq'[t].at = keyReq[t].at
      PROVE  RateInv'
  BY <1>1 DEF RateInv, rateVars
<1>2. CASE KeyRequest /\ UNCHANGED now
  <2>1. ASSUME NEW t \in KeyThreads, CreateCheck(t)  PROVE RateInv'
    <3>1. KeyGoto(t, CreateReq)
      BY <2>1 DEF CreateCheck, CreateReq
    <3>. QED
      BY <1>0, <1>1, <1>2, <2>1, <3>1, NewKeyReqs DEF CreateCheck, KeyGoto
  <2>2. ASSUME NEW t \in KeyThreads, NEW k \in Keys, RotateRead(t, k)  PROVE RateInv'
    <3>1. KeyGoto(t, RotateReq(k)) /\ UNCHANGED rateVars
      BY <2>2 DEF RotateRead, RotateReq
    <3>. QED
      BY <1>0, <1>1, <1>2, <3>1, NewKeyReqs DEF KeyGoto
  <2>3. ASSUME NEW t \in KeyThreads, NEW k \in Keys, NEW to \in {"active", "disabled", "revoked"}, StateRead(t, k, to)
        PROVE  RateInv'
    <3>1. KeyGoto(t, StateReq(k, to)) /\ UNCHANGED rateVars
      BY <2>3 DEF StateRead, StateReq
    <3>. QED
      BY <1>0, <1>1, <1>2, <3>1, NewKeyReqs DEF KeyGoto
  <2>4. ASSUME NEW t \in KeyThreads, NEW k \in Keys, Authenticate(t, k)  PROVE RateInv'
    <3>1. KeyGoto(t, RateReq(now)) /\ UNCHANGED rateVars
      BY <2>4 DEF Authenticate, RateReq
    <3>2. keyReq'[t].at = now /\ \A x \in KeyThreads \ {t} : keyReq'[x] = keyReq[x]
      BY <1>0, <3>1, NewKeyReqs DEF KeyGoto
    <3>. QED
      BY <1>0, <1>2, <3>1, <3>2 DEF RateInv
  <2>5. ASSUME NEW k \in Keys, RevokeKey(k)  PROVE RateInv'
    <3>1. keyReq' = Overtaken(keyReq, k) /\ UNCHANGED rateVars
      BY <2>5 DEF RevokeKey
    <3>2. \A t \in KeyThreads : keyReq'[t].pc = keyReq[t].pc /\ keyReq'[t].at = keyReq[t].at
      BY <1>0, <3>1, OvertakenKeeps
    <3>. QED
      BY <1>1, <1>2, <3>1, <3>2
  <2>. QED
    BY <1>2, <2>1, <2>2, <2>3, <2>4, <2>5 DEF KeyRequest
<1>3. ASSUME NEW t \in KeyThreads, ConsumeRate(t), UNCHANGED now  PROVE RateInv'
  <2> DEFINE s == keyReq[t].at
             ok == CountAt(s) < RateLimit
  <2>1. s \in Seconds /\ s <= now
    BY <1>a, <1>3 DEF ConsumeRate, RateInv
  <2>2. ASSUME s \notin overdue, now <= s + 2  PROVE CountAt(s) = granted[s]
    <3>1. CASE s \in DOMAIN window
      BY <2>1, <2>2, <3>1 DEF CountAt, RateInv
    <3>2. CASE s \notin DOMAIN window
      <4>1. granted[s] = 0 \/ s + 2 < now
        BY <2>1, <2>2, <3>2 DEF RateInv
      <4>2. s \in Nat /\ now \in Nat
        BY <1>0, <1>a
      <4>. QED
        BY <2>2, <3>2, <4>1, <4>2 DEF CountAt
    <3>. QED
      BY <3>1, <3>2
  <2>3. \A x \in KeyThreads : keyReq'[x].pc = "rate" => keyReq'[x] = keyReq[x]
    BY <1>0, <1>3, NewKeyReqs DEF ConsumeRate, KeyGoto
  <2>4. /\ window' = [b \in Kept(s) \cup (IF ok THEN {s} ELSE {}) |-> IF b = s /\ ok THEN CountAt(s) + 1 ELSE window[b]]
        /\ granted' = [granted EXCEPT ![s] = IF ok THEN granted[s] + 1 ELSE granted[s]]
        /\ overdue' = IF ok /\ now > s + 2 THEN overdue \cup {s} ELSE overdue
    BY <1>3 DEF ConsumeRate
  <2>. HIDE DEF s
  <2>5. ASSUME NEW b \in Seconds \ overdue'
        PROVE  /\ granted'[b] <= RateLimit
               /\ IF b \in DOMAIN window' THEN window'[b] = granted'[b] ELSE granted'[b] = 0 \/ b + 2 < now
    <3>0. b \in Seconds /\ b \notin overdue
      BY <2>4
    <3>1. CASE b = s /\ ok
      <4>1. now <= s + 2
        BY <1>0, <2>1, <2>4, <3>1
      <4>2. CountAt(s) = granted[s]
        BY <2>2, <3>0, <3>1, <4>1
      <4>. QED
        BY <1>0, <2>1, <2>4, <3>0, <3>1, <4>2 DEF RateInv
    <3>2. CASE ~(b = s /\ ok)
      <4>1. granted'[b] = granted[b]
        BY <1>0, <2>1, <2>4, <3>2
      <4>2. CASE b \in DOMAIN window'
        <5>1. b \in DOMAIN window /\ window'[b] = window[b]
          BY <2>4, <3>2, <4>2 DEF Kept
        <5>. QED
          BY <3>0, <4>1, <4>2, <5>1 DEF RateInv
      <4>3. CASE b \notin DOMAIN window'
        <5>1. b \notin DOMAIN window \/ b + 2 < s
          BY <1>0, <2>1, <2>4, <4>3 DEF Kept
        <5>. QED
          BY <3>0, <1>0, <2>1, <4>1, <4>3, <5>1 DEF RateInv
      <4>. QED
        BY <4>2, <4>3
    <3>. QED
      BY <3>1, <3>2
  <2>. QED
    BY <1>3, <2>3, <2>5 DEF RateInv
<1>4. CASE KeyStep /\ UNCHANGED now
  <2>1. ASSUME NEW t \in KeyThreads, NEW k, keyReq' = Overtaken([keyReq EXCEPT ![t] = NoKeyReq], k),
               UNCHANGED rateVars
        PROVE  RateInv'
    <3>1. PICK r : r = [keyReq EXCEPT ![t] = NoKeyReq]
      OBVIOUS
    <3>2. r \in [KeyThreads -> KeyReqs] /\ r[t].pc = "idle" /\ \A x \in KeyThreads \ {t} : r[x] = keyReq[x]
      BY <1>0, <3>1, KeyReqRows, NewKeyReqs
    <3>3. \A x \in KeyThreads : keyReq'[x].pc = r[x].pc /\ keyReq'[x].at = r[x].at
      BY <2>1, <3>1, <3>2, OvertakenKeeps
    <3>. QED
      BY <1>1, <1>4, <2>1, <3>2, <3>3
  <2>2. ASSUME NEW t \in KeyThreads, NEW k \in Keys, InsertKey(t, k)  PROVE RateInv'
    BY <2>1, <2>2 DEF InsertKey
  <2>3. ASSUME NEW t \in KeyThreads, StateWrite(t)  PROVE RateInv'
    BY <2>1, <2>3 DEF StateWrite
  <2>4. ASSUME NEW t \in KeyThreads, RotateRevoke(t)  PROVE RateInv'
    <3>1. PICK r : r = [keyReq EXCEPT ![t] = NoKeyReq]
      OBVIOUS
    <3>2. r \in [KeyThreads -> KeyReqs] /\ r[t].pc = "idle" /\ \A x \in KeyThreads \ {t} : r[x] = keyReq[x]
      BY <1>0, <3>1, KeyReqRows, NewKeyReqs
    <3>3. /\ keyReq' = [Overtaken(r, keyReq[t].key) EXCEPT ![t] = RotatedReq(keyReq[t].late)]
          /\ UNCHANGED rateVars
      BY <2>4, <3>1 DEF RotateRevoke, RotatedReq
    <3>4. keyReq[t].late \in BOOLEAN /\ Overtaken(r, keyReq[t].key) \in [KeyThreads -> KeyReqs]
      BY <1>0, <3>2, KeyReqRows, OvertakenTypes
    <3>5. \A x \in KeyThreads \ {t} : keyReq'[x] = Overtaken(r, keyReq[t].key)[x]
      BY <3>3, <3>4
    <3>6. keyReq'[t].pc = "insert"
      BY <3>3, <3>4, NewKeyReqs
    <3>7. \A x \in KeyThreads \ {t} : keyReq'[x].pc = keyReq[x].pc /\ keyReq'[x].at = keyReq[x].at
      BY <3>2, <3>5, OvertakenKeeps
    <3>. QED
      BY <1>1, <1>4, <3>3, <3>6, <3>7
  <2>. QED
    BY <1>3, <1>4, <2>2, <2>3, <2>4 DEF KeyStep
<1>5. CASE Tick /\ UNCHANGED keyVars
  <2>1. now' = now + 1 /\ UNCHANGED <<keyReq, rateVars>>
    BY <1>5 DEF Tick, keyVars
  <2>2. ASSUME NEW t \in KeyThreads, keyReq[t].pc = "rate"  PROVE keyReq[t].at <= now + 1
    <3>1. keyReq[t].at \in Nat /\ now \in Nat /\ keyReq[t].at <= now
      BY <1>0, <1>a, <2>2 DEF RateInv
    <3>. QED
      BY <3>1
  <2>3. \A b \in Seconds : b + 2 < now => b + 2 < now + 1
    BY <1>0
  <2>. QED
    BY <2>1, <2>2, <2>3 DEF RateInv
<1>6. CASE UNCHANGED <<now, keyVars>>
  BY <1>1, <1>6 DEF keyVars
<1>7. SubscriptionRequest => UNCHANGED now
  BY DEF SubscriptionRequest, EnsureDevelopment, Settle, UpdatePlan, Upsert, GrantRead, RevokeGrant,
         Confirm, Unconfirm, CreatePayment
<1>. QED
  BY <1>2, <1>4, <1>5, <1>6, <1>7 DEF Next, Request, Step, GrantWrite, subscriptionVars, vars

-----------------------------------------------------------------------------
(* Proofs: embed applications *)

EmbedReqs == [pc : {"idle", "reserved", "again", "started"}, month : AllMonths]

LEMMA EmbedReqRows ==
  /\ NoEmbedReq \in EmbedReqs
  /\ \A m \in AllMonths : [pc |-> "reserved", month |-> m] \in EmbedReqs
  /\ \A r \in EmbedReqs, pc \in {"idle", "reserved", "again", "started"} :
       [r EXCEPT !.pc = pc] \in EmbedReqs /\ [r EXCEPT !.pc = pc].pc = pc /\ [r EXCEPT !.pc = pc].month = r.month
  /\ \A r \in EmbedReqs : r.month \in AllMonths
BY EmbedAppsAssumption DEF EmbedReqs, NoEmbedReq, AllMonths

\* What giving a place back does to the two sides of the balance.
LEMMA ReleaseEffect ==
  ASSUME EmbedAppsTypeOK, NEW t \in EmbedThreads, NEW b \in BOOLEAN, Release(t, b)
  PROVE  /\ used' \in [AllMonths -> Nat] /\ misgiven' \in Nat /\ misgiven <= misgiven'
         /\ \A m \in AllMonths :
              /\ used'[m] <= used[m]
              /\ used[m] + misgiven <= used'[m] + misgiven' + (IF b /\ embedReq[t].month = m THEN 1 ELSE 0)
<1>0. used \in [AllMonths -> Nat] /\ misgiven \in Nat /\ month \in AllMonths
  BY DEF EmbedAppsTypeOK
<1> DEFINE n == IF used[month] = 0 THEN 0 ELSE used[month] - 1
<1>1. n \in Nat /\ n <= used[month] /\ used[month] <= n + 1
  BY <1>0
<1>2. used' = [used EXCEPT ![month] = n]
  BY DEF Release
<1>3. misgiven' = IF b /\ embedReq[t].month = month THEN misgiven ELSE misgiven + 1
  BY DEF Release
<1>. HIDE DEF n
<1>4. used' \in [AllMonths -> Nat] /\ misgiven' \in Nat /\ misgiven <= misgiven'
  BY <1>0, <1>1, <1>2, <1>3
<1>5. ASSUME NEW m \in AllMonths
      PROVE  /\ used'[m] <= used[m]
             /\ used[m] + misgiven <= used'[m] + misgiven' + (IF b /\ embedReq[t].month = m THEN 1 ELSE 0)
  <2>1. CASE m = month
    BY <1>0, <1>1, <1>2, <1>3, <2>1
  <2>2. CASE m # month
    BY <1>0, <1>2, <1>3, <2>2
  <2>. QED
    BY <2>1, <2>2
<1>. QED
  BY <1>4, <1>5

\* A thread that holds no place any more, or never did, at most frees one.
LEMMA ReservedLeft ==
  ASSUME EmbedAppsTypeOK, NEW t \in EmbedThreads, NEW pc \in {"idle", "again", "started"}, EmbedGoto(t, pc),
         NEW m \in AllMonths, IsFiniteSet(Reserved(m))
  PROVE  /\ embedReq' \in [EmbedThreads -> EmbedReqs]
         /\ IsFiniteSet(Reserved(m)') /\ Cardinality(Reserved(m)) \in Nat /\ Cardinality(Reserved(m)') \in Nat
         /\ Cardinality(Reserved(m)') + (IF EmbedAt(t, "reserved") /\ embedReq[t].month = m THEN 1 ELSE 0)
              = Cardinality(Reserved(m))
<1>1. embedReq \in [EmbedThreads -> EmbedReqs]
  BY DEF EmbedAppsTypeOK, EmbedReqs
<1>2. /\ embedReq' \in [EmbedThreads -> EmbedReqs] /\ embedReq'[t].pc = pc
      /\ \A x \in EmbedThreads \ {t} : embedReq'[x] = embedReq[x]
  <2>a. embedReq[t] \in EmbedReqs
    BY <1>1
  <2>b. [embedReq[t] EXCEPT !.pc = pc] \in EmbedReqs /\ [embedReq[t] EXCEPT !.pc = pc].pc = pc
    BY <2>a DEF EmbedReqs
  <2>1. PICK r \in EmbedReqs : r = [embedReq[t] EXCEPT !.pc = pc] /\ r.pc = pc
    BY <2>b, Zenon
  <2>2. embedReq' = [embedReq EXCEPT ![t] = [embedReq[t] EXCEPT !.pc = pc]]
    BY DEF EmbedGoto
  <2>3. embedReq' = [embedReq EXCEPT ![t] = r]
    BY <2>1, <2>2
  <2>. QED
    BY <1>1, <2>1, <2>3
<1>3. Reserved(m)' = Reserved(m) \ {t}
  BY <1>2 DEF Reserved, EmbedAt
<1>4. t \in Reserved(m) <=> EmbedAt(t, "reserved") /\ embedReq[t].month = m
  BY DEF Reserved
<1>. QED
  BY <1>2, <1>3, <1>4, FS_RemoveElement, FS_CardinalityType

LEMMA EmbedAppsStep ==
  ASSUME EmbedAppsInv, EmbedRequest \/ EmbedStep \/ NextMonth \/ UNCHANGED embedVars
  PROVE  EmbedAppsInv'
<1>0. /\ appActive \in BOOLEAN /\ used \in [AllMonths -> Nat] /\ scans \in [AllMonths -> Nat]
      /\ month \in AllMonths /\ misgiven \in Nat /\ embedReq \in [EmbedThreads -> EmbedReqs]
      /\ EmbedAppsTypeOK /\ QuotaInv /\ Quota \in Nat /\ AllMonths \subseteq Nat
  BY EmbedAppsAssumption DEF EmbedAppsInv, EmbedAppsTypeOK, EmbedReqs, AllMonths
<1>a. \A m \in AllMonths : IsFiniteSet(Reserved(m)) /\ Cardinality(Reserved(m)) \in Nat
  BY <1>0, FS_CardinalityType DEF QuotaInv
<1>1. ASSUME UNCHANGED <<used, embedReq, scans, misgiven>>, appActive' \in BOOLEAN, month' \in AllMonths
      PROVE  EmbedAppsInv'
  <2>1. \A m \in AllMonths : Reserved(m)' = Reserved(m)
    BY <1>1 DEF Reserved, EmbedAt
  <2>. QED
    BY <1>0, <1>1, <2>1 DEF EmbedAppsInv, EmbedAppsTypeOK, QuotaInv
<1>2. CASE ToggleApp
  BY <1>0, <1>1, <1>2 DEF ToggleApp
<1>3. CASE NextMonth
  <2>1. month' \in AllMonths
    BY <1>0, <1>3, EmbedAppsAssumption DEF NextMonth, AllMonths
  <2>. QED
    BY <1>0, <1>1, <1>3, <2>1 DEF NextMonth
<1>4. ASSUME NEW t \in EmbedThreads, Reserve(t)  PROVE EmbedAppsInv'
  <2>1. /\ used' = [used EXCEPT ![month] = used[month] + 1] /\ used[month] < Quota
        /\ embedReq' = [embedReq EXCEPT ![t] = [pc |-> "reserved", month |-> month]]
        /\ UNCHANGED <<appActive, month, scans, misgiven>> /\ embedReq[t].pc = "idle"
    BY <1>4 DEF Reserve, EmbedAt
  <2>2. embedReq' \in [EmbedThreads -> EmbedReqs] /\ used' \in [AllMonths -> Nat]
    BY <1>0, <2>1, EmbedReqRows
  <2>3. EmbedAppsTypeOK'
    BY <1>0, <2>1, <2>2 DEF EmbedAppsTypeOK, EmbedReqs
  <2>4. ASSUME NEW m \in AllMonths
        PROVE  /\ IsFiniteSet(Reserved(m)') /\ used'[m] <= Quota
               /\ scans'[m] + Cardinality(Reserved(m)') <= used'[m] + misgiven'
    <3>1. IsFiniteSet(Reserved(m)) /\ used[m] <= Quota /\ scans[m] + Cardinality(Reserved(m)) <= used[m] + misgiven
      BY <1>0 DEF QuotaInv
    <3>2. CASE m = month
      <4>1. Reserved(m)' = Reserved(m) \cup {t} /\ t \notin Reserved(m)
        BY <1>0, <2>1, <3>2 DEF Reserved, EmbedAt
      <4>2. IsFiniteSet(Reserved(m)') /\ Cardinality(Reserved(m)') = Cardinality(Reserved(m)) + 1
        BY <3>1, <4>1, FS_AddElement
      <4>. QED
        BY <1>0, <1>a, <2>1, <3>1, <3>2, <4>2
    <3>3. CASE m # month
      <4>1. Reserved(m)' = Reserved(m)
        BY <1>0, <2>1, <3>3 DEF Reserved, EmbedAt
      <4>. QED
        BY <1>0, <2>1, <3>1, <3>3, <4>1
    <3>. QED
      BY <3>2, <3>3
  <2>. QED
    BY <2>3, <2>4 DEF EmbedAppsInv, QuotaInv
\* A place is given back: rightly by who reserved it, wrongly by any other.
<1>5. ASSUME NEW t \in EmbedThreads, NEW b \in BOOLEAN, NEW pc \in {"idle", "again"}, b => EmbedAt(t, "reserved"),
             Release(t, b), EmbedGoto(t, pc), UNCHANGED <<appActive, month, scans>>
      PROVE  EmbedAppsInv'
  <2>1. /\ used' \in [AllMonths -> Nat] /\ misgiven' \in Nat /\ misgiven <= misgiven'
        /\ \A m \in AllMonths :
             /\ used'[m] <= used[m]
             /\ used[m] + misgiven <= used'[m] + misgiven' + (IF b /\ embedReq[t].month = m THEN 1 ELSE 0)
    BY <1>0, <1>5, ReleaseEffect
  <2>2. embedReq' \in [EmbedThreads -> EmbedReqs]
    BY <1>0, <1>5, EmbedReqRows DEF EmbedGoto
  <2>3. EmbedAppsTypeOK'
    BY <1>0, <1>5, <2>1, <2>2 DEF EmbedAppsTypeOK, EmbedReqs
  <2>4. ASSUME NEW m \in AllMonths
        PROVE  /\ IsFiniteSet(Reserved(m)') /\ used'[m] <= Quota
               /\ scans'[m] + Cardinality(Reserved(m)') <= used'[m] + misgiven'
    <3>1. IsFiniteSet(Reserved(m)) /\ used[m] <= Quota /\ scans[m] + Cardinality(Reserved(m)) <= used[m] + misgiven
      BY <1>0 DEF QuotaInv
    <3>2. /\ IsFiniteSet(Reserved(m)') /\ Cardinality(Reserved(m)) \in Nat /\ Cardinality(Reserved(m)') \in Nat
          /\ Cardinality(Reserved(m)') + (IF EmbedAt(t, "reserved") /\ embedReq[t].month = m THEN 1 ELSE 0)
               = Cardinality(Reserved(m))
      BY <1>0, <1>5, <3>1, ReservedLeft
    <3>3. used[m] \in Nat /\ used'[m] \in Nat /\ scans[m] \in Nat /\ scans' = scans
      BY <1>0, <1>5, <2>1
    <3>4. used'[m] <= used[m]
          /\ used[m] + misgiven <= used'[m] + misgiven' + (IF b /\ embedReq[t].month = m THEN 1 ELSE 0)
      BY <2>1
    <3>. QED
      BY <1>0, <1>5, <2>1, <3>1, <3>2, <3>3, <3>4
  <2>. QED
    BY <2>3, <2>4 DEF EmbedAppsInv, QuotaInv
<1>6. ASSUME NEW t \in EmbedThreads, Refuse(t) \/ StartFails(t)  PROVE EmbedAppsInv'
  BY <1>5, <1>6 DEF Refuse, StartFails
<1>7. ASSUME NEW t \in EmbedThreads, ReleaseAgain(t) \/ FinishFails(t)  PROVE EmbedAppsInv'
  BY <1>5, <1>7 DEF ReleaseAgain, FinishFails
<1>8. ASSUME NEW t \in EmbedThreads, StartScan(t) \/ FinishEmbed(t)  PROVE EmbedAppsInv'
  <2>1. PICK pc \in {"idle", "started"} :
          /\ EmbedGoto(t, pc) /\ UNCHANGED <<appActive, used, month, misgiven>>
          /\ IF pc = "started" THEN EmbedAt(t, "reserved") /\ scans' = [scans EXCEPT ![embedReq[t].month] = @ + 1]
                               ELSE EmbedAt(t, "started") /\ scans' = scans
    BY <1>8 DEF StartScan, FinishEmbed
  <2>2. embedReq' \in [EmbedThreads -> EmbedReqs] /\ embedReq[t].month \in AllMonths
    BY <1>0, <2>1, EmbedReqRows DEF EmbedGoto
  <2>3. scans' \in [AllMonths -> Nat]
    BY <1>0, <2>1, <2>2
  <2>4. EmbedAppsTypeOK'
    BY <1>0, <2>1, <2>2, <2>3 DEF EmbedAppsTypeOK, EmbedReqs
  <2>5. ASSUME NEW m \in AllMonths
        PROVE  /\ IsFiniteSet(Reserved(m)') /\ used'[m] <= Quota
               /\ scans'[m] + Cardinality(Reserved(m)') <= used'[m] + misgiven'
    <3>1. IsFiniteSet(Reserved(m)) /\ used[m] <= Quota /\ scans[m] + Cardinality(Reserved(m)) <= used[m] + misgiven
      BY <1>0 DEF QuotaInv
    <3>2. /\ IsFiniteSet(Reserved(m)') /\ Cardinality(Reserved(m)) \in Nat /\ Cardinality(Reserved(m)') \in Nat
          /\ Cardinality(Reserved(m)') + (IF EmbedAt(t, "reserved") /\ embedReq[t].month = m THEN 1 ELSE 0)
               = Cardinality(Reserved(m))
      BY <1>0, <2>1, <3>1, ReservedLeft
    <3>3. scans'[m] = scans[m] + (IF pc = "started" /\ embedReq[t].month = m THEN 1 ELSE 0) /\ scans[m] \in Nat
      BY <1>0, <2>1, <2>2
    <3>4. pc = "started" <=> EmbedAt(t, "reserved")
      BY <2>1 DEF EmbedAt
    <3>. QED
      BY <1>0, <2>1, <3>1, <3>2, <3>3, <3>4
  <2>. QED
    BY <2>4, <2>5 DEF EmbedAppsInv, QuotaInv
<1>9. CASE UNCHANGED embedVars
  BY <1>0, <1>1, <1>9 DEF embedVars
<1>. QED
  BY <1>2, <1>3, <1>4, <1>6, <1>7, <1>8, <1>9 DEF EmbedRequest, EmbedStep

-----------------------------------------------------------------------------
(* The theorems *)

LEMMA InvInit ==
  ASSUME Init
  PROVE  IInv /\ RateInv
<1>1. SubscriptionsInv
  <2>1. sub \in Subscription \cup {NoSub} /\ sub.by = 0
    BY Numbers, SubscriptionsAssumption
    DEF Init, SubscriptionsInit, Development, NoSub, Subscription, SubStatuses
  <2>2. /\ granting \in [g : 0..MaxGrants, plan : Plans \cup {"none"}, ends : 0..MaxEnd,
                         prev : Subscription \cup {NoSub}]
        /\ Unlocked
    BY Numbers DEF Init, SubscriptionsInit, NotGranting, Unlocked
  <2>3. grant \in [Grants -> [state : {"none", "active", "revoked"}, prev : Subscription \cup {NoSub}]]
        /\ \A g \in Grants : grant[g].state = "none"
    BY DEF Init, SubscriptionsInit, NoGrant
  <2>4. payment \in [Payments -> PaymentRow] /\ PaymentsCredited
    BY DEF Init, SubscriptionsInit, NoPayment, PaymentRow, PaymentsCredited
  <2>5. SubscriptionsTypeOK
    <3>1. onSale \subseteq Plans /\ disordered \in BOOLEAN /\ now = 0
      BY DEF Init, SubscriptionsInit
    <3>2. now \in 0..MaxTime
      BY <3>1, Numbers
    <3>. QED
      BY <2>1, <2>2, <2>3, <2>4, <3>1, <3>2 DEF SubscriptionsTypeOK, PaymentRow
  <2>. QED
    BY <2>1, <2>2, <2>3, <2>4, <2>5 DEF SubscriptionsInv, GrantingInv, GrantsInOrder, GrantsInv, Backed
<1>2. /\ keyReq \in [KeyThreads -> KeyReqs] /\ \A t \in KeyThreads : keyReq[t].pc = "idle"
      /\ DOMAIN window = {} /\ granted \in [Seconds -> Nat] /\ \A s \in Seconds : granted[s] = 0
  BY KeyReqRows, NewKeyReqs DEF Init, ApiKeysInit
<1>3. ApiKeysInv
  <2>1. ApiKeysTypeOK
    BY <1>2 DEF Init, ApiKeysInit, ApiKeysTypeOK, KeyReqs
  <2>. QED
    BY <1>2, <2>1 DEF Init, ApiKeysInit, ApiKeysInv, KeyReqInv, KeyReqCurrent, KeysInv
<1>4. RateInv
  BY <1>2, ApiKeysAssumption DEF RateInv
<1>5. EmbedAppsInv
  <2>1. embedReq \in [EmbedThreads -> EmbedReqs] /\ \A t \in EmbedThreads : embedReq[t].pc = "idle"
    BY EmbedReqRows DEF Init, EmbedAppsInit, NoEmbedReq
  <2>2. EmbedAppsTypeOK
    BY <2>1, EmbedAppsAssumption DEF Init, EmbedAppsInit, EmbedAppsTypeOK, EmbedReqs, AllMonths
  <2>3. \A m \in AllMonths : Reserved(m) = {}
    BY <2>1 DEF Reserved, EmbedAt
  <2>4. QuotaInv
    BY <2>3, EmbedAppsAssumption, FS_EmptySet DEF QuotaInv, Init, EmbedAppsInit
  <2>. QED
    BY <2>2, <2>4 DEF EmbedAppsInv
<1>6. requests \in 0..MaxRequests
  BY PlatformAssumption DEF Init
<1>. QED
  BY <1>1, <1>3, <1>4, <1>5, <1>6 DEF IInv

LEMMA InvStep ==
  ASSUME IInv, [Next]_vars
  PROVE  IInv'
<1>1. SubscriptionRequest \/ GrantWrite \/ Tick \/ UNCHANGED subscriptionVars
  BY DEF Next, Request, Step, vars
<1>2. KeyRequest \/ KeyStep \/ UNCHANGED keyVars
  BY DEF Next, Request, Step, vars
<1>3. EmbedRequest \/ EmbedStep \/ NextMonth \/ UNCHANGED embedVars
  BY DEF Next, Request, Step, vars
<1>4. SubscriptionsInv'
  BY <1>1, SubscriptionsTypeStep, PaymentsStep, GrantsStep DEF IInv, SubscriptionsInv
<1>5. ApiKeysInv'
  BY <1>2, ApiKeysStep DEF IInv, SubscriptionsInv
<1>6. EmbedAppsInv'
  BY <1>3, EmbedAppsStep DEF IInv
<1>7. requests' \in 0..MaxRequests
  BY PlatformAssumption DEF IInv, Next, Request, Step, vars
<1>. QED
  BY <1>4, <1>5, <1>6, <1>7 DEF IInv

\* The inductive invariant behind the theorems below: of three parts, of which
\* the subscriptions and the embedded scans stand alone and the keys rest on the
\* type of the clock.
THEOREM InductiveInvariant == Spec => []IInv
<1>1. Init => IInv
  BY InvInit
<1>2. IInv /\ [Next]_vars => IInv'
  BY InvStep
<1>. QED
  BY <1>1, <1>2, PTL DEF Spec

\* Every row and every request of the three components keeps its type.
THEOREM TypeCorrect == Spec => []TypeOK
<1>1. IInv => TypeOK
  BY DEF IInv, SubscriptionsInv, ApiKeysInv, EmbedAppsInv, TypeOK
<1>. QED
  BY <1>1, InductiveInvariant, PTL

\* However administrators confirm and take back a payment, it has extended the
\* subscription exactly once since it was last not confirmed.
THEOREM PaymentsCountOnce == Spec => []PaymentsCredited
<1>1. IInv => PaymentsCredited
  BY DEF IInv, SubscriptionsInv
<1>. QED
  BY <1>1, InductiveInvariant, PTL

\* A subscription outlives the grant it comes from only when grants were revoked
\* in another order than the reverse of the one they were made in.
THEOREM GrantsAreTakenBack == Spec => []GrantsEnd
<1>1. IInv => GrantsEnd
  BY DEF IInv, SubscriptionsInv, GrantsInv, GrantsEnd, Backed
<1>. QED
  BY <1>1, InductiveInvariant, PTL

\* A user has at most KeyLimit active keys, but for keys inserted on an outdated
\* count and those an administrator enabled.
THEOREM KeysStayLimited == Spec => []KeysLimited
<1>1. IInv => KeysLimited
  BY DEF IInv, ApiKeysInv, KeysInv, KeysLimited
<1>. QED
  BY <1>1, InductiveInvariant, PTL

\* Only a switch that had read the key before its revocation brings it back.
THEOREM RevocationsStand == Spec => RevokedIsRevoked
<1>1. IInv /\ [Next]_vars =>
        [\A k \in Keys : key[k] = "revoked" /\ key'[k] # "revoked" =>
           \E t \in Switching : keyReq[t].key = k /\ keyReq[t].late]_key
  <2>. SUFFICES ASSUME IInv, [Next]_vars, key' # key, NEW k \in Keys, key[k] = "revoked", key'[k] # "revoked"
                PROVE  \E t \in Switching : keyReq[t].key = k /\ keyReq[t].late
    OBVIOUS
  <2>1. KeyRequest \/ KeyStep
    BY DEF Next, Request, Step, vars, keyVars
  <2>. QED
    BY <2>1, RevocationStep DEF IInv, ApiKeysInv
<1>. QED
  BY <1>1, InductiveInvariant, PTL DEF Spec, RevokedIsRevoked

\* No key gets more requests through in a second than its plan has, for any
\* number of threads and any waits for the lock, but in the seconds of a request
\* that waited more than two seconds and was let through.
THEOREM RatesAreKept == Spec => []RateKept
<1>1. Init => RateInv
  BY InvInit
<1>2. TypeOK /\ RateInv /\ [Next]_vars => RateInv'
  BY RateStep DEF TypeOK
<1>3. RateInv => RateKept
  BY DEF RateInv, RateKept
<1>. QED
  BY <1>1, <1>2, <1>3, TypeCorrect, PTL DEF Spec

\* An application starts no more scans in a month than its quota, but for those
\* whose place was given away wrongly.
THEOREM QuotasAreKept == Spec => []QuotaKept
<1>1. IInv => QuotaKept
  <2>. SUFFICES ASSUME IInv, NEW m \in AllMonths  PROVE scans[m] <= Quota + misgiven
    BY DEF QuotaKept
  <2>1. /\ used[m] <= Quota /\ scans[m] + Cardinality(Reserved(m)) <= used[m] + misgiven
        /\ IsFiniteSet(Reserved(m))
    BY DEF IInv, EmbedAppsInv, QuotaInv
  <2>2. used[m] \in Nat /\ scans[m] \in Nat /\ misgiven \in Nat
    BY DEF IInv, EmbedAppsInv, EmbedAppsTypeOK
  <2>3. Cardinality(Reserved(m)) \in Nat
    BY <2>1, FS_CardinalityType
  <2>. QED
    BY <2>1, <2>2, <2>3, EmbedAppsAssumption
<1>. QED
  BY <1>1, InductiveInvariant, PTL
=============================================================================

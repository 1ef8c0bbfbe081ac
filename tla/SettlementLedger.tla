--------------------------- MODULE SettlementLedger ---------------------------
(***************************************************************************)
(* What billing promises, with the threads, the chain and the clock left   *)
(* out: an invoice belongs to one user, at most one transfer is ever       *)
(* posted to it, no transfer is posted twice, and each posting extends its *)
(* user's subscription by one period.                                      *)
(***************************************************************************)
EXTENDS Naturals

CONSTANTS Invoices, Txs, Users, NoTx, NoUser

VARIABLES
  owner,   \* invoice -> user, NoUser until it is issued
  ledger,  \* invoice -> the transfer posted to it, NoTx when none
  periods  \* user -> periods credited

ledgerVars == <<owner, ledger, periods>>

Init ==
  /\ owner = [i \in Invoices |-> NoUser]
  /\ ledger = [i \in Invoices |-> NoTx]
  /\ periods = [u \in Users |-> 0]

Issue(i, u) ==
  /\ owner[i] = NoUser
  /\ owner' = [owner EXCEPT ![i] = u]
  /\ UNCHANGED <<ledger, periods>>

Post(i, t) ==
  /\ owner[i] # NoUser
  /\ ledger[i] = NoTx /\ \A j \in Invoices : ledger[j] # t
  /\ ledger' = [ledger EXCEPT ![i] = t]
  /\ periods' = [periods EXCEPT ![owner[i]] = @ + 1]
  /\ UNCHANGED owner

Next ==
  \/ \E i \in Invoices, u \in Users : Issue(i, u)
  \/ \E i \in Invoices, t \in Txs : Post(i, t)

Spec == Init /\ [][Next]_ledgerVars
===============================================================================

------------------------------ MODULE Platform -------------------------------
(***************************************************************************)
(* Subscriptions, API keys and embed applications together: what the       *)
(* administration (service/admin.py) writes while users and partners are   *)
(* served by other threads of the same process.                            *)
(***************************************************************************)
EXTENDS ApiKeys, EmbedApps

CONSTANT MaxRequests  \* bound: requests that start

ASSUME PlatformAssumption == MaxRequests \in Nat

VARIABLE requests  \* requests started

vars == <<subscriptionVars, keyVars, embedVars, requests>>

TypeOK ==
  /\ SubscriptionsTypeOK /\ ApiKeysTypeOK /\ EmbedAppsTypeOK
  /\ requests \in 0..MaxRequests

Init == SubscriptionsInit /\ ApiKeysInit /\ EmbedAppsInit /\ requests = 0

Request ==
  /\ requests < MaxRequests /\ requests' = requests + 1
  /\ \/ SubscriptionRequest /\ UNCHANGED <<keyVars, embedVars>>
     \/ KeyRequest /\ UNCHANGED <<subscriptionVars, embedVars>>
     \/ EmbedRequest /\ UNCHANGED <<subscriptionVars, keyVars>>

Step ==
  /\ UNCHANGED requests
  /\ \/ (GrantWrite \/ Tick) /\ UNCHANGED <<keyVars, embedVars>>
     \/ KeyStep /\ UNCHANGED <<subscriptionVars, embedVars>>
     \/ (EmbedStep \/ NextMonth) /\ UNCHANGED <<subscriptionVars, keyVars>>

Next == Request \/ Step

Spec == Init /\ [][Next]_vars
=============================================================================

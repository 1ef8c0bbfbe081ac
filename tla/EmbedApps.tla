------------------------------ MODULE EmbedApps ------------------------------
(***************************************************************************)
(* An application that embeds the scanner, and its monthly quota           *)
(* (service/admin.py, the handler of /v1/embed/scans in service/http.py).  *)
(*                                                                         *)
(* The place of a scan is reserved before the request is looked at, and    *)
(* given back by the handlers of whatever goes wrong after it.  A method   *)
(* of the admin store is one step.                                         *)
(***************************************************************************)
EXTENDS Naturals, FiniteSets

CONSTANTS
  EmbedThreads,  \* HTTP threads that serve requests for embedded scans
  Quota,         \* monthly_quota; an unlimited one is never refused
  Months         \* bound: 1..n

ASSUME EmbedAppsAssumption == Quota \in Nat /\ Months \in Nat \ {0}

VARIABLES
  appActive,  \* embed_apps.active
  used,       \* embed_usage_monthly.scans_submitted, per month
  month,      \* the month it is
  embedReq,   \* thread -> step of its request, and the month it reserved in
  scans,      \* scans started, by the month of their place
  misgiven    \* places given back that were not the request's to give

embedVars == <<appActive, used, month, embedReq, scans, misgiven>>

AllMonths == 1..Months
NoEmbedReq == [pc |-> "idle", month |-> 1]

EmbedAppsTypeOK ==
  /\ appActive \in BOOLEAN
  /\ used \in [AllMonths -> Nat] /\ scans \in [AllMonths -> Nat]
  /\ month \in AllMonths /\ misgiven \in Nat
  /\ embedReq \in [EmbedThreads -> [pc : {"idle", "reserved", "again", "started"}, month : AllMonths]]

EmbedAppsInit ==
  /\ appActive = TRUE /\ month = 1 /\ misgiven = 0
  /\ used = [m \in AllMonths |-> 0] /\ scans = [m \in AllMonths |-> 0]
  /\ embedReq = [t \in EmbedThreads |-> NoEmbedReq]

EmbedAt(t, pc) == embedReq[t].pc = pc
EmbedGoto(t, pc) == embedReq' = [embedReq EXCEPT ![t].pc = pc]

\* toggle_embed_app
ToggleApp ==
  /\ appActive' = ~appActive
  /\ UNCHANGED <<used, month, embedReq, scans, misgiven>>

NextMonth ==
  /\ month < Months /\ month' = month + 1
  /\ UNCHANGED <<appActive, used, embedReq, scans, misgiven>>

\* Mutant: one place too many.
ReserveOver(t) ==
  /\ EmbedAt(t, "idle") /\ appActive /\ used[month] <= Quota
  /\ used' = [used EXCEPT ![month] = @ + 1]
  /\ embedReq' = [embedReq EXCEPT ![t] = [pc |-> "reserved", month |-> month]]
  /\ UNCHANGED <<appActive, month, scans, misgiven>>

\* reserve_embed_scan
Reserve(t) ==
  /\ EmbedAt(t, "idle") /\ appActive /\ used[month] < Quota
  /\ used' = [used EXCEPT ![month] = @ + 1]
  /\ embedReq' = [embedReq EXCEPT ![t] = [pc |-> "reserved", month |-> month]]
  /\ UNCHANGED <<appActive, month, scans, misgiven>>

\* release_reserved_embed_scan: of the month it is now.
Release(t, rightly) ==
  /\ used' = [used EXCEPT ![month] = IF @ = 0 THEN 0 ELSE @ - 1]
  /\ misgiven' = IF rightly /\ embedReq[t].month = month THEN misgiven ELSE misgiven + 1

\* The address or the network is refused: the outer handlers give the place back.
Refuse(t) ==
  /\ EmbedAt(t, "reserved")
  /\ Release(t, TRUE) /\ EmbedGoto(t, "idle")
  /\ UNCHANGED <<appActive, month, scans>>

\* ScanService.submit
StartScan(t) ==
  /\ EmbedAt(t, "reserved") /\ EmbedGoto(t, "started")
  /\ scans' = [scans EXCEPT ![embedReq[t].month] = @ + 1]
  /\ UNCHANGED <<appActive, used, month, misgiven>>

\* submit raises: the inner handler gives the place back and raises again...
StartFails(t) ==
  /\ EmbedAt(t, "reserved") /\ EmbedGoto(t, "again")
  /\ Release(t, TRUE)
  /\ UNCHANGED <<appActive, month, scans>>

\* ...and the outer one gives it back once more.
ReleaseAgain(t) ==
  /\ EmbedAt(t, "again") /\ EmbedGoto(t, "idle")
  /\ Release(t, FALSE)
  /\ UNCHANGED <<appActive, month, scans>>

\* bind_embed_job, record_embed_event and the reply.
FinishEmbed(t) ==
  /\ EmbedAt(t, "started") /\ EmbedGoto(t, "idle")
  /\ UNCHANGED <<appActive, used, month, scans, misgiven>>

\* One of them fails: the place of a scan that runs is given back.
FinishFails(t) ==
  /\ EmbedAt(t, "started") /\ EmbedGoto(t, "idle")
  /\ Release(t, FALSE)
  /\ UNCHANGED <<appActive, month, scans>>

EmbedRequest == ToggleApp \/ \E t \in EmbedThreads : Reserve(t)

EmbedStep == \E t \in EmbedThreads :
  \/ Refuse(t) \/ StartScan(t) \/ StartFails(t) \/ ReleaseAgain(t)
  \/ FinishEmbed(t) \/ FinishFails(t)

\* An application starts no more scans in a month than its quota, but for those
\* whose place was given away wrongly: twice after a failed start, for a scan
\* that runs, or in another month than it was taken.
QuotaKept == \A m \in AllMonths : scans[m] <= Quota + misgiven
=============================================================================

----------------------------- MODULE RpcRouting ------------------------------
(***************************************************************************)
(* The calls of AlchemyGateway (core/alchemy_gateway.py): a cache in front *)
(* of MultiProviderRpc (core/multi_provider.py), which tries providers in  *)
(* turn and leaves one alone for a while after it failed.                  *)
(*                                                                         *)
(* Scan threads share one gateway.  Times are kept as ages and remainders, *)
(* so that the clock never has to stop.  A value is as old as the moment   *)
(* at which the provider read it.                                          *)
(***************************************************************************)
EXTENDS Naturals, FiniteSets

CONSTANTS
  N,           \* providers, numbered 0 .. N-1
  Keys,        \* methods with parameters
  MaxEntries,  \* max_cache_entries
  TTL,         \* cache_ttl_seconds
  Threshold,   \* failure_threshold
  CoolDown,    \* cool_down_seconds
  MethodCool,  \* the same for a method a provider lacks: four times as long
  Threads,
  MaxFetch,    \* bound: time a provider takes, with its retries (its timeouts)
  MaxChanges   \* bound: times providers come and go

ASSUME RpcAssumption ==
  /\ Keys # {} /\ {N, MaxEntries, Threshold} \subseteq Nat \ {0}
  /\ {TTL, CoolDown, MethodCool, MaxFetch, MaxChanges} \subseteq Nat

VARIABLES
  cache,      \* key -> the age of the entry and of its value
  fails,      \* ProviderHealth.failures, up to Threshold
  open,       \* time left until open_until
  method,     \* time left until method_unavailable_until
  preferred,  \* _preferred_index
  call,       \* thread -> its call
  up,         \* providers that answer
  changes

vars == <<cache, fails, open, method, preferred, call, up, changes>>

Providers == 0..(N - 1)
\* Older than this, ages make no difference.
Old == TTL + MaxFetch + 1

Quiet == [pc |-> "idle", key |-> CHOOSE k \in Keys : TRUE, start |-> 0, tried |-> 0, age |-> 0]

TypeOK ==
  /\ DOMAIN cache \subseteq Keys /\ Cardinality(DOMAIN cache) <= MaxEntries
  /\ \A k \in DOMAIN cache : cache[k] \in [stamp : 0..Old, value : 0..Old]
  /\ fails \in [Providers -> 0..Threshold]
  /\ open \in [Providers -> 0..CoolDown] /\ method \in [Providers -> 0..MethodCool]
  /\ preferred \in Providers
  /\ call \in [Threads -> [pc : {"idle", "route", "sent", "judge", "prefer", "store", "answer", "failed"},
               key : Keys, start : Providers, tried : 0..N, age : 0..Old]]
  /\ up \subseteq Providers /\ changes \in 0..MaxChanges

Init ==
  /\ cache = <<>>
  /\ fails = [p \in Providers |-> 0] /\ open = [p \in Providers |-> 0]
  /\ method = [p \in Providers |-> 0] /\ preferred = 0
  /\ call = [t \in Threads |-> Quiet]
  /\ up \in {{}, Providers} /\ changes = 0

At(t, pc) == call[t].pc = pc
Goto(t, pc) == call' = [call EXCEPT ![t].pc = pc]
\* The provider whose turn it is: _ordered_indices.
Provider(t) == (call[t].start + call[t].tried) % N

-----------------------------------------------------------------------------
(* AlchemyGateway.call *)

Fresh(k) == k \in DOMAIN cache /\ cache[k].stamp <= TTL

\* Mutant: an entry that is used lives on.
HitRenewed(t, k) ==
  /\ At(t, "idle") /\ Fresh(k)
  /\ call' = [call EXCEPT ![t] = [Quiet EXCEPT !.pc = "answer", !.key = k, !.age = cache[k].value]]
  /\ cache' = [cache EXCEPT ![k].stamp = 0]
  /\ UNCHANGED <<fails, open, method, preferred, up, changes>>

Hit(t, k) ==
  /\ At(t, "idle") /\ Fresh(k)
  /\ call' = [call EXCEPT ![t] = [Quiet EXCEPT !.pc = "answer", !.key = k, !.age = cache[k].value]]
  /\ UNCHANGED <<cache, fails, open, method, preferred, up, changes>>

\* The order of the providers is fixed here, from the preferred one on.
Miss(t, k, fresh) ==
  /\ At(t, "idle") /\ (fresh \/ ~Fresh(k))
  /\ call' = [call EXCEPT ![t] = [Quiet EXCEPT !.pc = "route", !.key = k, !.start = preferred]]
  /\ UNCHANGED <<cache, fails, open, method, preferred, up, changes>>

\* The oldest entry goes when there are too many.
Kept(entries) ==
  IF Cardinality(DOMAIN entries) <= MaxEntries THEN entries
  ELSE LET k == CHOOSE x \in DOMAIN entries : \A y \in DOMAIN entries : entries[x].stamp >= entries[y].stamp
       IN [x \in DOMAIN entries \ {k} |-> entries[x]]

\* An entry is dated when its answer has come, whatever came before.
Store(t) ==
  /\ At(t, "store") /\ Goto(t, "answer")
  /\ cache' = Kept([k \in DOMAIN cache \cup {call[t].key} |->
                      IF k = call[t].key THEN [stamp |-> 0, value |-> call[t].age] ELSE cache[k]])
  /\ UNCHANGED <<fails, open, method, preferred, up, changes>>

Return(t) ==
  /\ call[t].pc \in {"answer", "failed"}
  /\ call' = [call EXCEPT ![t] = Quiet]
  /\ UNCHANGED <<cache, fails, open, method, preferred, up, changes>>

-----------------------------------------------------------------------------
(* MultiProviderRpc.request *)

\* Mutant: a provider that has failed too often is left alone.
SkippedForGood(p) == fails[p] >= Threshold \/ method[p] > 0

Skipped(p) == open[p] > 0 \/ method[p] > 0

\* On to the next provider; after the last one ProviderUnavailable is raised.
NextProvider(t) == call' = [call EXCEPT ![t].pc = "route", ![t].tried = @ + 1, ![t].age = 0]

Route(t) ==
  /\ At(t, "route")
  /\ IF call[t].tried = N THEN Goto(t, "failed")
     ELSE IF Skipped(Provider(t)) THEN NextProvider(t)
     ELSE call' = [call EXCEPT ![t].pc = "sent", ![t].age = 0]
  /\ UNCHANGED <<cache, fails, open, method, preferred, up, changes>>

\* The provider answers with what it read at some time since it was asked.
Succeed(t) ==
  /\ At(t, "sent") /\ Provider(t) \in up
  /\ fails' = [fails EXCEPT ![Provider(t)] = 0]
  /\ open' = [open EXCEPT ![Provider(t)] = 0]
  /\ \E a \in 0..call[t].age : call' = [call EXCEPT ![t].pc = "prefer", ![t].age = a]
  /\ UNCHANGED <<cache, method, preferred, up, changes>>

\* The preferred provider is set under the lock, taken once more.
Prefer(t) ==
  /\ At(t, "prefer")
  /\ call' = [call EXCEPT ![t].pc = "store", ![t].start = 0, ![t].tried = 0]
  /\ preferred' = Provider(t)
  /\ UNCHANGED <<cache, fails, open, method, up, changes>>

CountFailure(p) == fails' = [fails EXCEPT ![p] = IF @ < Threshold THEN @ + 1 ELSE @]

\* An error of the request itself is counted too, and raised.
Refuse(t) ==
  /\ At(t, "sent") /\ Provider(t) \in up
  /\ CountFailure(Provider(t))
  /\ call' = [call EXCEPT ![t] = Quiet]
  /\ UNCHANGED <<cache, open, method, preferred, up, changes>>

\* The provider lacks the method.
LackMethod(t) ==
  /\ At(t, "sent") /\ Provider(t) \notin up
  /\ CountFailure(Provider(t))
  /\ method' = [method EXCEPT ![Provider(t)] = MethodCool]
  /\ NextProvider(t)
  /\ UNCHANGED <<cache, open, preferred, up, changes>>

\* A transient error is counted...
Fail(t) ==
  /\ At(t, "sent") /\ Provider(t) \notin up
  /\ CountFailure(Provider(t))
  /\ call' = [call EXCEPT ![t].pc = "judge", ![t].age = 0]
  /\ UNCHANGED <<cache, open, method, preferred, up, changes>>

\* ...and the count is read: a success may have come in between.
Judge(t) ==
  /\ At(t, "judge")
  /\ open' = [open EXCEPT ![Provider(t)] = IF fails[Provider(t)] >= Threshold THEN CoolDown ELSE @]
  /\ NextProvider(t)
  /\ UNCHANGED <<cache, fails, method, preferred, up, changes>>

-----------------------------------------------------------------------------
Change ==
  /\ changes < MaxChanges /\ changes' = changes + 1
  /\ up' \in SUBSET Providers \ {up}
  /\ UNCHANGED <<cache, fails, open, method, preferred, call>>

Older(a) == IF a < Old THEN a + 1 ELSE a
Less(n) == IF n > 0 THEN n - 1 ELSE 0
Fetching == {t \in Threads : call[t].pc \in {"sent", "prefer", "store"}}

\* No fetch lasts longer than MaxFetch.
Tick ==
  /\ \A t \in Fetching : call[t].age < MaxFetch
  /\ cache' = [k \in DOMAIN cache |-> [stamp |-> Older(cache[k].stamp), value |-> Older(cache[k].value)]]
  /\ open' = [p \in Providers |-> Less(open[p])] /\ method' = [p \in Providers |-> Less(method[p])]
  /\ call' = [t \in Threads |-> IF t \in Fetching THEN [call[t] EXCEPT !.age = @ + 1] ELSE call[t]]
  /\ UNCHANGED <<fails, preferred, up, changes>>

Work(t) ==
  \/ Route(t) \/ Succeed(t) \/ Prefer(t) \/ Refuse(t) \/ LackMethod(t) \/ Fail(t) \/ Judge(t)
  \/ Store(t) \/ Return(t)

Next ==
  \/ \E t \in Threads : Work(t)
       \/ \E k \in Keys : Hit(t, k) \/ \E fresh \in BOOLEAN : Miss(t, k, fresh)
  \/ Change \/ Tick

\* Calls go on and time passes; nobody has to call.
Fairness == WF_vars(Tick) /\ \A t \in Threads : WF_vars(Work(t))

Spec == Init /\ [][Next]_vars /\ Fairness

-----------------------------------------------------------------------------
\* No answer is older than the time an entry may be used and the time a fetch
\* may take, whichever of two fetches of a key is stored last.
AnswersAreFresh == \A t \in Threads : At(t, "answer") => call[t].age <= TTL + MaxFetch

\* When a provider stays up, calls stop failing for want of one: a provider that
\* was left alone is tried again ("deterministic failover").
ServiceRecovers ==
  \A p \in Providers : <>[](p \in up) => <>[](\A t \in Threads : ~At(t, "failed"))
=============================================================================

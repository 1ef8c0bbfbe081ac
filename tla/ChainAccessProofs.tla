------------------------- MODULE ChainAccessProofs -------------------------
(***************************************************************************)
(* Proofs about how the program reads a chain.                             *)
(*                                                                         *)
(* RpcRouting, for any numbers of providers, methods, threads and cache    *)
(* entries and for any times: its types, with the bound on the cache, and  *)
(* that no answer is older than it may be.                                 *)
(*                                                                         *)
(* Indexer, for any window, chain height, providers and numbers of reorgs  *)
(* and failures: its types, and that every block that was ever the head is *)
(* connected with every other through the blocks that are stored.          *)
(***************************************************************************)
EXTENDS RpcRouting, Indexer, SequenceTheorems, FiniteSetTheorems, WellFoundedInduction, TLAPS

-----------------------------------------------------------------------------
(* Routing and caching *)

Pcs == {"idle", "route", "sent", "judge", "prefer", "store", "answer", "failed"}
Fetches == {"sent", "prefer", "store"}

Calls == [pc : Pcs, key : Keys, start : Providers, tried : 0..N, age : 0..Old]

\* A value was read at most MaxFetch before its entry was dated, so that what is
\* used while the entry is fresh is not too old.
EntryOK(e) == e \in [stamp : 0..Old, value : 0..Old] /\ e.value <= e.stamp + MaxFetch

CallOK(r) ==
  /\ r \in Calls
  /\ r.pc \in {"sent", "judge", "prefer"} => r.tried < N
  /\ r.pc \in Fetches => r.age <= MaxFetch
  /\ r.pc = "answer" => r.age <= TTL + MaxFetch

CacheInv == IsFiniteSet(DOMAIN cache) /\ \A k \in DOMAIN cache : EntryOK(cache[k])

CallsInv == call \in [Threads -> Calls] /\ \A t \in Threads : CallOK(call[t])

IInv == TypeOK /\ CacheInv /\ CallsInv

-----------------------------------------------------------------------------
(* Rows *)

LEMMA Numbers ==
  /\ N \in Nat \ {0} /\ MaxEntries \in Nat \ {0} /\ Threshold \in Nat \ {0}
  /\ TTL \in Nat /\ CoolDown \in Nat /\ MethodCool \in Nat /\ MaxFetch \in Nat /\ MaxChanges \in Nat
  /\ Old \in Nat /\ Old = TTL + MaxFetch + 1
BY RpcAssumption DEF Old

LEMMA Turns == \A a, b \in Nat : (a + b) % N \in Providers
BY Numbers DEF Providers

Row(pc, key, start, tried, age) ==
  [pc |-> pc, key |-> key, start |-> start, tried |-> tried, age |-> age]

LEMMA RowFields ==
  ASSUME NEW pc \in Pcs, NEW key \in Keys, NEW start \in Providers, NEW tried \in 0..N, NEW age \in 0..Old
  PROVE  /\ Row(pc, key, start, tried, age) \in Calls
         /\ Row(pc, key, start, tried, age).pc = pc /\ Row(pc, key, start, tried, age).age = age
         /\ Row(pc, key, start, tried, age).tried = tried
BY DEF Calls, Row

LEMMA CallFields ==
  ASSUME NEW r \in Calls
  PROVE  /\ r.pc \in Pcs /\ r.key \in Keys /\ r.start \in Providers /\ r.tried \in 0..N /\ r.age \in 0..Old
         /\ r = Row(r.pc, r.key, r.start, r.tried, r.age)
BY DEF Calls, Row

\* A call's row after a change, field by field.
SetPc(r, v) == [r EXCEPT !.pc = v]
SetKey(r, v) == [r EXCEPT !.key = v]
SetStart(r, v) == [r EXCEPT !.start = v]
SetTried(r, v) == [r EXCEPT !.tried = v]
SetAge(r, v) == [r EXCEPT !.age = v]

LEMMA RowChanges ==
  ASSUME NEW pc, NEW key, NEW start, NEW tried, NEW age, NEW v
  PROVE  /\ SetPc(Row(pc, key, start, tried, age), v) = Row(v, key, start, tried, age)
         /\ SetKey(Row(pc, key, start, tried, age), v) = Row(pc, v, start, tried, age)
         /\ SetStart(Row(pc, key, start, tried, age), v) = Row(pc, key, v, tried, age)
         /\ SetTried(Row(pc, key, start, tried, age), v) = Row(pc, key, start, v, age)
         /\ SetAge(Row(pc, key, start, tried, age), v) = Row(pc, key, start, tried, v)
BY DEF Row, SetPc, SetKey, SetStart, SetTried, SetAge

AnyKey == CHOOSE k \in Keys : TRUE

LEMMA QuietRow == AnyKey \in Keys /\ Quiet = Row("idle", AnyKey, 0, 0, 0) /\ Quiet \in Calls
<1>1. AnyKey \in Keys
  BY RpcAssumption DEF AnyKey
<1>2. Quiet = Row("idle", AnyKey, 0, 0, 0)
  BY DEF Quiet, Row, AnyKey
<1>3. "idle" \in Pcs /\ 0 \in Providers /\ 0 \in 0..N /\ 0 \in 0..Old
  BY Numbers DEF Pcs, Providers
<1>. QED
  BY <1>1, <1>2, <1>3, RowFields

-----------------------------------------------------------------------------
(* Calls *)

\* What a step of thread t does to the calls.
Moves(t, r) == CallOK(r) /\ call' = [call EXCEPT ![t] = r]

LEMMA CallsStep ==
  ASSUME CallsInv, NEW t \in Threads, NEW r, Moves(t, r)
  PROVE  CallsInv'
<1>1. r \in Calls
  BY DEF Moves, CallOK
<1>2. call' \in [Threads -> Calls] /\ \A x \in Threads : call'[x] = IF x = t THEN r ELSE call[x]
  BY <1>1 DEF Moves, CallsInv
<1>3. \A x \in Threads : CallOK(call'[x])
  BY <1>2 DEF Moves, CallsInv
<1>4. CallsInv' <=> call' \in [Threads -> Calls] /\ \A x \in Threads : CallOK(call'[x])
  BY DEF CallsInv, CallOK, Calls, Providers, Old
<1>. QED
  BY <1>2, <1>3, <1>4

\* (At function level, a change of several fields is one of the row.)
LEMMA NextProviderMoves ==
  ASSUME CallsInv, NEW t \in Threads, call[t].tried < N, NextProvider(t)
  PROVE  \E r : Moves(t, r)
<1>. DEFINE c == call[t]  r == Row("route", c.key, c.start, c.tried + 1, 0)
<1>1. c \in Calls /\ c = Row(c.pc, c.key, c.start, c.tried, c.age)
  BY CallFields DEF CallsInv
<1>2. call' = [call EXCEPT ![t] = SetAge(SetTried(SetPc(c, "route"), c.tried + 1), 0)]
  BY DEF NextProvider, SetPc, SetTried, SetAge
<1>3. c.key \in Keys /\ c.start \in Providers /\ c.tried + 1 \in 0..N /\ 0 \in 0..Old
  BY <1>1, CallFields, Numbers
<1>4. "route" \in Pcs
  BY DEF Pcs
<1>5. r \in Calls /\ r.pc = "route"
  BY <1>3, <1>4, RowFields
<1>6. SetAge(SetTried(SetPc(c, "route"), c.tried + 1), 0) = r
  BY <1>1, RowChanges
<1>7. CallOK(r)
  BY <1>5 DEF CallOK, Fetches
<1>. QED
  BY <1>2, <1>6, <1>7 DEF Moves

LEMMA QuietMoves ==
  ASSUME NEW t \in Threads, call' = [call EXCEPT ![t] = Quiet]
  PROVE  Moves(t, Quiet)
<1>1. Quiet.pc = "idle"
  BY DEF Quiet
<1>. QED
  BY <1>1, QuietRow DEF Moves, CallOK, Fetches

\* The place changes, and the age perhaps.
LEMMA AgedMoves ==
  ASSUME CallsInv, NEW t \in Threads, NEW pc \in Pcs \ {"answer"}, NEW a \in 0..MaxFetch,
         pc \in {"sent", "judge", "prefer"} => call[t].tried < N,
         call' = [call EXCEPT ![t].pc = pc, ![t].age = a]
  PROVE  \E r : Moves(t, r)
<1>. DEFINE c == call[t]  r == Row(pc, c.key, c.start, c.tried, a)
<1>1. c \in Calls /\ c = Row(c.pc, c.key, c.start, c.tried, c.age)
  BY CallFields DEF CallsInv
<1>2. call' = [call EXCEPT ![t] = SetAge(SetPc(c, pc), a)]
  BY DEF SetPc, SetAge
<1>3. c.key \in Keys /\ c.start \in Providers /\ c.tried \in 0..N
  BY <1>1, CallFields
<1>4. a \in 0..Old /\ a <= MaxFetch
  BY Numbers
<1>5. r \in Calls /\ r.pc = pc /\ r.age = a /\ r.tried = c.tried
  BY <1>3, <1>4, RowFields
<1>6. SetAge(SetPc(c, pc), a) = r
  BY <1>1, RowChanges
<1>7. CallOK(r)
  BY <1>4, <1>5 DEF CallOK
<1>. QED
  BY <1>2, <1>6, <1>7 DEF Moves

LEMMA GotoMoves ==
  ASSUME CallsInv, NEW t \in Threads, NEW pc \in {"failed", "answer"}, Goto(t, pc),
         pc = "answer" => call[t].age <= MaxFetch
  PROVE  \E r : Moves(t, r)
<1>. DEFINE c == call[t]  r == Row(pc, c.key, c.start, c.tried, c.age)
<1>1. c \in Calls /\ c = Row(c.pc, c.key, c.start, c.tried, c.age)
  BY CallFields DEF CallsInv
<1>2. call' = [call EXCEPT ![t] = SetPc(c, pc)]
  BY DEF Goto, SetPc
<1>3. c.key \in Keys /\ c.start \in Providers /\ c.tried \in 0..N /\ c.age \in 0..Old /\ pc \in Pcs
  BY <1>1, CallFields DEF Pcs
<1>4. r \in Calls /\ r.pc = pc /\ r.age = c.age
  BY <1>3, RowFields
<1>5. SetPc(c, pc) = r
  BY <1>1, RowChanges
<1>6. pc = "answer" => c.age <= TTL + MaxFetch
  BY <1>3, Numbers
<1>7. CallOK(r)
  BY <1>4, <1>6 DEF CallOK, Fetches
<1>. QED
  BY <1>2, <1>5, <1>7 DEF Moves

LEMMA BeginMoves ==
  ASSUME TypeOK, NEW t \in Threads, NEW k \in Keys, NEW fresh, Miss(t, k, fresh)
  PROVE  \E r : Moves(t, r)
<1>. DEFINE r == Row("route", k, preferred, 0, 0)
<1>1. call' = [call EXCEPT ![t] = SetStart(SetKey(SetPc(Quiet, "route"), k), preferred)]
  BY DEF Miss, SetStart, SetKey, SetPc
<1>2. SetStart(SetKey(SetPc(Quiet, "route"), k), preferred) = r
  BY QuietRow, RowChanges
<1>3. "route" \in Pcs /\ preferred \in Providers /\ 0 \in 0..N /\ 0 \in 0..Old
  BY Numbers DEF Pcs, TypeOK
<1>4. r \in Calls /\ r.pc = "route"
  BY <1>3, RowFields
<1>5. CallOK(r)
  BY <1>4 DEF CallOK, Fetches
<1>. QED
  BY <1>1, <1>2, <1>5 DEF Moves

LEMMA HitMoves ==
  ASSUME CacheInv, NEW t \in Threads, NEW k \in Keys, Hit(t, k)
  PROVE  \E r : Moves(t, r)
<1>. DEFINE r == Row("answer", k, 0, 0, cache[k].value)
<1>1. call' = [call EXCEPT ![t] = SetAge(SetKey(SetPc(Quiet, "answer"), k), cache[k].value)]
  BY DEF Hit, SetAge, SetKey, SetPc
<1>2. SetAge(SetKey(SetPc(Quiet, "answer"), k), cache[k].value) = r
  BY QuietRow, RowChanges
<1>3. "answer" \in Pcs /\ 0 \in Providers /\ 0 \in 0..N
  BY Numbers DEF Pcs, Providers
<1>4. cache[k].stamp <= TTL /\ EntryOK(cache[k])
  BY DEF Hit, Fresh, CacheInv
<1>5. cache[k].value \in 0..Old /\ cache[k].value <= TTL + MaxFetch
  BY <1>4, Numbers DEF EntryOK
<1>6. r \in Calls /\ r.pc = "answer" /\ r.age = cache[k].value
  BY <1>3, <1>5, RowFields
<1>7. CallOK(r)
  BY <1>5, <1>6 DEF CallOK, Fetches
<1>. QED
  BY <1>1, <1>2, <1>7 DEF Moves

LEMMA PreferMoves ==
  ASSUME CallsInv, NEW t \in Threads, Prefer(t)
  PROVE  \E r : Moves(t, r)
<1>. DEFINE c == call[t]  r == Row("store", c.key, 0, 0, c.age)
<1>1. c \in Calls /\ c = Row(c.pc, c.key, c.start, c.tried, c.age)
  BY CallFields DEF CallsInv
<1>2. call' = [call EXCEPT ![t] = SetTried(SetStart(SetPc(c, "store"), 0), 0)]
  BY DEF Prefer, SetPc, SetStart, SetTried
<1>3. SetTried(SetStart(SetPc(c, "store"), 0), 0) = r
  BY <1>1, RowChanges
<1>4. "store" \in Pcs /\ c.key \in Keys /\ 0 \in Providers /\ 0 \in 0..N /\ c.age \in 0..Old
  BY <1>1, CallFields, Numbers DEF Pcs, Providers
<1>5. r \in Calls /\ r.pc = "store" /\ r.age = c.age
  BY <1>4, RowFields
<1>6. c.age <= MaxFetch
  BY DEF CallsInv, CallOK, Prefer, At, Fetches
<1>7. CallOK(r)
  BY <1>5, <1>6 DEF CallOK
<1>. QED
  BY <1>2, <1>3, <1>7 DEF Moves

LEMMA SentTurn ==
  ASSUME CallsInv, NEW t \in Threads, call[t].pc \in {"sent", "judge", "prefer"}
  PROVE  call[t].tried < N /\ Provider(t) \in Providers
<1>1. call[t] \in Calls /\ call[t].tried < N
  BY DEF CallsInv, CallOK
<1>2. call[t].start \in Nat /\ call[t].tried \in Nat
  BY <1>1, CallFields, Numbers DEF Providers
<1>. QED
  BY <1>1, <1>2, Turns DEF Provider

\* Time passes: the fetches grow older, up to MaxFetch.
LEMMA TickCalls ==
  ASSUME CallsInv, Tick
  PROVE  CallsInv'
<1>1. ASSUME NEW t \in Threads  PROVE CallOK(call'[t])
  <2>1. CallOK(call[t]) /\ call[t] \in Calls
    BY DEF CallsInv, CallOK
  <2>2. CASE t \notin Fetching
    <3>1. call'[t] = call[t]
      BY <2>2 DEF Tick
    <3>. QED
      BY <2>1, <3>1
  <2>3. CASE t \in Fetching
    <3>. DEFINE c == call[t]  r == Row(c.pc, c.key, c.start, c.tried, c.age + 1)
    <3>1. call'[t] = SetAge(c, c.age + 1) /\ c.age < MaxFetch /\ c.pc \in Fetches
      BY <2>3 DEF Tick, SetAge, Fetching, Fetches
    <3>2. c = Row(c.pc, c.key, c.start, c.tried, c.age)
      BY <2>1, CallFields
    <3>3. call'[t] = r
      BY <3>1, <3>2, RowChanges
    <3>4. /\ c.pc \in Pcs /\ c.key \in Keys /\ c.start \in Providers /\ c.tried \in 0..N
          /\ c.age + 1 \in 0..Old /\ c.age + 1 <= MaxFetch
      BY <2>1, <3>1, CallFields, Numbers
    <3>5. r \in Calls /\ r.pc = c.pc /\ r.age = c.age + 1 /\ r.tried = c.tried
      BY <3>4, RowFields
    <3>6. c.pc # "answer"
      BY <3>1 DEF Fetches
    <3>. QED
      BY <2>1, <3>3, <3>4, <3>5, <3>6 DEF CallOK
  <2>. QED
    BY <2>2, <2>3
<1>2. call' \in [Threads -> Calls]
  <2>1. call' = [t \in Threads |-> call'[t]]
    BY DEF Tick
  <2>. QED
    BY <1>1, <2>1 DEF CallOK
<1>3. CallsInv' <=> call' \in [Threads -> Calls] /\ \A x \in Threads : CallOK(call'[x])
  BY DEF CallsInv, CallOK, Calls, Providers, Old
<1>. QED
  BY <1>1, <1>2, <1>3

LEMMA AllCallsStep ==
  ASSUME IInv, [Next]_vars
  PROVE  CallsInv'
<1>0. CallsInv /\ TypeOK /\ CacheInv
  BY DEF IInv
<1>1. ASSUME NEW t \in Threads, Work(t)  PROVE CallsInv'
  <2>1. CASE Route(t)
    <3>1. call[t] \in Calls /\ call[t].tried \in 0..N
      BY <1>0, CallFields DEF CallsInv
    <3>2. CASE Goto(t, "failed")
      BY <1>0, <3>2, GotoMoves, CallsStep
    <3>3. CASE call[t].tried # N /\ NextProvider(t)
      <4>1. call[t].tried < N
        BY <3>1, <3>3, Numbers
      <4>. QED
        BY <1>0, <3>3, <4>1, NextProviderMoves, CallsStep
    <3>4. CASE call[t].tried # N /\ call' = [call EXCEPT ![t].pc = "sent", ![t].age = 0]
      <4>1. call[t].tried < N /\ "sent" \in Pcs \ {"answer"} /\ 0 \in 0..MaxFetch
        BY <3>1, <3>4, Numbers DEF Pcs
      <4>. QED
        BY <1>0, <3>4, <4>1, AgedMoves, CallsStep
    <3>. QED
      BY <2>1, <3>2, <3>3, <3>4 DEF Route
  <2>2. CASE Succeed(t)
    <3>1. PICK a \in 0..call[t].age : call' = [call EXCEPT ![t].pc = "prefer", ![t].age = a]
      BY <2>2 DEF Succeed
    <3>2. call[t].tried < N /\ call[t].age <= MaxFetch /\ call[t].age \in 0..Old
      BY <1>0, <2>2, SentTurn, CallFields DEF Succeed, At, CallsInv, CallOK, Fetches
    <3>3. "prefer" \in Pcs \ {"answer"} /\ a \in 0..MaxFetch
      BY <3>2, Numbers DEF Pcs
    <3>. QED
      BY <1>0, <3>1, <3>2, <3>3, AgedMoves, CallsStep
  <2>3. CASE Prefer(t)
    BY <1>0, <2>3, PreferMoves, CallsStep
  <2>4. CASE Refuse(t) \/ Return(t)
    BY <1>0, <2>4, QuietMoves, CallsStep DEF Refuse, Return
  <2>5. CASE LackMethod(t) \/ Judge(t)
    <3>1. call[t].tried < N /\ NextProvider(t)
      BY <1>0, <2>5, SentTurn DEF LackMethod, Judge, At
    <3>. QED
      BY <1>0, <3>1, NextProviderMoves, CallsStep
  <2>6. CASE Fail(t)
    <3>1. call[t].tried < N /\ call' = [call EXCEPT ![t].pc = "judge", ![t].age = 0]
      BY <1>0, <2>6, SentTurn DEF Fail, At
    <3>2. "judge" \in Pcs \ {"answer"} /\ 0 \in 0..MaxFetch
      BY Numbers DEF Pcs
    <3>. QED
      BY <1>0, <3>1, <3>2, AgedMoves, CallsStep
  <2>7. CASE Store(t)
    <3>1. Goto(t, "answer") /\ call[t].age <= MaxFetch
      BY <1>0, <2>7 DEF Store, At, CallsInv, CallOK, Fetches
    <3>. QED
      BY <1>0, <3>1, GotoMoves, CallsStep
  <2>. QED
    BY <1>1, <2>1, <2>2, <2>3, <2>4, <2>5, <2>6, <2>7 DEF Work
<1>2. ASSUME NEW t \in Threads, NEW k \in Keys, Hit(t, k)  PROVE CallsInv'
  BY <1>0, <1>2, HitMoves, CallsStep
<1>3. ASSUME NEW t \in Threads, NEW k \in Keys, NEW fresh \in BOOLEAN, Miss(t, k, fresh)  PROVE CallsInv'
  BY <1>0, <1>3, BeginMoves, CallsStep
<1>4. CASE Change \/ UNCHANGED vars
  <2>1. call' = call
    BY <1>4 DEF Change, vars
  <2>. QED
    BY <1>0, <2>1 DEF CallsInv
<1>5. CASE Tick
  BY <1>0, <1>5, TickCalls
<1>. QED
  BY <1>1, <1>2, <1>3, <1>4, <1>5 DEF Next

-----------------------------------------------------------------------------
(* The cache *)

Rows == [stamp : 0..Old, value : 0..Old]

\* A set of numbers that is not empty has a least one.
LEMMA LeastExists ==
  ASSUME NEW T, T \subseteq Nat, T # {}
  PROVE  \E m \in T : \A n \in T : m <= n
<1>1. PICK m \in T : \A n \in T : ~(<<n, m>> \in OpToRel(<, Nat))
  BY WFMin, NatLessThanWellFounded, Zenon
<1>2. ASSUME NEW n \in T  PROVE ~(n < m)
  BY <1>1 DEF OpToRel
<1>3. ASSUME NEW n \in T  PROVE m <= n
  <2>1. m \in Nat /\ n \in Nat /\ ~(n < m)
    BY <1>2, <1>3
  <2>. QED
    BY <2>1
<1>. QED
  BY <1>3

\* Some entry of a cache that is not empty is the oldest.
LEMMA OldestExists ==
  ASSUME NEW f, DOMAIN f # {}, \A k \in DOMAIN f : f[k].stamp \in 0..Old
  PROVE  \E x \in DOMAIN f : \A y \in DOMAIN f : f[x].stamp >= f[y].stamp
<1>. DEFINE T == {Old - f[k].stamp : k \in DOMAIN f}
<1>1. T \subseteq Nat /\ T # {}
  BY Numbers
<1>2. PICK m \in T : \A n \in T : m <= n
  BY <1>1, LeastExists
<1>3. PICK x \in DOMAIN f : m = Old - f[x].stamp
  BY <1>2
<1>4. ASSUME NEW y \in DOMAIN f  PROVE f[x].stamp >= f[y].stamp
  <2>1. Old - f[x].stamp <= Old - f[y].stamp
    BY <1>2, <1>3
  <2>. QED
    BY <2>1, Numbers
<1>. QED
  BY <1>4

\* Nothing is kept but entries that were there, and no more than may be.
LEMMA KeptEntries ==
  ASSUME NEW f, IsFiniteSet(DOMAIN f), Cardinality(DOMAIN f) <= MaxEntries + 1,
         \A k \in DOMAIN f : f[k].stamp \in 0..Old
  PROVE  /\ DOMAIN Kept(f) \subseteq DOMAIN f /\ \A k \in DOMAIN Kept(f) : Kept(f)[k] = f[k]
         /\ IsFiniteSet(DOMAIN Kept(f)) /\ Cardinality(DOMAIN Kept(f)) <= MaxEntries
<1>1. CASE Cardinality(DOMAIN f) <= MaxEntries
  <2>1. Kept(f) = f
    BY <1>1 DEF Kept
  <2>. QED
    BY <1>1, <2>1
<1>2. CASE ~(Cardinality(DOMAIN f) <= MaxEntries)
  <2>. DEFINE oldest == CHOOSE x \in DOMAIN f : \A y \in DOMAIN f : f[x].stamp >= f[y].stamp
  <2>1. DOMAIN f # {}
    BY <1>2, Numbers, FS_EmptySet
  <2>2. oldest \in DOMAIN f
    BY <2>1, OldestExists
  <2>3. Kept(f) = [x \in DOMAIN f \ {oldest} |-> f[x]]
    BY <1>2 DEF Kept
  <2>. HIDE DEF oldest
  <2>4. IsFiniteSet(DOMAIN f \ {oldest}) /\ Cardinality(DOMAIN f \ {oldest}) = Cardinality(DOMAIN f) - 1
    BY <2>2, FS_RemoveElement
  <2>5. Cardinality(DOMAIN f \ {oldest}) <= MaxEntries
    BY <2>4, Numbers, FS_CardinalityType
  <2>. QED
    BY <2>3, <2>4, <2>5
<1>. QED
  BY <1>1, <1>2

CacheOK ==
  /\ CacheInv
  /\ DOMAIN cache \subseteq Keys /\ Cardinality(DOMAIN cache) <= MaxEntries

LEMMA StoreCache ==
  ASSUME CacheOK, CallsInv, NEW t \in Threads, Store(t)
  PROVE  CacheOK'
<1>. DEFINE key == call[t].key
            f == [k \in DOMAIN cache \cup {key} |->
                    IF k = key THEN [stamp |-> 0, value |-> call[t].age] ELSE cache[k]]
<1>1. call[t] \in Calls /\ call[t].age <= MaxFetch
  BY DEF CallsInv, CallOK, Store, At, Fetches
<1>2. key \in Keys /\ call[t].age \in 0..Old
  BY <1>1, CallFields
<1>3. EntryOK([stamp |-> 0, value |-> call[t].age])
  BY <1>1, <1>2, Numbers DEF EntryOK
<1>4. DOMAIN f = DOMAIN cache \cup {key} /\ \A k \in DOMAIN f : EntryOK(f[k])
  BY <1>3 DEF CacheOK, CacheInv
<1>5. cache' = Kept(f)
  BY DEF Store
<1>6. IsFiniteSet(DOMAIN cache \cup {key}) /\ Cardinality(DOMAIN cache \cup {key}) <= MaxEntries + 1
  <2>1. /\ IsFiniteSet(DOMAIN cache) /\ Cardinality(DOMAIN cache) \in Nat
        /\ Cardinality(DOMAIN cache) <= MaxEntries
    BY FS_CardinalityType DEF CacheOK, CacheInv
  <2>2. /\ IsFiniteSet(DOMAIN cache \cup {key})
        /\ Cardinality(DOMAIN cache \cup {key}) \in {Cardinality(DOMAIN cache), Cardinality(DOMAIN cache) + 1}
    BY <2>1, FS_AddElement
  <2>. QED
    BY <2>1, <2>2, Numbers
<1>. HIDE DEF f, key
<1>7. \A k \in DOMAIN f : f[k].stamp \in 0..Old
  BY <1>4 DEF EntryOK
<1>8. /\ DOMAIN Kept(f) \subseteq DOMAIN f /\ \A k \in DOMAIN Kept(f) : Kept(f)[k] = f[k]
      /\ IsFiniteSet(DOMAIN Kept(f)) /\ Cardinality(DOMAIN Kept(f)) <= MaxEntries
  BY <1>4, <1>6, <1>7, KeptEntries
<1>9. \A k \in DOMAIN Kept(f) : EntryOK(Kept(f)[k])
  BY <1>4, <1>8
<1>10. DOMAIN Kept(f) \subseteq Keys
  BY <1>2, <1>4, <1>8 DEF CacheOK
<1>11. CacheOK' <=> /\ IsFiniteSet(DOMAIN cache') /\ \A k \in DOMAIN cache' : EntryOK(cache'[k])
                    /\ DOMAIN cache' \subseteq Keys /\ Cardinality(DOMAIN cache') <= MaxEntries
  BY DEF CacheOK, CacheInv, EntryOK, Old
<1>. QED
  BY <1>5, <1>8, <1>9, <1>10, <1>11

\* Entries and their values grow older together.
LEMMA TickCache ==
  ASSUME CacheOK, Tick
  PROVE  CacheOK'
<1>1. cache' = [k \in DOMAIN cache |-> [stamp |-> Older(cache[k].stamp), value |-> Older(cache[k].value)]]
  BY DEF Tick
<1>2. ASSUME NEW k \in DOMAIN cache
      PROVE  EntryOK([stamp |-> Older(cache[k].stamp), value |-> Older(cache[k].value)])
  <2>1. /\ cache[k].stamp \in 0..Old /\ cache[k].value \in 0..Old
        /\ cache[k].value <= cache[k].stamp + MaxFetch
    BY DEF CacheOK, CacheInv, EntryOK
  <2>2. /\ Older(cache[k].stamp) \in 0..Old /\ Older(cache[k].value) \in 0..Old
        /\ Older(cache[k].value) <= Older(cache[k].stamp) + MaxFetch
    BY <2>1, Numbers DEF Older
  <2>. QED
    BY <2>2 DEF EntryOK
<1>3. DOMAIN cache' = DOMAIN cache /\ \A k \in DOMAIN cache' : EntryOK(cache'[k])
  BY <1>1, <1>2
<1>4. CacheOK' <=> /\ IsFiniteSet(DOMAIN cache') /\ \A k \in DOMAIN cache' : EntryOK(cache'[k])
                   /\ DOMAIN cache' \subseteq Keys /\ Cardinality(DOMAIN cache') <= MaxEntries
  BY DEF CacheOK, CacheInv, EntryOK, Old
<1>. QED
  BY <1>3, <1>4 DEF CacheOK, CacheInv

LEMMA CacheStep ==
  ASSUME IInv, [Next]_vars
  PROVE  CacheOK'
<1>0. CacheOK /\ CallsInv
  BY DEF IInv, TypeOK, CacheOK
<1>1. CASE cache' = cache
  BY <1>0, <1>1 DEF CacheOK, CacheInv
<1>2. ASSUME NEW t \in Threads, Work(t)  PROVE CacheOK'
  BY <1>0, <1>1, <1>2, StoreCache DEF Work, Route, Succeed, Prefer, Refuse, LackMethod, Fail, Judge, Return
<1>3. ASSUME NEW t \in Threads, NEW k \in Keys, Hit(t, k) \/ \E fresh \in BOOLEAN : Miss(t, k, fresh)
      PROVE  CacheOK'
  BY <1>1, <1>3 DEF Hit, Miss
<1>. QED
  BY <1>0, <1>1, <1>2, <1>3, TickCache DEF Next, Change, vars

-----------------------------------------------------------------------------
(* The other types *)

OthersOK ==
  /\ fails \in [Providers -> 0..Threshold]
  /\ open \in [Providers -> 0..CoolDown] /\ method \in [Providers -> 0..MethodCool]
  /\ preferred \in Providers
  /\ up \subseteq Providers /\ changes \in 0..MaxChanges

LEMMA OthersStep ==
  ASSUME IInv, [Next]_vars
  PROVE  OthersOK'
<1>0. CallsInv /\ OthersOK
  BY DEF IInv, TypeOK, OthersOK
<1>a. ASSUME NEW p \in Providers, CountFailure(p)  PROVE fails' \in [Providers -> 0..Threshold]
  <2>1. fails[p] \in 0..Threshold /\ (IF fails[p] < Threshold THEN fails[p] + 1 ELSE fails[p]) \in 0..Threshold
    BY <1>0, Numbers DEF OthersOK
  <2>. QED
    BY <1>0, <1>a, <2>1 DEF CountFailure, OthersOK
<1>1. ASSUME NEW t \in Threads, Work(t)  PROVE OthersOK'
  <2>1. CASE Route(t) \/ Return(t) \/ Store(t)
    BY <1>0, <2>1 DEF OthersOK, Route, Return, Store, Providers
  <2>2. CASE Succeed(t)
    <3>1. Provider(t) \in Providers /\ 0 \in 0..Threshold /\ 0 \in 0..CoolDown
      BY <1>0, <2>2, SentTurn, Numbers DEF Succeed, At
    <3>. QED
      BY <1>0, <2>2, <3>1 DEF OthersOK, Succeed
  <2>3. CASE Prefer(t)
    <3>1. Provider(t) \in Providers
      BY <1>0, <2>3, SentTurn DEF Prefer, At
    <3>. QED
      BY <1>0, <2>3, <3>1 DEF OthersOK, Prefer
  <2>4. CASE Refuse(t) \/ LackMethod(t) \/ Fail(t)
    <3>1. Provider(t) \in Providers /\ CountFailure(Provider(t)) /\ MethodCool \in 0..MethodCool
      BY <1>0, <2>4, SentTurn, Numbers DEF Refuse, LackMethod, Fail, At
    <3>2. fails' \in [Providers -> 0..Threshold]
      BY <1>a, <3>1
    <3>. QED
      BY <1>0, <2>4, <3>1, <3>2 DEF OthersOK, Refuse, LackMethod, Fail
  <2>5. CASE Judge(t)
    <3>1. Provider(t) \in Providers /\ CoolDown \in 0..CoolDown
      BY <1>0, <2>5, SentTurn, Numbers DEF Judge, At
    <3>. QED
      BY <1>0, <2>5, <3>1 DEF OthersOK, Judge
  <2>. QED
    BY <1>1, <2>1, <2>2, <2>3, <2>4, <2>5 DEF Work
<1>2. ASSUME NEW t \in Threads, NEW k \in Keys, Hit(t, k) \/ \E fresh \in BOOLEAN : Miss(t, k, fresh)
      PROVE  OthersOK'
  BY <1>0, <1>2 DEF OthersOK, Hit, Miss
<1>3. CASE Change
  <2>1. changes' \in 0..MaxChanges /\ up' \subseteq Providers
    BY <1>0, <1>3, Numbers DEF OthersOK, Change
  <2>. QED
    BY <1>0, <1>3, <2>1 DEF OthersOK, Change
<1>4. CASE Tick
  <2>1. \A p \in Providers : Less(open[p]) \in 0..CoolDown /\ Less(method[p]) \in 0..MethodCool
    BY <1>0, Numbers DEF OthersOK, Less
  <2>. QED
    BY <1>0, <1>4, <2>1 DEF OthersOK, Tick
<1>5. CASE UNCHANGED vars
  BY <1>0, <1>5 DEF OthersOK, vars
<1>. QED
  BY <1>1, <1>2, <1>3, <1>4, <1>5 DEF Next

-----------------------------------------------------------------------------
(* The theorems *)

LEMMA InvInit ==
  ASSUME Init
  PROVE  IInv
<1>1. call \in [Threads -> Calls] /\ \A t \in Threads : call[t] = Quiet
  BY QuietRow DEF Init
<1>2. CallOK(Quiet)
  BY QuietRow DEF CallOK, Quiet, Fetches
<1>3. DOMAIN cache = {} /\ IsFiniteSet({}) /\ Cardinality({}) = 0
  BY FS_EmptySet DEF Init
<1>4. /\ fails \in [Providers -> 0..Threshold] /\ open \in [Providers -> 0..CoolDown]
      /\ method \in [Providers -> 0..MethodCool] /\ preferred \in Providers
      /\ up \subseteq Providers /\ changes \in 0..MaxChanges
  BY Numbers DEF Init, Providers
<1>5. Cardinality(DOMAIN cache) <= MaxEntries
  BY <1>3, Numbers
<1>. QED
  BY <1>1, <1>2, <1>3, <1>4, <1>5 DEF IInv, TypeOK, CacheInv, CallsInv, Calls, Pcs

\* The inductive invariant behind the theorems below.
THEOREM InductiveInvariant == Spec => []IInv
<1>1. Init => IInv
  BY InvInit
<1>2. IInv /\ [Next]_vars => IInv'
  <2>. SUFFICES ASSUME IInv, [Next]_vars  PROVE IInv'
    OBVIOUS
  <2>1. CallsInv' /\ CacheOK' /\ OthersOK'
    BY AllCallsStep, CacheStep, OthersStep
  <2>. QED
    BY <2>1 DEF IInv, TypeOK, CacheOK, CacheInv, CallsInv, OthersOK, EntryOK, Calls, Pcs
<1>. QED
  BY <1>1, <1>2, PTL DEF Spec

\* The types; among them, the cache never holds more entries than it may, and a
\* provider's index is always one of the providers.
THEOREM TypeCorrect == Spec => []TypeOK
<1>1. IInv => TypeOK
  BY DEF IInv
<1>. QED
  BY <1>1, InductiveInvariant, PTL

\* No answer is older than the time an entry may be used and the time a fetch
\* takes together, although fetches of one key overlap, are stored in any order
\* and are dated when they are stored.
THEOREM AnswersStayFresh == Spec => []AnswersAreFresh
<1>1. IInv => AnswersAreFresh
  BY DEF IInv, CallsInv, CallOK, AnswersAreFresh, At
<1>. QED
  BY <1>1, InductiveInvariant, PTL

-----------------------------------------------------------------------------
(* The index *)

SyncInv ==
  /\ sync.pc # "idle" => sync.number \in 1..sync.to
  /\ sync.pc = "logs" => sync.block \in Blocks

\* The head is the latest of the blocks that were adopted.
AdoptedInv == IF head = None THEN adopted = {} ELSE head \in adopted

IndexerInv == IndexerTypeOK /\ SyncInv /\ AdoptedInv /\ HeadsAreJoined

-----------------------------------------------------------------------------
(* Blocks *)

LEMMA IndexerNumbers ==
  /\ Window \in Nat \ {0} /\ NumProviders \in Nat \ {0}
  /\ MaxHeight \in Nat /\ MaxReorgs \in Nat /\ MaxFaults \in Nat /\ MaxHeight >= Window + 2
BY IndexerAssumption

LEMMA BlockFacts ==
  /\ \A b \in Blocks : /\ b \in Seq(Tags) /\ Len(b) \in 1..MaxHeight /\ Len(b) \in Nat /\ DOMAIN b = 1..Len(b)
                       /\ b # None
  /\ \A b \in Seq(Tags) : Len(b) \in 1..MaxHeight => b \in Blocks
<1>1. ASSUME NEW b \in Blocks
      PROVE  b \in Seq(Tags) /\ Len(b) \in 1..MaxHeight /\ Len(b) \in Nat /\ DOMAIN b = 1..Len(b) /\ b # None
  <2>1. PICK n \in 1..MaxHeight : b \in [1..n -> Tags]
    BY DEF Blocks
  <2>2. n \in Nat
    BY <2>1, IndexerNumbers
  <2>3. b \in Seq(Tags) /\ Len(b) = n
    BY <2>1, <2>2, IsASeq, LenProperties
  <2>. QED
    BY <2>1, <2>2, <2>3, LenProperties DEF None
<1>2. ASSUME NEW b \in Seq(Tags), Len(b) \in 1..MaxHeight
      PROVE  b \in Blocks
  <2>1. b \in [1..Len(b) -> Tags]
    BY LenProperties
  <2>. QED
    BY <1>2, <2>1 DEF Blocks
<1>. QED
  BY <1>1, <1>2

LEMMA Prefix ==
  ASSUME NEW b \in Seq(Tags), NEW n \in 0..Len(b)
  PROVE  /\ UpTo(b, n) \in Seq(Tags) /\ Len(UpTo(b, n)) = n
         /\ \A i \in 1..n : UpTo(b, n)[i] = b[i]
<1>1. Len(b) \in Nat /\ \A i \in 1..Len(b) : b[i] \in Tags
  BY LenProperties, ElementOfSeq
<1>2. n \in Nat /\ 1 \in Int /\ \A i \in 1..n : b[i] \in Tags
  BY <1>1
<1>3. /\ SubSeq(b, 1, n) \in Seq(Tags)
      /\ Len(SubSeq(b, 1, n)) = IF 1 <= n THEN n - 1 + 1 ELSE 0
      /\ \A i \in 1..n - 1 + 1 : SubSeq(b, 1, n)[i] = b[1 + i - 1]
  BY <1>2, SubSeqProperties
<1>. QED
  BY <1>2, <1>3 DEF UpTo

\* Two blocks that agree up to a height have the same ancestors up to there.
LEMMA Agree ==
  ASSUME NEW b \in Seq(Tags), NEW c \in Seq(Tags), NEW n \in 0..Len(b), n <= Len(c),
         \A i \in 1..n : b[i] = c[i]
  PROVE  UpTo(b, n) = UpTo(c, n)
<1>1. Len(b) \in Nat /\ Len(c) \in Nat /\ n \in 0..Len(c)
  BY LenProperties
<1>. DEFINE x == UpTo(b, n)
            y == UpTo(c, n)
<1>2. /\ x \in Seq(Tags) /\ Len(x) = n /\ (\A i \in 1..n : x[i] = b[i])
      /\ y \in Seq(Tags) /\ Len(y) = n /\ (\A i \in 1..n : y[i] = c[i])
  BY <1>1, Prefix
<1>. HIDE DEF x, y
<1>3. x = y
  BY <1>2, SeqEqual
<1>. QED
  BY <1>3 DEF x, y

LEMMA PrefixOfPrefix ==
  ASSUME NEW b \in Seq(Tags), NEW n \in 0..Len(b), NEW i \in 0..n
  PROVE  UpTo(UpTo(b, n), i) = UpTo(b, i)
<1>1. Len(b) \in Nat
  BY LenProperties
<1>. DEFINE x == UpTo(b, n)
<1>2. x \in Seq(Tags) /\ Len(x) = n /\ \A k \in 1..n : x[k] = b[k]
  BY Prefix
<1>. HIDE DEF x
<1>3. UpTo(x, i) = UpTo(b, i)
  BY <1>1, <1>2, Agree
<1>. QED
  BY <1>3 DEF x

LEMMA FullPrefix == \A b \in Seq(Tags) : UpTo(b, Len(b)) = b
BY SubSeqFull DEF UpTo

LEMMA PrefixBlocks ==
  ASSUME NEW b \in Blocks
  PROVE  \A n \in 1..Len(b) : UpTo(b, n) \in Blocks
<1>1. b \in Seq(Tags) /\ Len(b) \in 1..MaxHeight
  BY BlockFacts
<1>. SUFFICES ASSUME NEW n \in 1..Len(b)  PROVE UpTo(b, n) \in Blocks
  OBVIOUS
<1>2. UpTo(b, n) \in Seq(Tags) /\ Len(UpTo(b, n)) = n
  BY <1>1, Prefix
<1>3. n \in 1..MaxHeight
  BY <1>1, IndexerNumbers
<1>. QED
  BY <1>2, <1>3, BlockFacts

\* A chain one block longer, and one that forks off.
LEMMA Grown ==
  ASSUME NEW b \in Seq(Tags), NEW x \in Tags
  PROVE  /\ Append(b, x) \in Seq(Tags) /\ Len(Append(b, x)) = Len(b) + 1 /\ Len(b) \in Nat
         /\ \A i \in 1..Len(b) : Append(b, x)[i] = b[i] /\ UpTo(Append(b, x), i) = UpTo(b, i)
<1>. DEFINE c == Append(b, x)
<1>1. /\ c \in Seq(Tags) /\ Len(c) = Len(b) + 1 /\ Len(b) \in Nat
      /\ \A i \in 1..Len(b) : c[i] = b[i]
  BY AppendProperties, LenProperties
<1>. HIDE DEF c
<1>2. ASSUME NEW i \in 1..Len(b)
      PROVE  UpTo(c, i) = UpTo(b, i)
  BY <1>1, Agree
<1>. QED
  BY <1>1, <1>2 DEF c

-----------------------------------------------------------------------------
(* Walks back *)

LEMMA LineFacts ==
  ASSUME NEW h, NEW known
  PROVE  \A p : p \in Line(h, known) <=>
           \E m \in 0..Len(h) : p = UpTo(h, m) /\ \A i \in m + 1..Len(h) : UpTo(h, i) \in known
BY DEF Line

\* More blocks make a walk longer.
LEMMA LineGrows ==
  ASSUME NEW h, NEW known, NEW more, known \subseteq more
  PROVE  Line(h, known) \subseteq Line(h, more)
BY LineFacts

LEMMA LineBegins ==
  ASSUME NEW b \in Blocks, NEW known
  PROVE  /\ b \in Line(b, known)
         /\ b \in known => Line(UpTo(b, Len(b) - 1), known) \subseteq Line(b, known)
<1>. DEFINE n == Len(b)
            h == UpTo(b, n - 1)
<1>1. b \in Seq(Tags) /\ n \in Nat /\ n >= 1 /\ UpTo(b, n) = b
  BY BlockFacts, FullPrefix
<1>2. n \in 0..n /\ \A i \in n + 1..n : FALSE
  BY <1>1
<1>3. b \in Line(b, known)
  BY <1>1, <1>2, LineFacts
<1>4. ASSUME b \in known, NEW p \in Line(h, known)  PROVE p \in Line(b, known)
  <2>1. n - 1 \in 0..Len(b)
    BY <1>1
  <2>2. h \in Seq(Tags) /\ Len(h) = n - 1 /\ \A i \in 0..n - 1 : UpTo(h, i) = UpTo(b, i)
    BY <1>1, <2>1, Prefix, PrefixOfPrefix
  <2>. HIDE DEF h
  <2>3. PICK m \in 0..Len(h) : p = UpTo(h, m) /\ \A i \in m + 1..Len(h) : UpTo(h, i) \in known
    BY <1>4, LineFacts
  <2>4. m \in 0..n - 1 /\ m \in 0..Len(b) /\ p = UpTo(b, m)
    BY <1>1, <2>2, <2>3
  <2>5. ASSUME NEW i \in m + 1..Len(b)  PROVE UpTo(b, i) \in known
    <3>1. CASE i = n
      BY <1>1, <1>4, <3>1
    <3>2. CASE i # n
      <4>1. i \in m + 1..n - 1 /\ i \in 0..n - 1
        BY <1>1, <2>4, <3>2
      <4>. QED
        BY <2>2, <2>3, <4>1
    <3>. QED
      BY <3>1, <3>2
  <2>. QED
    BY <2>4, <2>5, LineFacts
<1>. QED
  BY <1>3, <1>4

\* A walk that meets the walk from h goes on where that one goes.
LEMMA WalksOn ==
  ASSUME NEW h \in Blocks, NEW b \in Blocks, NEW known, NEW n \in 0..Len(h), NEW m \in 0..n,
         UpTo(h, n) \in Line(b, known), \A i \in m + 1..Len(h) : UpTo(h, i) \in known
  PROVE  UpTo(h, m) \in Line(b, known)
<1>1. h \in Seq(Tags) /\ b \in Seq(Tags) /\ Len(h) \in Nat /\ Len(b) \in Nat
  BY BlockFacts
<1>2. PICK k \in 0..Len(b) : UpTo(h, n) = UpTo(b, k) /\ \A i \in k + 1..Len(b) : UpTo(b, i) \in known
  BY LineFacts
<1>3. Len(UpTo(h, n)) = n /\ Len(UpTo(b, k)) = k
  BY <1>1, Prefix
<1>4. k = n
  BY <1>2, <1>3
<1>5. \A i \in 0..n : UpTo(h, i) = UpTo(b, i)
  <2>. SUFFICES ASSUME NEW i \in 0..n  PROVE UpTo(h, i) = UpTo(b, i)
    OBVIOUS
  <2>1. UpTo(UpTo(h, n), i) = UpTo(h, i)
    BY <1>1, PrefixOfPrefix
  <2>2. n \in 0..Len(b) /\ UpTo(UpTo(b, n), i) = UpTo(b, i)
    BY <1>1, <1>4, PrefixOfPrefix
  <2>. QED
    BY <1>2, <1>4, <2>1, <2>2
<1>6. ASSUME NEW i \in m + 1..Len(b)  PROVE UpTo(b, i) \in known
  <2>1. CASE i \in k + 1..Len(b)
    BY <1>2, <2>1
  <2>2. CASE i \notin k + 1..Len(b)
    <3>1. i \in m + 1..Len(h) /\ i \in 0..n
      BY <1>1, <1>4, <2>2
    <3>. QED
      BY <1>5, <3>1
  <2>. QED
    BY <2>1, <2>2
<1>7. m \in 0..Len(b) /\ UpTo(h, m) = UpTo(b, m)
  BY <1>1, <1>4, <1>5
<1>. QED
  BY <1>6, <1>7, LineFacts

\* Two walks that meet the walk from h meet each other.
LEMMA WalksMeet ==
  ASSUME NEW a \in Blocks, NEW h \in Blocks, NEW b \in Blocks, NEW known,
         Line(a, known) \cap Line(h, known) # {}, Line(h, known) \cap Line(b, known) # {}
  PROVE  Line(a, known) \cap Line(b, known) # {}
<1>1. PICK p : p \in Line(a, known) /\ p \in Line(h, known)
  OBVIOUS
<1>2. PICK q : q \in Line(h, known) /\ q \in Line(b, known)
  OBVIOUS
<1>3. PICK m \in 0..Len(h) : p = UpTo(h, m) /\ \A i \in m + 1..Len(h) : UpTo(h, i) \in known
  BY <1>1, LineFacts
<1>4. PICK n \in 0..Len(h) : q = UpTo(h, n) /\ \A i \in n + 1..Len(h) : UpTo(h, i) \in known
  BY <1>2, LineFacts
<1>5. m \in 0..n \/ n \in 0..m
  BY BlockFacts
<1>6. CASE m \in 0..n
  <2>1. UpTo(h, m) \in Line(b, known)
    BY <1>2, <1>3, <1>4, <1>6, WalksOn
  <2>. QED
    BY <1>1, <1>3, <2>1
<1>7. CASE n \in 0..m
  <2>1. UpTo(h, n) \in Line(a, known)
    BY <1>1, <1>3, <1>4, <1>7, WalksOn
  <2>. QED
    BY <1>2, <1>4, <2>1
<1>. QED
  BY <1>5, <1>6, <1>7

\* A block that becomes the head is connected with the old one.
LEMMA NewHeadMeets ==
  ASSUME NEW b \in Blocks, NEW known, b \in known, head \in Blocks, BecomesHead(b, known)
  PROVE  Line(head, known) \cap Line(b, known) # {}
<1>. DEFINE h == UpTo(b, Len(b) - 1)
<1>1. Line(h, known) \subseteq Line(b, known) /\ head \in Line(head, known)
  BY LineBegins
<1>2. CASE h = head
  BY <1>1, <1>2
<1>3. CASE CommonAncestors(b, known) # {}
  <2>1. PICK p : p \in Line(head, known) /\ p \in Line(h, known)
    BY <1>3 DEF CommonAncestors
  <2>. QED
    BY <1>1, <2>1
<1>4. head # None
  BY BlockFacts
<1>5. h = head \/ CommonAncestors(b, known) # {}
  BY <1>4 DEF BecomesHead, Extends
<1>. QED
  BY <1>2, <1>3, <1>5

-----------------------------------------------------------------------------
(* The chain *)

LEMMA TypeFacts ==
  ASSUME IndexerInv
  PROVE  /\ tip \in Blocks /\ tip \in Seq(Tags) /\ Len(tip) \in Nat /\ Len(tip) >= 1
         /\ top \in Nat /\ top <= MaxHeight /\ Len(tip) <= top
         /\ stored \subseteq Blocks /\ sync \in Syncs /\ adopted \subseteq stored
         /\ head # None => head \in Blocks /\ head \in adopted /\ Len(head) \in Nat
<1>1. /\ tip \in Blocks /\ top \in Len(tip)..MaxHeight /\ stored \subseteq Blocks /\ sync \in Syncs
      /\ head \in stored \cup {None} /\ adopted \subseteq stored
  BY DEF IndexerInv, IndexerTypeOK
<1>2. Len(tip) \in Nat /\ Len(tip) >= 1 /\ tip \in Seq(Tags)
  BY <1>1, BlockFacts
<1>3. head # None => head \in Blocks /\ head \in adopted
  BY <1>1 DEF IndexerInv, AdoptedInv
<1>. QED
  BY <1>1, <1>2, <1>3, BlockFacts, IndexerNumbers

LEMMA ChainStep ==
  ASSUME IndexerInv, NEW b \in Blocks, Chain(b), reorgs' \in 0..MaxReorgs
  PROVE  IndexerInv'
<1>1. tip' = b /\ top' = Greatest(top, Len(b)) /\ UNCHANGED <<stored, head, adopted, sync, link, provider, faults>>
  BY DEF Chain, index
<1>2. top' \in Len(b)..MaxHeight
  <2>1. Len(b) \in Nat /\ Len(b) <= MaxHeight /\ top \in Nat /\ top <= MaxHeight
    BY BlockFacts, TypeFacts, IndexerNumbers
  <2>. QED
    BY <1>1, <2>1, IndexerNumbers DEF Greatest
<1>. QED
  BY <1>1, <1>2 DEF IndexerInv, IndexerTypeOK, SyncInv, AdoptedInv, HeadsAreJoined

LEMMA MineStep ==
  ASSUME IndexerInv, Mine
  PROVE  IndexerInv'
<1>. DEFINE b == Append(tip, 0)
<1>1. tip \in Seq(Tags) /\ 0 \in Tags /\ Len(tip) \in Nat /\ Len(tip) >= 1 /\ Len(tip) < MaxHeight
  BY TypeFacts DEF Mine, Tags
<1>2. b \in Seq(Tags) /\ Len(b) = Len(tip) + 1
  BY <1>1, Grown
<1>3. Chain(b) /\ reorgs' \in 0..MaxReorgs
  BY DEF Mine, IndexerInv, IndexerTypeOK
<1>. HIDE DEF b
<1>4. b \in Blocks
  BY <1>1, <1>2, BlockFacts, IndexerNumbers
<1>. QED
  BY <1>3, <1>4, ChainStep

LEMMA ReorgStep ==
  ASSUME IndexerInv, Reorg
  PROVE  IndexerInv'
<1>1. PICK n \in 1..Len(tip) - 1 : n + Window >= top /\ Chain(Append(UpTo(tip, n), 1 - tip[n + 1]))
  BY DEF Reorg
<1>. DEFINE p == UpTo(tip, n)
            b == Append(p, 1 - tip[n + 1])
<1>2. /\ tip \in Seq(Tags) /\ Len(tip) \in Nat /\ Len(tip) <= top /\ top \in Nat /\ top <= MaxHeight
      /\ n \in Nat /\ n >= 1 /\ n < Len(tip) /\ n \in 0..Len(tip)
  BY <1>1, TypeFacts
<1>3. 1 - tip[n + 1] \in Tags
  <2>1. tip[n + 1] \in Tags
    BY <1>2, ElementOfSeq
  <2>. QED
    BY <2>1 DEF Tags
<1>4. p \in Seq(Tags) /\ Len(p) = n
  BY <1>2, Prefix
<1>5. b \in Seq(Tags) /\ Len(b) = n + 1
  <2>. HIDE DEF p
  <2>. QED
    BY <1>3, <1>4, Grown
<1>6. Chain(b) /\ reorgs' \in 0..MaxReorgs
  <2>1. Chain(b)
    BY <1>1
  <2>2. reorgs \in 0..MaxReorgs /\ reorgs < MaxReorgs /\ reorgs' = reorgs + 1
    BY DEF Reorg, IndexerInv, IndexerTypeOK
  <2>. QED
    BY <2>1, <2>2, IndexerNumbers
<1>. HIDE DEF p, b
<1>7. b \in Blocks
  BY <1>2, <1>5, BlockFacts, IndexerNumbers
<1>. QED
  BY <1>6, <1>7, ChainStep

-----------------------------------------------------------------------------
(* The synchronisation *)

\* Only the call of sync_once, and what has failed, changes.
LEMMA SyncStep ==
  ASSUME IndexerInv, UNCHANGED <<tip, top, index, link, provider, reorgs>>, faults' \in 0..MaxFaults,
         sync' \in Syncs, SyncInv'
  PROVE  IndexerInv'
BY DEF IndexerInv, IndexerTypeOK, AdoptedInv, HeadsAreJoined, index

LEMMA BeginsStep ==
  ASSUME IndexerInv, NEW n \in 1..top, Begins(n), faults' \in 0..MaxFaults
  PROVE  IndexerInv'
<1>. DEFINE s == Start(n)
            f == FromNumber(n)
            t == Least(n, Len(tip))
<1>1. /\ top \in Nat /\ Len(tip) \in Nat /\ Len(tip) >= 1 /\ Len(tip) <= top /\ top <= MaxHeight
      /\ n \in Nat /\ n >= 1 /\ n <= top
  BY TypeFacts
<1>2. s \in Nat /\ s >= 1 /\ s <= n /\ s <= Len(tip)
  BY <1>1, IndexerNumbers DEF Start, Begins
<1>3. t \in Nat /\ s <= t /\ t <= MaxHeight
  <2>1. t \in {n, Len(tip)}
    BY DEF Least
  <2>. HIDE DEF s, t
  <2>. QED
    BY <1>1, <1>2, <2>1, IndexerNumbers
<1>4. f \in Nat /\ f >= 1 /\ f <= s
  <2>1. head # None => Len(head) \in Nat
    BY TypeFacts
  <2>. DEFINE m == Len(head)
  <2>2. f = IF head = None THEN s ELSE Least(s, m + 1)
    BY DEF FromNumber
  <2>. HIDE DEF s, f, m
  <2>3. CASE head = None
    BY <1>2, <2>2, <2>3
  <2>4. CASE head # None
    <3>1. m \in Nat /\ f = IF s < m + 1 THEN s ELSE m + 1
      BY <2>1, <2>2, <2>4 DEF Least, m
    <3>. QED
      BY <1>2, <3>1
  <2>. QED
    BY <2>3, <2>4
<1>5. /\ sync' = [pc |-> "block", number |-> f, to |-> t, block |-> None]
      /\ UNCHANGED <<tip, top, index, link, provider, reorgs>>
  BY DEF Begins
<1>. HIDE DEF s, f, t
<1>6. f \in 0..MaxHeight + 1 /\ t \in 0..MaxHeight /\ f \in 1..t
  BY <1>1, <1>2, <1>3, <1>4, IndexerNumbers
<1>7. sync' \in Syncs /\ SyncInv'
  BY <1>5, <1>6 DEF Syncs, SyncInv
<1>. QED
  BY <1>5, <1>7, SyncStep

\* The next block, whatever became of this one.
LEMMA OnwardFacts ==
  ASSUME IndexerInv, sync.pc # "idle", Onward
  PROVE  sync' \in Syncs /\ SyncInv'
<1>1. sync \in Syncs /\ sync.number \in 1..sync.to
  BY DEF IndexerInv, IndexerTypeOK, SyncInv
<1>2. sync.number \in Nat /\ sync.to \in 0..MaxHeight /\ sync.number + 1 \in 0..MaxHeight + 1
  BY <1>1, IndexerNumbers DEF Syncs
<1>. DEFINE pc == IF sync.number < sync.to THEN "block" ELSE "idle"
            num == sync.number + 1
<1>3. sync' = [sync EXCEPT !.pc = pc, !.number = num, !.block = None]
  BY DEF Onward
<1>4. pc \in {"block", "idle"} /\ (pc = "block" => num \in 1..sync.to) /\ num \in 0..MaxHeight + 1
  BY <1>1, <1>2, IndexerNumbers
<1>. HIDE DEF pc, num
<1>5. sync' = [pc |-> pc, number |-> num, to |-> sync.to, block |-> None]
  BY <1>1, <1>3 DEF Syncs
<1>6. sync' \in Syncs
  BY <1>2, <1>4, <1>5 DEF Syncs
<1>. QED
  BY <1>4, <1>5, <1>6 DEF SyncInv

LEMMA FetchBlockStep ==
  ASSUME IndexerInv, FetchBlock
  PROVE  IndexerInv'
<1>1. /\ sync.pc = "block" /\ UNCHANGED <<tip, top, index, link, provider, reorgs, faults>>
      /\ faults' \in 0..MaxFaults
  BY DEF FetchBlock, IndexerInv, IndexerTypeOK
<1>2. CASE sync.number <= Len(tip)
  <2>. DEFINE x == sync.number
              b == UpTo(tip, x)
  <2>1. /\ sync' = [sync EXCEPT !.pc = "logs", !.block = b] /\ sync \in Syncs
        /\ tip \in Blocks /\ Len(tip) \in Nat
    BY <1>2, TypeFacts DEF FetchBlock
  <2>2. x \in 1..sync.to /\ sync.to \in 0..MaxHeight /\ x <= Len(tip) /\ x \in 0..MaxHeight + 1
    BY <1>1, <1>2, <2>1, IndexerNumbers DEF IndexerInv, SyncInv, Syncs
  <2>3. x \in 1..Len(tip)
    BY <2>1, <2>2, IndexerNumbers
  <2>4. b \in Blocks
    BY <2>1, <2>3, PrefixBlocks
  <2>5. x = sync.number
    OBVIOUS
  <2>. HIDE DEF x, b
  <2>6. sync' = [pc |-> "logs", number |-> x, to |-> sync.to, block |-> b]
    BY <2>1, <2>5 DEF Syncs
  <2>7. sync' \in Syncs /\ SyncInv'
    BY <2>2, <2>4, <2>6 DEF Syncs, SyncInv
  <2>. QED
    BY <1>1, <2>7, SyncStep
<1>3. CASE ~(sync.number <= Len(tip))
  <2>1. Onward
    BY <1>3 DEF FetchBlock
  <2>. QED
    BY <1>1, <2>1, OnwardFacts, SyncStep
<1>. QED
  BY <1>2, <1>3

LEMMA IngestStep ==
  ASSUME IndexerInv, Ingest
  PROVE  IndexerInv'
<1>. DEFINE b == sync.block
            known == stored \cup {b}
<1>1. /\ sync.pc = "logs" /\ stored' = known /\ Onward
      /\ IF BecomesHead(b, known) THEN head' = b /\ adopted' = adopted \cup {b} ELSE UNCHANGED <<head, adopted>>
      /\ UNCHANGED <<tip, top, link, provider, reorgs, faults>>
  BY DEF Ingest
<1>2. b \in Blocks /\ b # None
  BY <1>1, BlockFacts DEF IndexerInv, SyncInv
<1>3. sync' \in Syncs /\ SyncInv'
  BY <1>1, OnwardFacts
<1>4. b \in known /\ stored \subseteq known /\ known \subseteq Blocks
  BY <1>2, TypeFacts
<1>. HIDE DEF b, known
<1>5. IndexerTypeOK' /\ AdoptedInv'
  BY <1>1, <1>2, <1>3, <1>4 DEF IndexerInv, IndexerTypeOK, AdoptedInv
<1>6. \A a, c \in adopted : Line(a, known) \cap Line(c, known) # {}
  <2>1. \A a : Line(a, stored) \subseteq Line(a, known)
    BY <1>4, LineGrows
  <2>. QED
    BY <2>1 DEF IndexerInv, HeadsAreJoined
<1>7. ASSUME BecomesHead(b, known)
      PROVE  \A a \in adopted : Line(a, known) \cap Line(b, known) # {}
  <2>1. CASE head = None
    BY <2>1 DEF IndexerInv, AdoptedInv
  <2>2. CASE head # None
    <3>1. head \in Blocks /\ head \in adopted /\ \A a \in adopted : a \in Blocks
      BY <2>2, TypeFacts
    <3>2. Line(head, known) \cap Line(b, known) # {}
      BY <1>2, <1>4, <1>7, <3>1, NewHeadMeets
    <3>. SUFFICES ASSUME NEW a \in adopted  PROVE Line(a, known) \cap Line(b, known) # {}
      OBVIOUS
    <3>3. Line(a, known) \cap Line(head, known) # {} /\ a \in Blocks
      BY <1>6, <3>1
    <3>. QED
      BY <1>2, <3>1, <3>2, <3>3, WalksMeet
  <2>. QED
    BY <2>1, <2>2
<1>8. Line(b, known) \cap Line(b, known) # {}
  BY <1>2, LineBegins
<1>9. \A a, c \in adopted' : Line(a, known) \cap Line(c, known) # {}
  BY <1>1, <1>6, <1>7, <1>8
<1>10. HeadsAreJoined'
  BY <1>1, <1>9 DEF HeadsAreJoined
<1>. QED
  BY <1>3, <1>5, <1>10 DEF IndexerInv

-----------------------------------------------------------------------------
(* Theorems *)

LEMMA InvHoldsAtFirst ==
  ASSUME IndexerInit
  PROVE  IndexerInv
<1>. DEFINE m == Window + 2
<1>1. /\ tip = Base /\ top = Len(Base) /\ link = "down" /\ provider = 1 /\ reorgs = 0 /\ faults = 0
      /\ stored = {} /\ head = None /\ adopted = {}
      /\ sync = [pc |-> "idle", number |-> 0, to |-> 0, block |-> None]
  BY DEF IndexerInit
<1>2. Base \in Seq(Tags) /\ Len(Base) = m
  <2>1. m \in Nat /\ Base = [i \in 1..m |-> 0]
    BY IndexerNumbers DEF Base
  <2>. HIDE DEF m
  <2>2. Base \in [1..m -> Tags]
    BY <2>1 DEF Tags
  <2>3. Base \in Seq(Tags)
    BY <2>1, <2>2, IsASeq
  <2>. QED
    BY <2>1, <2>2, <2>3, LenProperties
<1>3. m \in 1..MaxHeight /\ m \in Nat /\ m \in m..MaxHeight
  BY IndexerNumbers
<1>. HIDE DEF m
<1>4. Base \in Blocks
  BY <1>2, <1>3, BlockFacts
<1>5. sync \in Syncs
  BY <1>1, IndexerNumbers DEF Syncs
<1>6. IndexerTypeOK
  BY <1>1, <1>2, <1>3, <1>4, <1>5, IndexerNumbers DEF IndexerTypeOK, Urls
<1>. QED
  BY <1>1, <1>6 DEF IndexerInv, SyncInv, AdoptedInv, HeadsAreJoined

LEMMA IndexerStep ==
  ASSUME IndexerInv, [IndexerNext]_indexerVars
  PROVE  IndexerInv'
<1>1. IndexerTypeOK /\ sync \in Syncs /\ faults \in 0..MaxFaults /\ reorgs \in 0..MaxReorgs
  BY DEF IndexerInv, IndexerTypeOK
<1>2. CASE Mine \/ Reorg
  BY <1>2, MineStep, ReorgStep
<1>3. CASE Subscriber \/ Drop
  <2>1. /\ UNCHANGED <<tip, top, stored, head, adopted, sync, reorgs>> /\ link' \in {"up", "down"}
        /\ provider' \in {provider, NextUrl(provider)}
    BY <1>1, <1>3 DEF Subscriber, Drop, Connected, Refused, Dropped, index, IndexerTypeOK
  <2>2. provider \in Urls /\ NextUrl(provider) \in Urls
    BY <1>1, IndexerNumbers DEF IndexerTypeOK, NextUrl, Urls
  <2>3. faults' \in 0..MaxFaults
    BY <1>1, <1>3, IndexerNumbers DEF Subscriber, Drop, Dropped
  <2>. QED
    BY <1>1, <2>1, <2>2, <2>3 DEF IndexerInv, IndexerTypeOK, SyncInv, AdoptedInv, HeadsAreJoined
<1>4. CASE OnHead
  <2>1. Len(tip) \in 1..top
    BY TypeFacts
  <2>. QED
    BY <1>1, <1>4, <2>1, BeginsStep DEF OnHead
<1>5. CASE LateHead
  <2>1. faults' \in 0..MaxFaults
    BY <1>1, <1>5, IndexerNumbers DEF LateHead
  <2>. QED
    BY <1>5, <2>1, BeginsStep DEF LateHead
<1>6. CASE FetchBlock \/ Ingest
  BY <1>6, FetchBlockStep, IngestStep
<1>7. CASE FetchFails
  <2>1. faults' \in 0..MaxFaults
    BY <1>1, <1>7, IndexerNumbers DEF FetchFails
  <2>2. sync.pc # "idle" /\ Onward /\ UNCHANGED <<tip, top, index, link, provider, reorgs>>
    BY <1>7 DEF FetchFails
  <2>. QED
    BY <2>1, <2>2, OnwardFacts, SyncStep
<1>8. CASE UNCHANGED indexerVars
  BY <1>8 DEF IndexerInv, IndexerTypeOK, SyncInv, AdoptedInv, HeadsAreJoined, indexerVars, index
<1>. QED
  BY <1>2, <1>3, <1>4, <1>5, <1>6, <1>7, <1>8 DEF IndexerNext

\* The inductive invariant behind the theorems below.
THEOREM IndexerInvariant == IndexerSpec => []IndexerInv
<1>1. IndexerInit => IndexerInv
  BY InvHoldsAtFirst
<1>2. IndexerInv /\ [IndexerNext]_indexerVars => IndexerInv'
  BY IndexerStep
<1>. QED
  BY <1>1, <1>2, PTL DEF IndexerSpec

\* Chain, index, synchronisation and subscriber keep their types; among them, the head
\* is a block that is stored.
THEOREM IndexerTypes == IndexerSpec => []IndexerTypeOK
<1>1. IndexerInv => IndexerTypeOK
  BY DEF IndexerInv
<1>. QED
  BY <1>1, IndexerInvariant, PTL

\* For any window, any chain that reorgs within it and blocks fetched late, twice, out of
\* order or not at all: the head never comes to a branch that the stored blocks do not
\* connect with every block that was the head before.
THEOREM HeadsStayJoined == IndexerSpec => []HeadsAreJoined
<1>1. IndexerInv => HeadsAreJoined
  BY DEF IndexerInv
<1>. QED
  BY <1>1, IndexerInvariant, PTL

=============================================================================

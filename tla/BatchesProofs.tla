---------------------------- MODULE BatchesProofs ----------------------------
(***************************************************************************)
(* Proofs about Batches, for any numbers of batches, items, jobs, threads, *)
(* repeated requests and failures: its types, that what is reserved is the *)
(* sum of the batches, and that items and counts say what the jobs did.    *)
(***************************************************************************)
EXTENDS Batches, FiniteSetTheorems, WellFoundedInduction, TLAPS

\* The jobs an item or its submitting thread refers to.
Named(b, i) == {item[b][i].job, sub[b][i].job} \ {NoJob}

\* A coordinator past its first step works on a running batch; the counts of a closed
\* batch are those of its items, also while a repeated request waits to run it again.
BatchInv(b) ==
  /\ coord[b] \in {"submit", "watch", "more", "close"} => batch[b].status = "running"
  /\ batch[b].status \in Closed => batch[b].counts = Counted(b)
  /\ batch[b].status = "complete" => \A i \in ItemsOf(b) : item[b][i].status \notin {"queued", "running", "failed"}
  /\ ~Exists(b) => /\ coord[b] = "none" /\ batch[b].total = 0
                   /\ \A i \in Positions : item[b][i] = NoItem

\* An item is submitted only under its coordinator, and only without a job.
ItemInv(b, i) ==
  LET r == item[b][i]  s == sub[b][i] IN
  /\ s # Gone => coord[b] = "submit" /\ r.job = NoJob
  /\ s.pc \in {"none", "todo", "resolve"} => s.job = NoJob
  /\ r.status = "queued" => r.job = NoJob
  /\ r.status = "completed" => r.job # NoJob /\ Reported(r.job)
  /\ r.status = "failed" /\ r.job # NoJob => status[r.job] = "failed"

\* A job whose report an item refers to, after the step.
ReportedNext(j) == status'[j] \in Succeeded \/ j \in late'

RowsInv == \A b \in BatchIds : BatchInv(b) /\ \A i \in Positions : ItemInv(b, i)

\* Every job has one owner, and without failures every owner is found again.
JobsInv ==
  /\ \A b \in BatchIds, i \in Positions : \A j \in Named(b, i) : status[j] # "none"
  /\ \A b, c \in BatchIds, i, k \in Positions : \A j \in Named(b, i) \cap Named(c, k) : b = c /\ i = k
  /\ crashes + failures = 0 =>
       \A j \in Jobs : status[j] # "none" => \E b \in BatchIds, i \in Positions : j \in Named(b, i)

IInv ==
  /\ TypeOK
  /\ RowsInv /\ JobsInv /\ ReservedExactly

-----------------------------------------------------------------------------
(* Sums over a finite set *)

Any(s) == CHOOSE x \in s : TRUE

\* f sums the totals of rows over the subsets of S, as MapThenSumSet does.
Sums(f, rows, D) ==
  f = [s \in D |-> IF s = {} THEN 0 ELSE rows[CHOOSE x \in s : TRUE].total + f[s \ {CHOOSE x \in s : TRUE}]]

SumFcn(rows, S) ==
  CHOOSE f : f = [s \in SUBSET S |->
    IF s = {} THEN 0 ELSE rows[CHOOSE x \in s : TRUE].total + f[s \ {CHOOSE x \in s : TRUE}]]

LEMMA ReservedSum == Reserved = SumFcn(batch, BatchIds)[BatchIds]
BY DEF Reserved, SumFcn, MapThenSumSet, MapThenFoldSet

LEMMA Least ==
  ASSUME NEW T \in SUBSET Nat, T # {}
  PROVE  \E k \in T : \A l \in T : k <= l
<1>1. PICK k \in T : \A l \in T : <<l, k>> \notin OpToRel(<, Nat)
  BY WFMin, NatLessThanWellFounded, Zenon
<1>2. \A l \in T : ~(l < k)
  BY <1>1 DEF OpToRel
<1>. QED
  BY <1>2

LEMMA Smaller ==
  ASSUME NEW s, IsFiniteSet(s), s # {}
  PROVE  /\ Any(s) \in s /\ IsFiniteSet(s \ {Any(s)})
         /\ Cardinality(s) \in Nat \ {0} /\ Cardinality(s \ {Any(s)}) = Cardinality(s) - 1
<1>1. Any(s) \in s
  BY DEF Any
<1>2. Cardinality(s) \in Nat /\ Cardinality(s) # 0
  BY FS_CardinalityType, FS_EmptySet
<1>. QED
  BY <1>1, <1>2, FS_RemoveElement

UpTo(S, k) == {s \in SUBSET S : Cardinality(s) <= k}

LEMMA SumsExist ==
  ASSUME NEW S, IsFiniteSet(S), NEW rows
  PROVE  Sums(SumFcn(rows, S), rows, SUBSET S)
<1>. DEFINE Good(k) == \E f : Sums(f, rows, UpTo(S, k))
            Bad == {k \in Nat : ~Good(k)}
<1>1. \A s \in SUBSET S : IsFiniteSet(s) /\ Cardinality(s) \in Nat /\ Cardinality(s) <= Cardinality(S)
  BY FS_Subset, FS_CardinalityType
<1>2. Bad = {}
  <2>1. SUFFICES ASSUME Bad # {} PROVE FALSE
    OBVIOUS
  <2>2. PICK k \in Bad : \A l \in Bad : k <= l
    BY <2>1, Least
  <2>3. CASE k = 0
    <3>1. \A s \in UpTo(S, 0) : s = {}
      BY <1>1, FS_EmptySet DEF UpTo
    <3>2. Sums([s \in UpTo(S, 0) |-> 0], rows, UpTo(S, 0))
      BY <3>1 DEF Sums
    <3>. QED
      BY <2>3, <3>2
  <2>4. CASE k # 0
    <3>1. k - 1 \in Nat /\ Good(k - 1)
      BY <2>2, <2>4
    <3>2. PICK f : Sums(f, rows, UpTo(S, k - 1))
      BY <3>1
    <3>3. PICK g : g = [s \in UpTo(S, k) |-> IF s = {} THEN 0 ELSE rows[Any(s)].total + f[s \ {Any(s)}]]
      OBVIOUS
    <3>4. UpTo(S, k - 1) \subseteq UpTo(S, k)
      BY <1>1, <3>1 DEF UpTo
    <3>5. \A u \in UpTo(S, k - 1) : g[u] = f[u]
      BY <3>2, <3>3, <3>4 DEF Sums, Any
    <3>6. ASSUME NEW s \in UpTo(S, k), s # {}
          PROVE  s \ {Any(s)} \in UpTo(S, k - 1)
      BY <1>1, <3>1, <3>6, Smaller DEF UpTo
    <3>7. \A s \in UpTo(S, k) : s # {} => f[s \ {Any(s)}] = g[s \ {Any(s)}]
      BY <3>5, <3>6
    <3>8. g = [s \in UpTo(S, k) |-> IF s = {} THEN 0 ELSE rows[Any(s)].total + g[s \ {Any(s)}]]
      BY <3>3, <3>7
    <3>9. Sums(g, rows, UpTo(S, k))
      BY <3>8 DEF Sums, Any
    <3>. QED
      BY <2>2, <3>9
  <2>. QED
    BY <2>3, <2>4
<1>3. Cardinality(S) \in Nat /\ UpTo(S, Cardinality(S)) = SUBSET S
  BY <1>1, FS_CardinalityType DEF UpTo
<1>4. \E f : Sums(f, rows, SUBSET S)
  BY <1>2, <1>3
<1>. QED
  BY <1>4 DEF Sums, SumFcn

LEMMA SumRule ==
  ASSUME NEW S, IsFiniteSet(S), NEW rows
  PROVE  /\ SumFcn(rows, S)[{}] = 0
         /\ \A s \in SUBSET S :
              s # {} => SumFcn(rows, S)[s] = rows[Any(s)].total + SumFcn(rows, S)[s \ {Any(s)}]
<1>1. PICK f : f = SumFcn(rows, S)
  OBVIOUS
<1>2. Sums(f, rows, SUBSET S)
  BY <1>1, SumsExist
<1>3. f = [s \in SUBSET S |-> IF s = {} THEN 0 ELSE rows[Any(s)].total + f[s \ {Any(s)}]]
  BY <1>2 DEF Sums, Any
<1>4. f[{}] = 0 /\ \A s \in SUBSET S : s # {} => f[s] = rows[Any(s)].total + f[s \ {Any(s)}]
  BY <1>3
<1>. QED
  BY <1>1, <1>4

\* What every nonempty subset takes over from the subset without its Any has all of them.
LEMMA EverySubset ==
  ASSUME NEW S, IsFiniteSet(S), NEW G \in SUBSET SUBSET S, {} \in G,
         \A s \in SUBSET S : s # {} /\ s \ {Any(s)} \in G => s \in G
  PROVE  S \in G
<1>. DEFINE Bad == {k \in Nat : \E s \in SUBSET S : Cardinality(s) = k /\ s \notin G}
<1>1. \A s \in SUBSET S : IsFiniteSet(s) /\ Cardinality(s) \in Nat
  BY FS_Subset, FS_CardinalityType
<1>2. ASSUME S \notin G PROVE FALSE
  <2>1. Bad # {}
    BY <1>1, <1>2
  <2>2. PICK k \in Bad : \A l \in Bad : k <= l
    BY <2>1, Least
  <2>3. PICK s \in SUBSET S : Cardinality(s) = k /\ s \notin G
    BY <2>2
  <2>4. s # {} /\ s \ {Any(s)} \notin G
    BY <2>3
  <2>5. Cardinality(s \ {Any(s)}) = k - 1 /\ k - 1 \in Nat
    BY <1>1, <2>3, <2>4, Smaller
  <2>6. k - 1 \in Bad
    BY <2>4, <2>5
  <2>. QED
    BY <2>2, <2>5, <2>6
<1>. QED
  BY <1>2

\* A sum is a number, none of nothing, and grows with one of its summands.
LEMMA SumGrows ==
  ASSUME NEW S, IsFiniteSet(S), NEW rows, NEW next, NEW b \in S, NEW n \in Nat,
         \A x \in S : rows[x].total \in Nat /\ next[x].total = IF x = b THEN rows[x].total + n ELSE rows[x].total
  PROVE  /\ SumFcn(rows, S)[S] \in Nat
         /\ SumFcn(next, S)[S] = SumFcn(rows, S)[S] + n
<1>. DEFINE f == SumFcn(rows, S)
            g == SumFcn(next, S)
            G == {s \in SUBSET S : f[s] \in Nat /\ g[s] = IF b \in s THEN f[s] + n ELSE f[s]}
<1>1. f[{}] = 0 /\ g[{}] = 0
  BY SumRule
<1>2. ASSUME NEW s \in SUBSET S, s # {}, s \ {Any(s)} \in G PROVE s \in G
  <2>1. PICK x : x = Any(s)
    OBVIOUS
  <2>2. PICK u : u = s \ {x}
    OBVIOUS
  <2>3. x \in s /\ x \in S
    BY <1>2, <2>1 DEF Any
  <2>4. f[s] = rows[x].total + f[u] /\ g[s] = next[x].total + g[u]
    BY <1>2, <2>1, <2>2, SumRule
  <2>5. f[u] \in Nat /\ g[u] = IF b \in u THEN f[u] + n ELSE f[u]
    BY <1>2, <2>1, <2>2
  <2>6. b \in s <=> (x = b \/ b \in u)
    BY <2>2, <2>3
  <2>7. x = b => b \notin u
    BY <2>2
  <2>8. rows[x].total \in Nat /\ next[x].total = IF x = b THEN rows[x].total + n ELSE rows[x].total
    BY <2>3
  <2>. HIDE DEF f, g
  <2>9. f[s] \in Nat /\ g[s] = IF b \in s THEN f[s] + n ELSE f[s]
    BY <2>4, <2>5, <2>6, <2>7, <2>8
  <2>. QED
    BY <2>9
<1>3. S \in G
  <2>1. {} \in G
    BY <1>1
  <2>. HIDE DEF G
  <2>2. G \in SUBSET SUBSET S
    BY DEF G
  <2>. QED
    BY <1>2, <2>1, <2>2, EverySubset
<1>. QED
  BY <1>3

LEMMA SumOfZeros ==
  ASSUME NEW S, IsFiniteSet(S), NEW rows, \A x \in S : rows[x].total = 0
  PROVE  SumFcn(rows, S)[S] = 0
<1>. DEFINE f == SumFcn(rows, S)
            G == {s \in SUBSET S : f[s] = 0}
<1>1. {} \in G
  BY SumRule
<1>2. ASSUME NEW s \in SUBSET S, s # {}, s \ {Any(s)} \in G PROVE s \in G
  <2>1. f[s] = rows[Any(s)].total + f[s \ {Any(s)}] /\ Any(s) \in S
    BY <1>2, SumRule DEF Any
  <2>. QED
    BY <1>2, <2>1
<1>3. S \in G
  <2>. HIDE DEF G
  <2>1. G \in SUBSET SUBSET S
    BY DEF G
  <2>. QED
    BY <1>1, <1>2, <2>1, EverySubset
<1>. QED
  BY <1>3

-----------------------------------------------------------------------------
(* Types *)

BatchRows == [status : {"none"} \cup Active \cup Closed, key : Keys \cup {NoKey}, total : Nat, counts : Counts]
ItemRows == [status : {"none", "queued", "running", "completed", "failed"}, job : Jobs \cup {NoJob}]
SubRows == [pc : {"none", "todo", "resolve", "link"}, job : Jobs \cup {NoJob}]

\* What the counts of a batch of n items are.
CountIn(rows, n, s) == Cardinality({i \in 1..n : rows[i].status = s})
CountsIn(rows, n) == [s \in DOMAIN Zero |-> CountIn(rows, n, s)]

LEMMA CountedIsCountsIn ==
  /\ \A b \in BatchIds : Counted(b) = CountsIn(item[b], batch[b].total)
  /\ \A b \in BatchIds : CountOf(b, "failed") = CountIn(item[b], batch[b].total, "failed")
BY DEF Counted, CountsIn, CountIn, CountOf, ItemsOf

LEMMA CountTypes ==
  ASSUME NEW rows, NEW n \in Nat
  PROVE  /\ CountsIn(rows, n) \in Counts
         /\ CountIn(rows, n, "failed") \in Nat
<1>1. \A s : CountIn(rows, n, s) \in Nat
  <2>. TAKE s
  <2>1. IsFiniteSet(1..n)
    BY FS_Interval
  <2>2. IsFiniteSet({i \in 1..n : rows[i].status = s})
    BY <2>1, FS_Subset
  <2>. QED
    BY <2>2, FS_CardinalityType DEF CountIn
<1>2. DOMAIN Zero = {"queued", "running", "completed", "failed"}
  BY DEF Zero
<1>3. CountsIn(rows, n) = [queued |-> CountsIn(rows, n)["queued"], running |-> CountsIn(rows, n)["running"],
                           completed |-> CountsIn(rows, n)["completed"], failed |-> CountsIn(rows, n)["failed"]]
  BY <1>2 DEF CountsIn
<1>4. \A s \in DOMAIN Zero : CountsIn(rows, n)[s] \in Nat
  BY <1>1 DEF CountsIn
<1>. QED
  BY <1>1, <1>2, <1>3, <1>4 DEF Counts

LEMMA Numbers ==
  /\ Quota \in Nat /\ MaxActive \in Nat /\ MaxBatches \in Nat /\ MaxRepeats \in Nat /\ MaxFailures \in Nat
  /\ Concurrency \in Nat \ {0} /\ Coordinators \in Nat \ {0}
  /\ \A n \in Sizes : n \in Nat
BY BatchesAssumption

LEMMA TypeInit == Init => TypeOK
BY DEF Init, JobInit, JobStatuses, TypeOK, Zero, NoItem, Gone, NoJob, Counts

\* The types of all but the named variables are kept.
Typed(bs, is, us, cs, ss) ==
  /\ bs \in [BatchIds -> BatchRows] /\ is \in [BatchIds -> [Positions -> ItemRows]]
  /\ us \in [reserved : Nat, completed : Nat, failed : Nat]
  /\ cs \in [BatchIds -> {"none", "waiting", "submit", "watch", "more", "close", "tally"}]
  /\ ss \in [BatchIds -> [Positions -> SubRows]]

LEMMA TypeParts ==
  TypeOK <=> /\ Typed(batch, item, usage, coord, sub)
             /\ repeats \in Nat /\ crashes \in Nat /\ failures \in Nat
             /\ late \subseteq Jobs /\ status \in [Jobs -> JobStatuses]
BY DEF TypeOK, Typed, BatchRows, ItemRows, SubRows

LEMMA CoordinateType ==
  ASSUME Typed(batch, item, usage, coord, sub), NEW b \in BatchIds, Coordinate(b)
  PROVE  Typed(batch, item, usage, coord', sub)
BY DEF Typed, Coordinate

\* f with the row of one item replaced.
Put(f, b, i, r) ==
  [c \in BatchIds |-> IF c = b THEN [k \in Positions |-> IF k = i THEN r ELSE f[c][k]] ELSE f[c]]

ItemRow(st, job) == [status |-> st, job |-> job]
SubRow(pc, job) == [pc |-> pc, job |-> job]

LEMMA Fields ==
  /\ \A r \in ItemRows : r = ItemRow(r.status, r.job) /\ r.job \in Jobs \cup {NoJob}
  /\ \A s \in SubRows : s = SubRow(s.pc, s.job) /\ s.job \in Jobs \cup {NoJob}
  /\ \A st, job : ItemRow(st, job).status = st /\ ItemRow(st, job).job = job
  /\ \A pc, job : SubRow(pc, job).pc = pc /\ SubRow(pc, job).job = job
  /\ \A st \in {"none", "queued", "running", "completed", "failed"}, job \in Jobs \cup {NoJob} :
       ItemRow(st, job) \in ItemRows
  /\ \A pc \in {"none", "todo", "resolve", "link"}, job \in Jobs \cup {NoJob} : SubRow(pc, job) \in SubRows
  /\ Gone = SubRow("none", NoJob) /\ NoItem = ItemRow("none", NoJob)
BY DEF ItemRow, SubRow, ItemRows, SubRows, Gone, NoItem

\* The rows of one item after a step of its submitting thread.
Moved(b, i, r, s) ==
  /\ item' = Put(item, b, i, r) /\ sub' = Put(sub, b, i, s)
  /\ UNCHANGED <<usage, coord, repeats, crashes>>

LEMMA PutItem ==
  ASSUME item \in [BatchIds -> [Positions -> ItemRows]], NEW b \in BatchIds, NEW i \in Positions, NEW r \in ItemRows
  PROVE  /\ Put(item, b, i, r) \in [BatchIds -> [Positions -> ItemRows]]
         /\ [item EXCEPT ![b][i] = r] = Put(item, b, i, r)
         /\ r = item[b][i] => Put(item, b, i, r) = item
BY DEF Put

LEMMA PutSub ==
  ASSUME sub \in [BatchIds -> [Positions -> SubRows]], NEW b \in BatchIds, NEW i \in Positions, NEW r \in SubRows
  PROVE  /\ Put(sub, b, i, r) \in [BatchIds -> [Positions -> SubRows]]
         /\ [sub EXCEPT ![b][i] = r] = Put(sub, b, i, r)
BY DEF Put

LEMMA SubmitterMoves ==
  ASSUME Typed(batch, item, usage, coord, sub), NEW b \in BatchIds, NEW i \in Positions
  PROVE  LET r == item[b][i]  s == sub[b][i] IN
         /\ MarkItem(b, i) => Moved(b, i, ItemRow("running", r.job), SubRow("resolve", s.job))
         /\ RejectItem(b, i) \/ LinkFails(b, i) => Moved(b, i, ItemRow("failed", r.job), Gone)
         /\ LinkItem(b, i) => Moved(b, i, ItemRow("running", s.job), Gone)
         /\ SubmitItem(b, i) => \E j \in Jobs : SubmitJob(j) /\ Moved(b, i, r, SubRow("link", j))
         /\ MarkFails(b, i) => Moved(b, i, ItemRow("failed", r.job), Gone)
<1>. DEFINE r == item[b][i]  s == sub[b][i]
<1>1. /\ item \in [BatchIds -> [Positions -> ItemRows]] /\ sub \in [BatchIds -> [Positions -> SubRows]]
      /\ r \in ItemRows /\ s \in SubRows
  BY DEF Typed
<1>2. ASSUME NEW v PROVE [item EXCEPT ![b][i].status = v] = [item EXCEPT ![b][i] = ItemRow(v, r.job)]
  <2>1. [r EXCEPT !.status = v] = ItemRow(v, r.job)
    BY <1>1 DEF ItemRows, ItemRow
  <2>. QED
    BY <1>1, <2>1
<1>3. ASSUME NEW v PROVE [sub EXCEPT ![b][i].pc = v] = [sub EXCEPT ![b][i] = SubRow(v, s.job)]
  <2>1. [s EXCEPT !.pc = v] = SubRow(v, s.job)
    BY <1>1 DEF SubRows, SubRow
  <2>. QED
    BY <1>1, <2>1
<1>4. ASSUME NEW st \in {"none", "queued", "running", "completed", "failed"}, NEW job \in Jobs \cup {NoJob}
      PROVE  [item EXCEPT ![b][i] = ItemRow(st, job)] = Put(item, b, i, ItemRow(st, job))
  BY <1>1, Fields, PutItem
<1>5. ASSUME NEW pc \in {"none", "todo", "resolve", "link"}, NEW job \in Jobs \cup {NoJob}
      PROVE  [sub EXCEPT ![b][i] = SubRow(pc, job)] = Put(sub, b, i, SubRow(pc, job))
  BY <1>1, Fields, PutSub
<1>6. Gone = SubRow("none", NoJob) /\ s.job \in Jobs \cup {NoJob} /\ r.job \in Jobs \cup {NoJob}
  BY <1>1, Fields
<1>7. Put(item, b, i, r) = item
  BY <1>1, PutItem
<1>8. MarkItem(b, i) => Moved(b, i, ItemRow("running", r.job), SubRow("resolve", s.job))
  BY <1>2, <1>3, <1>4, <1>5, <1>6 DEF MarkItem, Moved, counters
<1>9. RejectItem(b, i) \/ LinkFails(b, i) \/ MarkFails(b, i) => Moved(b, i, ItemRow("failed", r.job), Gone)
  BY <1>2, <1>4, <1>5, <1>6 DEF RejectItem, LinkFails, MarkFails, Moved, counters
<1>10. LinkItem(b, i) => Moved(b, i, ItemRow("running", s.job), Gone)
  BY <1>4, <1>5, <1>6 DEF LinkItem, ItemRow, Moved, counters
<1>11. SubmitItem(b, i) => \E j \in Jobs : SubmitJob(j) /\ Moved(b, i, r, SubRow("link", j))
  BY <1>5, <1>7 DEF SubmitItem, SubRow, Moved
<1>. QED
  BY <1>8, <1>9, <1>10, <1>11

TypedNext ==
  /\ Typed(batch', item', usage', coord', sub')
  /\ repeats' \in Nat /\ crashes' \in Nat /\ failures' \in Nat /\ late' \subseteq Jobs
  /\ status' \in [Jobs -> JobStatuses]

LEMMA TypeStep == TypeOK /\ [Next]_vars => TypeOK'
<1>. SUFFICES ASSUME TypeOK, [Next]_vars PROVE TypedNext
  BY DEF TypeOK, TypedNext, Typed, BatchRows, ItemRows, SubRows
<1>1. /\ Typed(batch, item, usage, coord, sub)
      /\ repeats \in Nat /\ crashes \in Nat /\ failures \in Nat /\ late \subseteq Jobs
      /\ status \in [Jobs -> JobStatuses]
  BY TypeParts
<1>2. Gone \in SubRows /\ NoItem \in ItemRows /\ Zero \in Counts
  BY DEF Gone, NoItem, Zero, SubRows, ItemRows, Counts
<1>3. CASE UNCHANGED vars
  BY <1>1, <1>3 DEF vars, counters, TypedNext
<1>4. ASSUME NEW key \in Keys \cup {NoKey}, NEW n \in Sizes, RepeatBatch(key, n) PROVE TypedNext
  BY <1>1, <1>4 DEF RepeatBatch, Holders, Coordinate, Typed, TypedNext
<1>5. ASSUME NEW key \in Keys \cup {NoKey}, NEW n \in Sizes, NewBatch(key, n) PROVE TypedNext
  <2>1. n \in Nat
    BY Numbers
  <2>2. [status |-> "queued", key |-> key, total |-> n, counts |-> [Zero EXCEPT !.queued = n]] \in BatchRows
    BY <2>1 DEF BatchRows, Active, Zero, Counts
  <2>3. [i \in Positions |-> IF i <= n THEN [NoItem EXCEPT !.status = "queued"] ELSE NoItem] \in [Positions -> ItemRows]
    BY DEF ItemRows, NoItem
  <2>4. PICK b \in BatchIds :
          /\ batch' = [batch EXCEPT ![b] =
               [status |-> "queued", key |-> key, total |-> n, counts |-> [Zero EXCEPT !.queued = n]]]
          /\ item' = [item EXCEPT ![b] = [i \in Positions |->
               IF i <= n THEN [NoItem EXCEPT !.status = "queued"] ELSE NoItem]]
          /\ Coordinate(b)
    BY <1>5 DEF NewBatch
  <2>5. batch' \in [BatchIds -> BatchRows]
    BY <1>1, <2>2, <2>4 DEF Typed
  <2>6. item' \in [BatchIds -> [Positions -> ItemRows]]
    BY <1>1, <2>3, <2>4 DEF Typed
  <2>7. usage' \in [reserved : Nat, completed : Nat, failed : Nat]
    BY <1>1, <1>5, <2>1 DEF NewBatch, Typed
  <2>. QED
    BY <1>1, <1>5, <2>4, <2>5, <2>6, <2>7 DEF NewBatch, Coordinate, Typed, TypedNext, counters
<1>6. ASSUME NEW b \in BatchIds, Begin(b) PROVE TypedNext
  BY <1>1, <1>6, <1>2 DEF Begin, Typed, TypedNext, counters, Failure, BatchRows, Active, SubRows, Gone
<1>7. ASSUME NEW b \in BatchIds, Submitted(b) PROVE TypedNext
  BY <1>1, <1>7 DEF Submitted, Typed, TypedNext, counters, Failure
<1>8. ASSUME NEW b \in BatchIds, Watch(b) PROVE TypedNext
  <2>1. ASSUME NEW r \in ItemRows PROVE [r EXCEPT !.status = Outcome(r)] \in ItemRows
    BY DEF ItemRows, Outcome
  <2>2. [i \in Positions |-> [item[b][i] EXCEPT !.status = Outcome(item[b][i])]] \in [Positions -> ItemRows]
    BY <1>1, <2>1 DEF Typed
  <2>. QED
    BY <1>1, <1>8, <2>2 DEF Watch, Typed, TypedNext, counters
<1>9. ASSUME NEW b \in BatchIds, Close(b) PROVE TypedNext
  <2>1. Counted(b) \in Counts
    BY <1>1, CountedIsCountsIn, CountTypes DEF Typed, BatchRows
  <2>2. \A c : Verdict(c) \in Closed
    BY DEF Verdict, Closed
  <2>3. PICK st \in {"running"} \cup Closed :
          batch' = [batch EXCEPT ![b].counts = Counted(b), ![b].status = st]
    BY <1>9, <2>2 DEF Close
  <2>4. Typed(batch', item, usage, coord, sub)
    BY <1>1, <2>1, <2>3 DEF Typed, BatchRows, Active
  <2>. QED
    BY <1>1, <1>9, <2>4 DEF Close, Typed, TypedNext, counters
<1>10. ASSUME NEW b \in BatchIds, Tally(b) PROVE TypedNext
  <2>1. batch[b].counts.completed \in Nat /\ batch[b].counts.failed \in Nat
    BY <1>1 DEF Typed, BatchRows, Counts
  <2>3. PICK m \in Nat, n \in Nat : usage' = [usage EXCEPT !.completed = m, !.failed = n]
    <3>1. usage.completed + batch[b].counts.completed \in Nat /\ usage.failed + batch[b].counts.failed \in Nat
      BY <1>1, <2>1 DEF Typed
    <3>. QED
      BY <1>10, <3>1 DEF Tally
  <2>2. usage' \in [reserved : Nat, completed : Nat, failed : Nat]
    BY <1>1, <2>3 DEF Typed
  <2>. QED
    BY <1>1, <1>10, <2>2 DEF Tally, Typed, TypedNext, counters
<1>11. ASSUME NEW b \in BatchIds, CoordinatorFails(b) PROVE TypedNext
  <2>1. batch' \in [BatchIds -> BatchRows]
    <3>1. batch \in [BatchIds -> BatchRows]
      BY <1>1 DEF Typed
    <3>2. \A r \in BatchRows : [r EXCEPT !.status = "running"] \in BatchRows
      BY DEF BatchRows, Active
    <3>3. batch' = batch \/ batch' = [batch EXCEPT ![b].status = "running"]
      BY <1>11 DEF CoordinatorFails
    <3>. QED
      BY <3>1, <3>2, <3>3
  <2>. QED
    <3>1. failures' \in Nat /\ UNCHANGED <<item, usage, sub, status, repeats, crashes, late>>
      BY <1>1, <1>11 DEF CoordinatorFails, Failure
    <3>2. coord' = [coord EXCEPT ![b] = "none"]
      BY <1>11 DEF CoordinatorFails
    <3>. QED
      BY <1>1, <2>1, <3>1, <3>2 DEF Typed, TypedNext
<1>12. ASSUME NEW b \in BatchIds, NEW i \in Positions, MarkItem(b, i) \/ RejectItem(b, i) \/ LinkItem(b, i) \/ LinkFails(b, i)
       PROVE  TypedNext
  <2>1. item[b][i] \in ItemRows /\ sub[b][i] \in SubRows
    BY <1>1 DEF Typed
  <2>2. PICK r \in ItemRows, s \in SubRows : Moved(b, i, r, s)
    BY <1>1, <1>2, <1>12, <2>1, SubmitterMoves, Fields
  <2>3. item' \in [BatchIds -> [Positions -> ItemRows]] /\ sub' \in [BatchIds -> [Positions -> SubRows]]
    BY <1>1, <2>2, PutItem, PutSub DEF Moved, Typed
  <2>4. batch' = batch /\ status' = status /\ failures' \in Nat /\ late' = late
    BY <1>1, <1>12 DEF MarkItem, RejectItem, LinkItem, LinkFails, Failure, counters
  <2>. QED
    BY <1>1, <2>2, <2>3, <2>4 DEF Moved, Typed, TypedNext
<1>16. ASSUME NEW b \in BatchIds, NEW i \in Positions, SubmitItem(b, i) PROVE TypedNext
  <2>1. PICK j \in Jobs : SubmitJob(j) /\ sub' = [sub EXCEPT ![b][i] = [pc |-> "link", job |-> j]]
    BY <1>16 DEF SubmitItem
  <2>2. status' \in [Jobs -> JobStatuses]
    BY <1>1, <2>1 DEF SubmitJob, Move, JobStatuses
  <2>3. Typed(batch, item, usage, coord, sub')
    BY <1>1, <2>1 DEF Typed, SubRows
  <2>. QED
    BY <1>1, <1>16, <2>2, <2>3 DEF SubmitItem, TypedNext
<1>17. ASSUME NEW b \in BatchIds, NEW i \in Positions, MarkFails(b, i) PROVE TypedNext
  <2>0. batch[b].total \in Nat
    BY <1>1 DEF Typed, BatchRows
  <2>1. CountOf(b, "failed") \in Nat
    BY <2>0, CountTypes, CountedIsCountsIn
  <2>2. batch' \in [BatchIds -> BatchRows]
    <3>1. batch \in [BatchIds -> BatchRows] /\ batch[b] \in BatchRows
      BY <1>1 DEF Typed
    <3>2. \A r \in BatchRows, n \in Nat : [r EXCEPT !.counts.failed = n] \in BatchRows
      BY DEF BatchRows, Counts
    <3>3. PICK n \in Nat : batch' = [batch EXCEPT ![b].counts.failed = n]
      <4>1. CountOf(b, "failed") + 1 \in Nat
        BY <2>1
      <4>. QED
        BY <1>17, <4>1 DEF MarkFails
    <3>4. batch' = [batch EXCEPT ![b] = [batch[b] EXCEPT !.counts.failed = n]]
      BY <3>1, <3>3
    <3>. QED
      BY <3>1, <3>2, <3>4
  <2>3. Moved(b, i, ItemRow("failed", item[b][i].job), Gone) /\ ItemRow("failed", item[b][i].job) \in ItemRows
    BY <1>1, <1>17, SubmitterMoves, Fields DEF Typed
  <2>4. item' \in [BatchIds -> [Positions -> ItemRows]] /\ sub' \in [BatchIds -> [Positions -> SubRows]]
    BY <1>1, <1>2, <2>3, PutItem, PutSub DEF Moved, Typed
  <2>. QED
    BY <1>1, <1>17, <2>2, <2>4 DEF MarkFails, Failure, Typed, TypedNext
<1>18. CASE JobsMove
  <2>1. status' \in [Jobs -> JobStatuses]
    <3>1. ASSUME NEW j \in Jobs, StartJob(j) \/ FinishJob(j) PROVE status' \in [Jobs -> JobStatuses]
      BY <1>1, <3>1 DEF StartJob, FinishJob, Move, JobStatuses
    <3>2. ASSUME NEW S \in SUBSET Jobs, RequeueJobs(S) PROVE status' \in [Jobs -> JobStatuses]
      BY <1>1, <3>2 DEF RequeueJobs, JobStatuses
    <3>3. ASSUME NEW j \in Jobs, FailLate(j) PROVE status' \in [Jobs -> JobStatuses]
      BY <1>1, <3>3, BatchesAssumption DEF FailLate, Move, JobStatuses
    <3>. QED
      BY <1>18, <3>1, <3>2, <3>3 DEF JobsMove
  <2>2. failures' \in Nat /\ late' \subseteq Jobs
    BY <1>1, <1>18 DEF JobsMove, Failure
  <2>. QED
    BY <1>1, <1>18, <2>1, <2>2 DEF JobsMove, TypedNext
<1>19. CASE Crash
  <2>1. item' \in [BatchIds -> [Positions -> ItemRows]]
    <3>1. \A r \in ItemRows : [r EXCEPT !.status = "queued"] \in ItemRows
      BY DEF ItemRows
    <3>. QED
      BY <1>1, <1>19, <3>1 DEF Crash, Typed
  <2>. QED
    BY <1>1, <1>2, <1>19, <2>1 DEF Crash, Typed, TypedNext
<1>. QED
  BY <1>3, <1>4, <1>5, <1>6, <1>7, <1>8, <1>9, <1>10, <1>11, <1>12, <1>16, <1>17, <1>18, <1>19
     DEF Next, Coordinator, Submitter

-----------------------------------------------------------------------------
(* Batches and items *)

\* What is reported stays so, a failure stays, and no job is unmade.
StatusKept ==
  \A j \in Jobs : /\ Reported(j) => ReportedNext(j)
                  /\ status[j] = "failed" => status'[j] = "failed"
                  /\ status[j] # "none" => status'[j] # "none"

LEMMA JobsKept ==
  ASSUME TypeOK, [Next]_vars
  PROVE  StatusKept
<1>. USE DEF StatusKept, Reported, ReportedNext, Succeeded
<1>1. status \in [Jobs -> JobStatuses]
  BY DEF TypeOK
<1>2. CASE UNCHANGED <<status, late>>
  BY <1>2
<1>3. ASSUME NEW j \in Jobs, SubmitJob(j), UNCHANGED late PROVE StatusKept
  BY <1>1, <1>3 DEF SubmitJob, Move
<1>4. CASE JobsMove
  <2>1. "none" \notin Finished
    BY BatchesAssumption
  <2>2. ASSUME NEW j \in Jobs, StartJob(j), UNCHANGED late PROVE StatusKept
    BY <1>1, <2>2 DEF StartJob, Move
  <2>3. ASSUME NEW j \in Jobs, FinishJob(j), UNCHANGED late PROVE StatusKept
    BY <1>1, <2>1, <2>3 DEF FinishJob, Move
  <2>4. ASSUME NEW S \in SUBSET Jobs, RequeueJobs(S), UNCHANGED late PROVE StatusKept
    BY <1>1, <2>4 DEF RequeueJobs
  <2>5. ASSUME NEW j \in Jobs, FailLate(j), late' = late \cup {j} PROVE StatusKept
    BY <1>1, <2>5 DEF FailLate, Move
  <2>. QED
    BY <1>4, <2>2, <2>3, <2>4, <2>5 DEF JobsMove
<1>5. [Next]_vars => UNCHANGED <<status, late>> \/ JobsMove \/ \E j \in Jobs : SubmitJob(j) /\ UNCHANGED late
  BY DEF Next, vars, counters, RepeatBatch, NewBatch, Coordinate, Begin, Coordinator, Submitted, Watch, Close, Tally,
         CoordinatorFails, Submitter, MarkItem, RejectItem, SubmitItem, LinkItem, MarkFails, LinkFails, Crash
<1>. QED
  BY <1>2, <1>3, <1>4, <1>5

LEMMA ItemKept ==
  ASSUME TypeOK, StatusKept, NEW b \in BatchIds, NEW i \in Positions, ItemInv(b, i),
         item'[b][i] = item[b][i], sub'[b][i] = sub[b][i],
         sub[b][i] # Gone /\ coord[b] = "submit" => coord'[b] = "submit"
  PROVE  ItemInv(b, i)'
<1>1. PICK r : r = item[b][i]
  OBVIOUS
<1>2. PICK s : s = sub[b][i]
  OBVIOUS
<1>3. r.job \in Jobs \cup {NoJob}
  BY <1>1 DEF TypeOK
<1>4. /\ s # Gone => coord[b] = "submit" /\ r.job = NoJob
      /\ s.pc \in {"none", "todo", "resolve"} => s.job = NoJob
      /\ r.status = "queued" => r.job = NoJob
      /\ r.status = "completed" => r.job # NoJob /\ Reported(r.job)
      /\ r.status = "failed" /\ r.job # NoJob => status[r.job] = "failed"
  BY <1>1, <1>2 DEF ItemInv
<1>5. /\ r.status = "completed" => r.job # NoJob /\ ReportedNext(r.job)
      /\ r.status = "failed" /\ r.job # NoJob => status'[r.job] = "failed"
  BY <1>3, <1>4 DEF StatusKept
<1>. QED
  BY <1>1, <1>2, <1>4, <1>5 DEF ItemInv, Reported, ReportedNext

\* What an item must satisfy after a step that gave it the rows r and s.
ItemNext(b, r, s) ==
  /\ s # Gone => coord'[b] = "submit" /\ r.job = NoJob
  /\ s.pc \in {"none", "todo", "resolve"} => s.job = NoJob
  /\ r.status = "queued" => r.job = NoJob
  /\ r.status = "completed" => r.job # NoJob /\ ReportedNext(r.job)
  /\ r.status = "failed" /\ r.job # NoJob => status'[r.job] = "failed"

LEMMA ItemChanged ==
  ASSUME NEW b, NEW i, ItemNext(b, item'[b][i], sub'[b][i])
  PROVE  ItemInv(b, i)'
BY DEF ItemNext, ItemInv, Reported, ReportedNext

LEMMA BatchKept ==
  ASSUME NEW b \in BatchIds, BatchInv(b),
         batch'[b] = batch[b], item'[b] = item[b], coord'[b] = coord[b]
  PROVE  BatchInv(b)'
<1>1. Counted(b)' = Counted(b) /\ (Exists(b)' <=> Exists(b))
  BY DEF Counted, CountOf, ItemsOf, Exists
<1>. QED
  BY <1>1 DEF BatchInv, ItemsOf

LEMMA OthersKept ==
  ASSUME TypeOK, RowsInv, StatusKept, NEW b \in BatchIds,
         \A c \in BatchIds : c # b => /\ batch'[c] = batch[c] /\ item'[c] = item[c]
                                     /\ coord'[c] = coord[c] /\ sub'[c] = sub[c],
         BatchInv(b)', \A i \in Positions : ItemInv(b, i)'
  PROVE  RowsInv'
<1>1. ASSUME NEW c \in BatchIds, c # b PROVE BatchInv(c)'
  BY <1>1, BatchKept DEF RowsInv
<1>2. ASSUME NEW c \in BatchIds, NEW i \in Positions, c # b PROVE ItemInv(c, i)'
  BY <1>2, ItemKept DEF RowsInv
<1>. QED
  BY <1>1, <1>2 DEF RowsInv

\* A coordinator's step that leaves the items alone.
LEMMA ItemsUntouched ==
  ASSUME TypeOK, RowsInv, StatusKept, NEW b \in BatchIds, UNCHANGED <<item, sub>>,
         coord[b] = "submit" => coord'[b] = "submit" \/ \A i \in Positions : sub[b][i] = Gone
  PROVE  \A i \in Positions : ItemInv(b, i)'
BY ItemKept DEF RowsInv

LEMMA Idle ==
  ASSUME RowsInv, NEW b \in BatchIds, coord[b] # "submit"
  PROVE  \A i \in Positions : sub[b][i] = Gone
BY DEF RowsInv, ItemInv

\* What Close makes of a batch when nothing failed and the completed items are all.
LEMMA AllCompleted ==
  ASSUME Typed(batch, item, usage, coord, sub), NEW b \in BatchIds, Verdict(Counted(b)) = "complete"
  PROVE  \A i \in ItemsOf(b) : item[b][i].status \notin {"queued", "running", "failed"}
<1>. DEFINE none(s) == {i \in ItemsOf(b) : item[b][i].status = s}
            c == Counted(b)
<1>1. IsFiniteSet(ItemsOf(b))
  BY FS_Interval DEF Typed, BatchRows, ItemsOf
<1>2. \A s : IsFiniteSet(none(s))
  BY <1>1, FS_Subset
<1>3. \A s : Cardinality(none(s)) \in Nat /\ (Cardinality(none(s)) = 0 => none(s) = {})
  BY <1>2, FS_CardinalityType, FS_EmptySet
<1>4. /\ c.queued = Cardinality(none("queued")) /\ c.running = Cardinality(none("running"))
      /\ c.completed = Cardinality(none("completed")) /\ c.failed = Cardinality(none("failed"))
  BY DEF Counted, CountOf, Zero
<1>5. c.failed = 0 /\ c.completed = Total(c)
  BY DEF Verdict
<1>. HIDE DEF none, c
<1>6. c.queued = 0 /\ c.running = 0
  BY <1>3, <1>4, <1>5 DEF Total
<1>7. none("queued") = {} /\ none("running") = {} /\ none("failed") = {}
  BY <1>3, <1>4, <1>5, <1>6
<1>. QED
  BY <1>7 DEF none

LEMMA RowsInit == Init => RowsInv
<1>. SUFFICES ASSUME Init, NEW b \in BatchIds PROVE BatchInv(b) /\ \A i \in Positions : ItemInv(b, i)
  BY DEF RowsInv
<1>1. BatchInv(b)
  BY DEF Init, BatchInv, Exists, Closed
<1>2. ASSUME NEW i \in Positions PROVE ItemInv(b, i)
  BY DEF Init, ItemInv, NoItem, Gone
<1>. QED
  BY <1>1, <1>2

LEMMA RowsStep ==
  ASSUME TypeOK, TypeOK', RowsInv, [Next]_vars
  PROVE  RowsInv'
<1>1. StatusKept
  BY JobsKept
<1>2. Typed(batch, item, usage, coord, sub) /\ Typed(batch', item', usage', coord', sub')
  BY DEF TypeOK, Typed, BatchRows, ItemRows, SubRows
<1>3. ASSUME UNCHANGED <<batch, item, coord, sub>> PROVE RowsInv'
  BY <1>1, <1>3, ItemKept, BatchKept DEF RowsInv
<1>4. ASSUME NEW key \in Keys \cup {NoKey}, NEW n \in Sizes, RepeatBatch(key, n) PROVE RowsInv'
  <2>1. PICK b \in BatchIds : Exists(b) /\ Coordinate(b)
    BY <1>4 DEF RepeatBatch, Holders
  <2>2. UNCHANGED <<batch, item, sub>>
    BY <1>4 DEF RepeatBatch
  <2>3. /\ \A c \in BatchIds : c # b => coord'[c] = coord[c]
        /\ coord'[b] = IF coord[b] = "none" THEN "waiting" ELSE coord[b]
    BY <1>2, <2>1 DEF Coordinate, Typed
  <2>4. Counted(b)' = Counted(b) /\ (Exists(b)' <=> Exists(b))
    BY <2>2 DEF Counted, CountOf, ItemsOf, Exists
  <2>5. BatchInv(b)'
    BY <2>1, <2>2, <2>3, <2>4 DEF RowsInv, BatchInv, ItemsOf
  <2>6. \A i \in Positions : ItemInv(b, i)'
    BY <1>1, <2>2, <2>3, ItemsUntouched
  <2>. QED
    BY <1>1, <2>2, <2>3, <2>5, <2>6, OthersKept
<1>5. ASSUME NEW key \in Keys \cup {NoKey}, NEW n \in Sizes, NewBatch(key, n) PROVE RowsInv'
  <2>1. PICK b \in BatchIds :
          /\ ~Exists(b)
          /\ batch' = [batch EXCEPT ![b] =
               [status |-> "queued", key |-> key, total |-> n, counts |-> [Zero EXCEPT !.queued = n]]]
          /\ item' = [item EXCEPT ![b] = [i \in Positions |->
               IF i <= n THEN [NoItem EXCEPT !.status = "queued"] ELSE NoItem]]
          /\ Coordinate(b)
    BY <1>5 DEF NewBatch
  <2>2. coord[b] = "none" /\ sub' = sub
    BY <1>5, <2>1 DEF RowsInv, BatchInv, NewBatch
  <2>3. \A c \in BatchIds : c # b => /\ batch'[c] = batch[c] /\ item'[c] = item[c]
                                    /\ coord'[c] = coord[c] /\ sub'[c] = sub[c]
    BY <1>2, <2>1, <2>2 DEF Coordinate, Typed
  <2>4. batch'[b].status = "queued" /\ coord'[b] = "waiting"
    BY <1>2, <2>1, <2>2 DEF Coordinate, Typed
  <2>5. BatchInv(b)'
    BY <2>4 DEF BatchInv, Exists, Closed
  <2>6. ASSUME NEW i \in Positions PROVE ItemInv(b, i)'
    <3>1. sub'[b][i] = Gone /\ Gone.job = NoJob
      BY <2>2, Idle DEF Gone
    <3>2. item'[b][i].job = NoJob /\ item'[b][i].status \in {"none", "queued"}
      BY <1>2, <2>1 DEF Typed, NoItem
    <3>3. ItemNext(b, item'[b][i], sub'[b][i])
      BY <3>1, <3>2 DEF ItemNext
    <3>. QED
      BY <3>3, ItemChanged
  <2>. QED
    BY <1>1, <2>3, <2>5, <2>6, OthersKept
<1>6. ASSUME NEW b \in BatchIds, Begin(b) PROVE RowsInv'
  <2>1. /\ coord[b] = "waiting" /\ coord'[b] = "submit" /\ batch'[b].status = "running" /\ item' = item
        /\ sub' = [sub EXCEPT ![b] = [i \in Positions |->
                     IF item[b][i].status = "queued" THEN [Gone EXCEPT !.pc = "todo"] ELSE Gone]]
    BY <1>2, <1>6 DEF Begin, Typed, BatchRows
  <2>2. \A c \in BatchIds : c # b => /\ batch'[c] = batch[c] /\ item'[c] = item[c]
                                    /\ coord'[c] = coord[c] /\ sub'[c] = sub[c]
    BY <1>2, <1>6 DEF Begin, Typed
  <2>3. BatchInv(b)'
    BY <2>1 DEF BatchInv, Exists, Closed
  <2>4. ASSUME NEW i \in Positions PROVE ItemInv(b, i)'
    <3>1. sub'[b][i] = IF item[b][i].status = "queued" THEN [Gone EXCEPT !.pc = "todo"] ELSE Gone
      BY <1>2, <2>1 DEF Typed
    <3>2. sub'[b][i].job = NoJob /\ (sub'[b][i] # Gone => item[b][i].status = "queued")
      BY <3>1 DEF Gone
    <3>3. /\ item[b][i].status = "queued" => item[b][i].job = NoJob
          /\ item[b][i].status = "completed" => item[b][i].job # NoJob /\ Reported(item[b][i].job)
          /\ item[b][i].status = "failed" /\ item[b][i].job # NoJob => status[item[b][i].job] = "failed"
      BY DEF RowsInv, ItemInv
    <3>4. status' = status /\ late' = late
      BY <1>6 DEF Begin, counters
    <3>5. ItemNext(b, item'[b][i], sub'[b][i])
      BY <2>1, <3>2, <3>3, <3>4 DEF ItemNext, Reported, ReportedNext
    <3>. QED
      BY <3>5, ItemChanged
  <2>. QED
    BY <1>1, <2>2, <2>3, <2>4, OthersKept
<1>7. ASSUME NEW b \in BatchIds, Submitted(b) PROVE RowsInv'
  <2>1. coord'[b] = "watch" /\ coord[b] = "submit" /\ UNCHANGED <<batch, item, sub>> /\ \A i \in Positions : sub[b][i] = Gone
    BY <1>2, <1>7 DEF Submitted, Typed
  <2>2. \A c \in BatchIds : c # b => coord'[c] = coord[c]
    BY <1>2, <1>7 DEF Submitted, Typed
  <2>3. batch[b].status = "running"
    BY <2>1 DEF RowsInv, BatchInv
  <2>4. BatchInv(b)'
    BY <2>1, <2>3 DEF BatchInv, Exists, Closed
  <2>5. \A i \in Positions : ItemInv(b, i)'
    BY <1>1, <2>1, ItemsUntouched
  <2>. QED
    BY <1>1, <2>1, <2>2, <2>4, <2>5, OthersKept
<1>8. ASSUME NEW b \in BatchIds, Watch(b) PROVE RowsInv'
  <2>1. coord[b] = "watch" /\ UNCHANGED <<batch, sub, status, late>> /\ coord'[b] \in {"more", "close"}
    BY <1>2, <1>8 DEF Watch, Typed, counters
  <2>2. \A c \in BatchIds : c # b => coord'[c] = coord[c] /\ item'[c] = item[c]
    BY <1>2, <1>8 DEF Watch, Typed
  <2>3. batch[b].status = "running"
    BY <2>1 DEF RowsInv, BatchInv
  <2>4. BatchInv(b)'
    BY <2>1, <2>3 DEF BatchInv, Exists, Closed
  <2>5. ASSUME NEW i \in Positions PROVE ItemInv(b, i)'
    <3>1. PICK r : r = item[b][i]
      OBVIOUS
    <3>2. sub[b][i] = Gone
      BY <2>1, Idle
    <3>3. item'[b][i] = [r EXCEPT !.status = Outcome(r)] /\ r \in ItemRows
      BY <1>2, <1>8, <3>1 DEF Watch, Typed
    <3>4. item'[b][i].job = r.job /\ item'[b][i].status = Outcome(r)
      BY <3>3 DEF ItemRows
    <3>5. /\ r.status = "queued" => r.job = NoJob
          /\ r.status = "completed" => r.job # NoJob /\ Reported(r.job)
          /\ r.status = "failed" /\ r.job # NoJob => status[r.job] = "failed"
      BY <3>1 DEF RowsInv, ItemInv
    <3>6. /\ Outcome(r) = "queued" => r.job = NoJob
          /\ Outcome(r) = "completed" => r.job # NoJob /\ Reported(r.job)
          /\ Outcome(r) = "failed" /\ r.job # NoJob => status[r.job] = "failed"
      BY <3>5 DEF Outcome, Reported
    <3>7. ItemNext(b, item'[b][i], sub'[b][i])
      BY <2>1, <3>2, <3>4, <3>6 DEF ItemNext, Gone, Reported, ReportedNext
    <3>. QED
      BY <3>7, ItemChanged
  <2>. QED
    BY <1>1, <2>1, <2>2, <2>4, <2>5, OthersKept
<1>9. ASSUME NEW b \in BatchIds, Close(b) PROVE RowsInv'
  <2>1. PICK st, to :
          /\ batch' = [batch EXCEPT ![b].counts = Counted(b), ![b].status = st]
          /\ coord' = [coord EXCEPT ![b] = to]
          /\ \/ st = "running" /\ to = "watch"
             \/ st \in Closed /\ to = "tally" /\ st = Verdict(Counted(b))
    <3>1. \A c : Verdict(c) \in Closed
      BY DEF Verdict, Closed
    <3>2. PICK again \in BOOLEAN :
            /\ batch' = [batch EXCEPT ![b].counts = Counted(b),
                                      ![b].status = IF again THEN "running" ELSE Verdict(Counted(b))]
            /\ coord' = [coord EXCEPT ![b] = IF again THEN "watch" ELSE "tally"]
      BY <1>9 DEF Close
    <3>3. CASE again
      <4>1. /\ batch' = [batch EXCEPT ![b].counts = Counted(b), ![b].status = "running"]
            /\ coord' = [coord EXCEPT ![b] = "watch"]
        BY <3>2, <3>3
      <4>. QED
        BY <4>1
    <3>4. CASE ~again
      BY <3>1, <3>2, <3>4, Zenon
    <3>. QED
      BY <3>3, <3>4
  <2>2. coord[b] \in {"more", "close"} /\ UNCHANGED <<item, sub, status>>
    BY <1>9 DEF Close
  <2>3. /\ \A c \in BatchIds : c # b => coord'[c] = coord[c] /\ batch'[c] = batch[c]
        /\ coord'[b] = to
    BY <1>2, <2>1 DEF Typed
  <2>4. batch'[b].status = st /\ batch'[b].counts = Counted(b) /\ batch'[b].total = batch[b].total
    BY <1>2, <2>1 DEF Typed, BatchRows
  <2>5. Counted(b)' = Counted(b)
    BY <2>2, <2>4 DEF Counted, CountOf, ItemsOf
  <2>8. st = "complete" => \A i \in ItemsOf(b) : item[b][i].status \notin {"queued", "running", "failed"}
    BY <1>2, <2>1, AllCompleted, Zenon DEF Closed
  <2>6. BatchInv(b)'
    BY <2>1, <2>2, <2>3, <2>4, <2>5, <2>8 DEF BatchInv, Exists, Closed, ItemsOf
  <2>7. \A i \in Positions : ItemInv(b, i)'
    BY <1>1, <2>2, ItemsUntouched
  <2>. QED
    BY <1>1, <2>2, <2>3, <2>6, <2>7, OthersKept
<1>10. ASSUME NEW b \in BatchIds, Tally(b) PROVE RowsInv'
  <2>1. coord[b] = "tally" /\ coord'[b] = "none" /\ UNCHANGED <<batch, item, sub, status>>
    BY <1>2, <1>10 DEF Tally, Typed
  <2>2. \A c \in BatchIds : c # b => coord'[c] = coord[c]
    BY <1>2, <1>10 DEF Tally, Typed
  <2>3. Counted(b)' = Counted(b) /\ (Exists(b)' <=> Exists(b))
    BY <2>1 DEF Counted, CountOf, ItemsOf, Exists
  <2>4. BatchInv(b)'
    BY <2>1, <2>3 DEF RowsInv, BatchInv, ItemsOf
  <2>5. \A i \in Positions : ItemInv(b, i)'
    BY <1>1, <2>1, ItemsUntouched
  <2>. QED
    BY <1>1, <2>1, <2>2, <2>4, <2>5, OthersKept
<1>11. ASSUME NEW b \in BatchIds, CoordinatorFails(b) PROVE RowsInv'
  <2>1. /\ coord[b] \notin {"none", "submit"} /\ coord'[b] = "none" /\ UNCHANGED <<item, sub, status>>
        /\ \A c \in BatchIds : c # b => coord'[c] = coord[c]
    BY <1>2, <1>11 DEF CoordinatorFails, Typed
  <2>2. batch' = batch \/ batch' = [batch EXCEPT ![b].status = "running"]
    BY <1>11 DEF CoordinatorFails
  <2>3. \A c \in BatchIds : c # b => batch'[c] = batch[c]
    BY <1>2, <2>2 DEF Typed
  <2>4. BatchInv(b)'
    <3>1. CASE batch' = batch
      <4>1. Counted(b)' = Counted(b) /\ (Exists(b)' <=> Exists(b))
        BY <2>1, <3>1 DEF Counted, CountOf, ItemsOf, Exists
      <4>. QED
        BY <2>1, <3>1, <4>1 DEF RowsInv, BatchInv, ItemsOf
    <3>2. CASE batch' = [batch EXCEPT ![b].status = "running"]
      <4>1. batch'[b].status = "running"
        BY <1>2, <3>2 DEF Typed, BatchRows
      <4>. QED
        BY <4>1 DEF BatchInv, Exists, Closed
    <3>. QED
      BY <2>2, <3>1, <3>2
  <2>5. \A i \in Positions : ItemInv(b, i)'
    BY <1>1, <2>1, ItemsUntouched
  <2>. QED
    BY <1>1, <2>1, <2>3, <2>4, <2>5, OthersKept
<1>12. ASSUME NEW b \in BatchIds, NEW i \in Positions, Submitter(b, i) \/ MarkFails(b, i) \/ LinkFails(b, i)
       PROVE  RowsInv'
  <2>1. item[b][i] \in ItemRows /\ sub[b][i] \in SubRows
    BY <1>2 DEF Typed
  <2>2. sub[b][i].pc \in {"todo", "resolve", "link"}
    BY <1>12 DEF Submitter, MarkItem, RejectItem, SubmitItem, LinkItem, MarkFails, LinkFails
  <2>3. sub[b][i] # Gone /\ coord[b] = "submit" /\ item[b][i].job = NoJob /\ batch[b].status = "running"
    BY <2>2 DEF Gone, RowsInv, ItemInv, BatchInv
  <2>4. sub[b][i].pc = "todo" => sub[b][i].job = NoJob
    BY DEF RowsInv, ItemInv
  <2>5. PICK r, s : Moved(b, i, r, s) /\ ItemNext(b, r, s)
    <3>1. CASE MarkItem(b, i)
      <4>1. Moved(b, i, ItemRow("running", NoJob), SubRow("resolve", NoJob))
        BY <1>2, <2>3, <2>4, <3>1, SubmitterMoves DEF MarkItem
      <4>. QED
        BY <2>3, <4>1, Fields DEF ItemNext, Moved
    <3>2. CASE RejectItem(b, i) \/ LinkFails(b, i) \/ MarkFails(b, i)
      <4>1. Moved(b, i, ItemRow("failed", NoJob), Gone)
        BY <1>2, <2>3, <3>2, SubmitterMoves
      <4>. QED
        BY <4>1, Fields DEF ItemNext
    <3>3. CASE LinkItem(b, i)
      <4>1. Moved(b, i, ItemRow("running", sub[b][i].job), Gone)
        BY <1>2, <3>3, SubmitterMoves
      <4>. QED
        BY <4>1, Fields DEF ItemNext
    <3>4. CASE SubmitItem(b, i)
      <4>1. PICK j \in Jobs : Moved(b, i, item[b][i], SubRow("link", j))
        BY <1>2, <3>4, SubmitterMoves
      <4>2. item[b][i].status \notin {"completed"}
        BY <2>3 DEF RowsInv, ItemInv
      <4>. QED
        BY <2>3, <4>1, <4>2, Fields DEF ItemNext, Moved
    <3>. QED
      BY <1>12, <3>1, <3>2, <3>3, <3>4 DEF Submitter
  <2>6. /\ item'[b][i] = r /\ sub'[b][i] = s
        /\ \A c \in BatchIds : c # b => item'[c] = item[c] /\ sub'[c] = sub[c]
        /\ \A k \in Positions : k # i => item'[b][k] = item[b][k] /\ sub'[b][k] = sub[b][k]
    <3>1. item' = Put(item, b, i, r) /\ sub' = Put(sub, b, i, s)
      BY <2>5 DEF Moved
    <3>2. /\ item'[b][i] = r
          /\ \A c \in BatchIds : c # b => item'[c] = item[c]
          /\ \A k \in Positions : k # i => item'[b][k] = item[b][k]
      BY <3>1 DEF Put
    <3>3. /\ sub'[b][i] = s
          /\ \A c \in BatchIds : c # b => sub'[c] = sub[c]
          /\ \A k \in Positions : k # i => sub'[b][k] = sub[b][k]
      BY <3>1 DEF Put
    <3>. QED
      BY <3>2, <3>3
  <2>7. coord' = coord
    BY <2>5 DEF Moved
  <2>8. batch'[b].status = "running" /\ \A c \in BatchIds : c # b => batch'[c] = batch[c]
    <3>1. batch' = batch \/ \E n : batch' = [batch EXCEPT ![b].counts.failed = n]
      BY <1>12 DEF Submitter, MarkItem, RejectItem, SubmitItem, LinkItem, MarkFails, LinkFails
    <3>. QED
      BY <1>2, <2>3, <3>1 DEF Typed, BatchRows
  <2>9. BatchInv(b)'
    BY <2>8 DEF BatchInv, Exists, Closed
  <2>10. ASSUME NEW k \in Positions PROVE ItemInv(b, k)'
    <3>1. CASE k = i
      BY <2>5, <2>6, <3>1, ItemChanged
    <3>2. CASE k # i
      BY <1>1, <2>6, <2>7, <3>2, ItemKept DEF RowsInv
    <3>. QED
      BY <3>1, <3>2
  <2>. QED
    BY <1>1, <2>6, <2>7, <2>8, <2>9, <2>10, OthersKept
<1>13. CASE Crash
  <2>. SUFFICES ASSUME NEW b \in BatchIds PROVE BatchInv(b)' /\ \A i \in Positions : ItemInv(b, i)'
    BY DEF RowsInv
  <2>1. /\ batch' = batch /\ status' = status /\ late' = late
        /\ coord'[b] = IF batch[b].status \in Active THEN "waiting" ELSE "none"
        /\ \A i \in Positions : sub'[b][i] = Gone
    BY <1>13 DEF Crash
  <2>2. \A i \in Positions :
          item'[b][i] = IF batch[b].status \in Active /\ item[b][i] = [status |-> "running", job |-> NoJob]
                        THEN [item[b][i] EXCEPT !.status = "queued"] ELSE item[b][i]
    BY <1>13 DEF Crash
  <2>3. BatchInv(b)'
    <3>1. CASE batch[b].status \in Active
      BY <2>1, <3>1 DEF BatchInv, Exists, Active, Closed
    <3>2. CASE batch[b].status \notin Active
      <4>1. item'[b] = item[b]
        BY <1>2, <2>2, <3>2 DEF Typed
      <4>2. Counted(b)' = Counted(b) /\ (Exists(b)' <=> Exists(b))
        BY <2>1, <4>1 DEF Counted, CountOf, ItemsOf, Exists
      <4>. QED
        BY <2>1, <3>2, <4>1, <4>2 DEF RowsInv, BatchInv, ItemsOf
    <3>. QED
      BY <3>1, <3>2
  <2>4. ASSUME NEW i \in Positions PROVE ItemInv(b, i)'
    <3>1. PICK r : r = item[b][i]
      OBVIOUS
    <3>2. r \in ItemRows
      BY <1>2, <3>1 DEF Typed
    <3>3. /\ r.status = "queued" => r.job = NoJob
          /\ r.status = "completed" => r.job # NoJob /\ Reported(r.job)
          /\ r.status = "failed" /\ r.job # NoJob => status[r.job] = "failed"
      BY <3>1 DEF RowsInv, ItemInv
    <3>4. item'[b][i] = r \/ item'[b][i] = ItemRow("queued", NoJob)
      <4>1. [[status |-> "running", job |-> NoJob] EXCEPT !.status = "queued"] = ItemRow("queued", NoJob)
        BY DEF ItemRow
      <4>. QED
        BY <2>2, <3>1, <4>1
    <3>5. ItemNext(b, item'[b][i], sub'[b][i])
      BY <2>1, <3>3, <3>4, Fields DEF ItemNext, Gone, Reported, ReportedNext
    <3>. QED
      BY <3>5, ItemChanged
  <2>. QED
    BY <2>3, <2>4
<1>. QED
  <2>1. UNCHANGED vars \/ JobsMove => UNCHANGED <<batch, item, coord, sub>>
    BY DEF vars, JobsMove
  <2>. QED
    BY <1>3, <1>4, <1>5, <1>6, <1>7, <1>8, <1>9, <1>10, <1>11, <1>12, <1>13, <2>1 DEF Next, Coordinator

-----------------------------------------------------------------------------
(* Jobs and their owners *)

\* No name is added; without a failure none is lost and no job made.
NamesKept ==
  /\ \A b \in BatchIds, i \in Positions : Named(b, i)' \subseteq Named(b, i)
  /\ crashes' + failures' = 0 =>
       /\ crashes + failures = 0
       /\ \A b \in BatchIds, i \in Positions : Named(b, i)' = Named(b, i)
       /\ \A j \in Jobs : status'[j] # "none" => status[j] # "none"

LEMMA NamedTypes ==
  ASSUME TypeOK, NEW b \in BatchIds, NEW i \in Positions
  PROVE  Named(b, i) \subseteq Jobs
BY DEF TypeOK, Named

LEMMA JobsStay ==
  ASSUME TypeOK, JobsInv, StatusKept, NamesKept
  PROVE  JobsInv'
<1>1. ASSUME NEW b \in BatchIds, NEW i \in Positions, NEW j \in Named(b, i)'
      PROVE  status'[j] # "none"
  <2>1. j \in Named(b, i) /\ j \in Jobs /\ status[j] # "none"
    BY <1>1, NamedTypes DEF NamesKept, JobsInv
  <2>. QED
    BY <2>1 DEF StatusKept
<1>2. ASSUME NEW b \in BatchIds, NEW c \in BatchIds, NEW i \in Positions, NEW k \in Positions,
             NEW j \in (Named(b, i) \cap Named(c, k))'
      PROVE  b = c /\ i = k
  <2>1. j \in Named(b, i) /\ j \in Named(c, k)
    BY <1>2 DEF NamesKept
  <2>. QED
    BY <2>1 DEF JobsInv
<1>3. ASSUME crashes' + failures' = 0, NEW j \in Jobs, status'[j] # "none"
      PROVE  \E b \in BatchIds, i \in Positions : j \in Named(b, i)'
  <2>1. PICK b \in BatchIds, i \in Positions : j \in Named(b, i)
    BY <1>3 DEF NamesKept, JobsInv
  <2>. QED
    BY <1>3, <2>1 DEF NamesKept
<1>. QED
  BY <1>1, <1>2, <1>3 DEF JobsInv

\* Steps that leave jobs and their names alone.
LEMMA NamesUntouched ==
  ASSUME \A b \in BatchIds, i \in Positions : item'[b][i].job = item[b][i].job /\ sub'[b][i].job = sub[b][i].job,
         crashes' + failures' = 0 =>
           crashes + failures = 0 /\ \A j \in Jobs : status'[j] # "none" => status[j] # "none"
  PROVE  NamesKept
<1>1. \A b \in BatchIds, i \in Positions : Named(b, i)' = Named(b, i)
  BY DEF Named
<1>. QED
  BY <1>1 DEF NamesKept

LEMMA JobsInit == Init => JobsInv
BY DEF Init, JobInit, JobsInv, Named, NoItem, Gone

LEMMA JobsStep ==
  ASSUME TypeOK, TypeOK', RowsInv, JobsInv, [Next]_vars
  PROVE  JobsInv'
<1>1. StatusKept
  BY JobsKept
<1>2. /\ Typed(batch, item, usage, coord, sub) /\ Typed(batch', item', usage', coord', sub')
      /\ crashes \in Nat /\ failures \in Nat
  BY DEF TypeOK, Typed, BatchRows, ItemRows, SubRows
<1>3. SUFFICES ASSUME ~\E b \in BatchIds, i \in Positions : SubmitItem(b, i)
               PROVE  NamesKept
  <2>. SUFFICES ASSUME NEW b \in BatchIds, NEW i \in Positions, SubmitItem(b, i) PROVE JobsInv'
    BY <1>1, JobsStay
  <2>1. PICK j \in Jobs : SubmitJob(j) /\ Moved(b, i, item[b][i], SubRow("link", j))
    BY <1>2, SubmitterMoves
  <2>2. /\ status[j] = "none" /\ status' = [status EXCEPT ![j] = "pending"]
        /\ crashes' = crashes /\ failures' = failures
    BY <2>1 DEF SubmitJob, Move, SubmitItem
  <2>3. sub[b][i].pc = "resolve"
    BY DEF SubmitItem
  <2>4. item[b][i].job = NoJob /\ sub[b][i].job = NoJob
    BY <2>3 DEF RowsInv, ItemInv, Gone
  <2>5. /\ \A c \in BatchIds, k \in Positions : c # b \/ k # i => Named(c, k)' = Named(c, k)
        /\ Named(b, i)' = {j} \ {NoJob} /\ Named(b, i) = {}
    <3>1. item' = Put(item, b, i, item[b][i]) /\ sub' = Put(sub, b, i, SubRow("link", j))
      BY <2>1 DEF Moved
    <3>2. /\ item'[b][i].job = NoJob
          /\ \A c \in BatchIds, k \in Positions : c # b \/ k # i => item'[c][k] = item[c][k]
      BY <2>4, <3>1 DEF Put
    <3>3. /\ sub'[b][i].job = j
          /\ \A c \in BatchIds, k \in Positions : c # b \/ k # i => sub'[c][k] = sub[c][k]
      BY <3>1 DEF Put, SubRow
    <3>. QED
      BY <2>4, <3>2, <3>3 DEF Named
  <2>6. j # NoJob
    BY BatchesAssumption DEF NoJob
  <2>7. \A c \in BatchIds, k \in Positions : j \notin Named(c, k)
    BY <2>2 DEF JobsInv
  <2>8. status \in [Jobs -> JobStatuses]
    BY DEF TypeOK
  <2>9. ASSUME NEW c \in BatchIds, NEW k \in Positions, NEW x \in Named(c, k)'
        PROVE  status'[x] # "none"
    <3>1. CASE c = b /\ k = i
      BY <2>2, <2>5, <2>8, <2>9, <3>1
    <3>2. CASE c # b \/ k # i
      <4>1. x \in Named(c, k) /\ x \in Jobs
        BY <2>5, <2>9, <3>2, NamedTypes
      <4>. QED
        BY <1>1, <4>1 DEF StatusKept, JobsInv
    <3>. QED
      BY <3>1, <3>2
  <2>10. ASSUME NEW c \in BatchIds, NEW d \in BatchIds, NEW k \in Positions, NEW l \in Positions,
                NEW x \in (Named(c, k) \cap Named(d, l))'
         PROVE  c = d /\ k = l
    <3>1. CASE c = b /\ k = i
      BY <2>5, <2>7, <2>10, <3>1
    <3>2. CASE d = b /\ l = i
      BY <2>5, <2>7, <2>10, <3>2
    <3>3. CASE (c # b \/ k # i) /\ (d # b \/ l # i)
      BY <2>5, <2>10, <3>3 DEF JobsInv
    <3>. QED
      BY <3>1, <3>2, <3>3
  <2>11. ASSUME crashes' + failures' = 0, NEW x \in Jobs, status'[x] # "none"
         PROVE  \E c \in BatchIds, k \in Positions : x \in Named(c, k)'
    <3>1. CASE x = j
      BY <2>5, <2>6, <3>1
    <3>2. CASE x # j
      <4>1. PICK c \in BatchIds, k \in Positions : x \in Named(c, k)
        BY <2>2, <2>8, <2>11, <3>2 DEF JobsInv
      <4>2. c # b \/ k # i
        BY <2>5, <4>1
      <4>. QED
        BY <2>5, <4>1, <4>2
    <3>. QED
      BY <3>1, <3>2
  <2>. QED
    BY <2>9, <2>10, <2>11 DEF JobsInv
<1>4. ASSUME UNCHANGED <<item, sub, status, crashes, failures>> PROVE NamesKept
  BY <1>4, NamesUntouched
<1>5. CASE UNCHANGED vars
  BY <1>4, <1>5 DEF vars, counters
<1>6. ASSUME NEW key \in Keys \cup {NoKey}, NEW n \in Sizes, RepeatBatch(key, n) PROVE NamesKept
  BY <1>4, <1>6 DEF RepeatBatch
<1>7. ASSUME NEW key \in Keys \cup {NoKey}, NEW n \in Sizes, NewBatch(key, n) PROVE NamesKept
  <2>1. PICK b \in BatchIds :
          /\ ~Exists(b)
          /\ item' = [item EXCEPT ![b] = [i \in Positions |->
               IF i <= n THEN [NoItem EXCEPT !.status = "queued"] ELSE NoItem]]
    BY <1>7 DEF NewBatch
  <2>2. \A i \in Positions : item[b][i].job = NoJob
    BY <2>1 DEF RowsInv, BatchInv, NoItem
  <2>3. \A c \in BatchIds, i \in Positions : item'[c][i].job = item[c][i].job
    BY <1>2, <2>1, <2>2 DEF Typed, NoItem
  <2>4. UNCHANGED <<sub, status, crashes, failures>>
    BY <1>7 DEF NewBatch, counters
  <2>. QED
    BY <2>3, <2>4, NamesUntouched
<1>8. ASSUME NEW b \in BatchIds, Begin(b) PROVE NamesKept
  <2>1. /\ coord[b] = "waiting" /\ UNCHANGED <<item, status, crashes, failures>>
        /\ sub' = [sub EXCEPT ![b] = [i \in Positions |->
                     IF item[b][i].status = "queued" THEN [Gone EXCEPT !.pc = "todo"] ELSE Gone]]
    BY <1>8 DEF Begin, counters
  <2>2. \A i \in Positions : sub[b][i].job = NoJob
    BY <2>1, Idle DEF Gone
  <2>3. \A c \in BatchIds, i \in Positions : sub'[c][i].job = sub[c][i].job
    BY <1>2, <2>1, <2>2 DEF Typed, Gone
  <2>. QED
    BY <2>1, <2>3, NamesUntouched
<1>9. ASSUME NEW b \in BatchIds, Submitted(b) \/ Close(b) \/ Tally(b) PROVE NamesKept
  BY <1>4, <1>9 DEF Submitted, Close, Tally, counters
<1>10. ASSUME NEW b \in BatchIds, Watch(b) PROVE NamesKept
  <2>1. \A c \in BatchIds, i \in Positions : item'[c][i].job = item[c][i].job
    BY <1>2, <1>10 DEF Watch, Typed, ItemRows
  <2>. QED
    BY <1>10, <2>1, NamesUntouched DEF Watch, counters
<1>12. ASSUME NEW b \in BatchIds, CoordinatorFails(b) PROVE NamesKept
  <2>1. UNCHANGED <<item, sub>> /\ failures' = failures + 1 /\ crashes' = crashes
    BY <1>12 DEF CoordinatorFails, Failure
  <2>2. crashes' + failures' # 0
    BY <1>2, <2>1
  <2>. QED
    BY <2>1, <2>2, NamesUntouched
<1>13. ASSUME NEW b \in BatchIds, NEW i \in Positions, NEW r, NEW s, Moved(b, i, r, s)
       PROVE  \A c \in BatchIds, k \in Positions :
                Named(c, k)' = IF c = b /\ k = i THEN {r.job, s.job} \ {NoJob} ELSE Named(c, k)
  <2>1. item' = Put(item, b, i, r) /\ sub' = Put(sub, b, i, s)
    BY <1>13 DEF Moved
  <2>2. /\ item'[b][i] = r
        /\ \A c \in BatchIds, k \in Positions : c # b \/ k # i => item'[c][k] = item[c][k]
    BY <2>1 DEF Put
  <2>3. /\ sub'[b][i] = s
        /\ \A c \in BatchIds, k \in Positions : c # b \/ k # i => sub'[c][k] = sub[c][k]
    BY <2>1 DEF Put
  <2>. QED
    BY <2>2, <2>3 DEF Named
<1>14. ASSUME NEW b \in BatchIds, NEW i \in Positions, MarkItem(b, i) \/ RejectItem(b, i) \/ LinkItem(b, i)
       PROVE  NamesKept
  <2>1. sub[b][i].pc \in {"todo", "resolve", "link"}
    BY <1>14 DEF MarkItem, RejectItem, LinkItem
  <2>2. item[b][i].job = NoJob /\ (sub[b][i].pc \in {"todo", "resolve"} => sub[b][i].job = NoJob)
    BY <2>1 DEF RowsInv, ItemInv, Gone
  <2>3. PICK r, s : Moved(b, i, r, s) /\ {r.job, s.job} \ {NoJob} = Named(b, i)
    <3>1. CASE MarkItem(b, i)
      <4>1. Moved(b, i, ItemRow("running", NoJob), SubRow("resolve", NoJob)) /\ sub[b][i].job = NoJob
        BY <1>2, <2>2, <3>1, SubmitterMoves DEF MarkItem
      <4>. QED
        BY <2>2, <4>1, Fields DEF Named
    <3>2. CASE RejectItem(b, i)
      <4>1. Moved(b, i, ItemRow("failed", NoJob), SubRow("none", NoJob)) /\ sub[b][i].job = NoJob
        BY <1>2, <2>2, <3>2, SubmitterMoves, Fields DEF RejectItem
      <4>. QED
        BY <2>2, <4>1, Fields DEF Named
    <3>3. CASE LinkItem(b, i)
      <4>1. Moved(b, i, ItemRow("running", sub[b][i].job), SubRow("none", NoJob))
        BY <1>2, <3>3, SubmitterMoves, Fields
      <4>2. {sub[b][i].job, NoJob} \ {NoJob} = Named(b, i)
        BY <2>2 DEF Named
      <4>. QED
        BY <4>1, <4>2, Fields
    <3>. QED
      BY <1>14, <3>1, <3>2, <3>3
  <2>4. \A c \in BatchIds, k \in Positions : Named(c, k)' = Named(c, k)
    BY <1>13, <2>3
  <2>5. UNCHANGED <<status, crashes, failures>>
    BY <1>14 DEF MarkItem, RejectItem, LinkItem, counters
  <2>. QED
    BY <2>4, <2>5 DEF NamesKept
<1>15. ASSUME NEW b \in BatchIds, NEW i \in Positions, MarkFails(b, i) \/ LinkFails(b, i) PROVE NamesKept
  <2>1. PICK r : r = ItemRow("failed", item[b][i].job)
    OBVIOUS
  <2>2. Moved(b, i, r, Gone) /\ r.job = item[b][i].job /\ Gone.job = NoJob
    BY <1>2, <1>15, <2>1, SubmitterMoves, Fields DEF Gone
  <2>3. \A c \in BatchIds, k \in Positions : Named(c, k)' \subseteq Named(c, k)
    <3>1. {r.job, Gone.job} \ {NoJob} \subseteq Named(b, i)
      BY <2>2 DEF Named
    <3>. QED
      BY <1>13, <2>2, <3>1
  <2>4. crashes' + failures' # 0
    BY <1>2, <1>15 DEF MarkFails, LinkFails, Failure
  <2>. QED
    BY <2>3, <2>4 DEF NamesKept
<1>16. CASE Crash
  <2>1. \A b \in BatchIds, i \in Positions : item'[b][i].job = item[b][i].job /\ sub'[b][i].job = NoJob
    BY <1>2, <1>16 DEF Crash, Typed, ItemRows, Gone
  <2>2. \A b \in BatchIds, i \in Positions : Named(b, i)' \subseteq Named(b, i)
    BY <2>1 DEF Named
  <2>3. crashes' + failures' # 0
    BY <1>2, <1>16 DEF Crash
  <2>. QED
    BY <2>2, <2>3 DEF NamesKept
<1>17. CASE JobsMove
  <2>1. UNCHANGED <<item, sub, crashes>> /\ (failures' = failures \/ failures' = failures + 1)
    BY <1>17 DEF JobsMove, Failure
  <2>2. status \in [Jobs -> JobStatuses]
    BY DEF TypeOK
  <2>3. \A j \in Jobs : status'[j] # "none" => status[j] # "none"
    BY <1>17, <2>2, BatchesAssumption DEF JobsMove, StartJob, FinishJob, FailLate, RequeueJobs, Move
  <2>5. crashes \in Nat /\ failures \in Nat
    BY DEF TypeOK
  <2>4. crashes' + failures' = 0 => crashes + failures = 0
    BY <2>1, <2>5
  <2>. QED
    BY <2>1, <2>3, <2>4, NamesUntouched
<1>. QED
  BY <1>3, <1>5, <1>6, <1>7, <1>8, <1>9, <1>10, <1>12, <1>14, <1>15, <1>16, <1>17 DEF Next, Coordinator, Submitter

-----------------------------------------------------------------------------
(* The quota *)

LEMMA Batched == IsFiniteSet(BatchIds)
BY Numbers, FS_Interval DEF BatchIds

LEMMA ReservedInit == Init => ReservedExactly
<1>. SUFFICES ASSUME Init PROVE ReservedExactly
  OBVIOUS
<1>1. \A b \in BatchIds : batch[b].total = 0
  BY DEF Init
<1>2. Reserved = 0
  BY <1>1, Batched, ReservedSum, SumOfZeros
<1>. QED
  BY <1>2, Numbers DEF Init, ReservedExactly

\* A step that adds n scans to the total of one batch and as many to the usage.
LEMMA ReservedGrows ==
  ASSUME TypeOK, ReservedExactly, NEW b \in BatchIds, NEW n \in Nat,
         \A c \in BatchIds : batch'[c].total = IF c = b THEN batch[c].total + n ELSE batch[c].total,
         usage'.reserved = usage.reserved + n, usage.reserved + n <= Quota
  PROVE  ReservedExactly'
<1>1. Reserved' = SumFcn(batch', BatchIds)[BatchIds]
  BY DEF Reserved, SumFcn, MapThenSumSet, MapThenFoldSet
<1>2. \A c \in BatchIds : batch[c].total \in Nat
  BY DEF TypeOK
<1>3. SumFcn(batch', BatchIds)[BatchIds] = SumFcn(batch, BatchIds)[BatchIds] + n
  BY <1>2, Batched, SumGrows
<1>. QED
  BY <1>1, <1>3, ReservedSum DEF ReservedExactly

LEMMA ReservedStep ==
  ASSUME TypeOK, RowsInv, ReservedExactly, [Next]_vars
  PROVE  ReservedExactly'
<1>1. ASSUME \A b \in BatchIds : batch'[b].total = batch[b].total, usage'.reserved = usage.reserved
      PROVE  ReservedExactly'
  <2>1. CASE BatchIds = {}
    <3>1. Reserved = 0 /\ Reserved' = 0
      <4>1. Reserved' = SumFcn(batch', BatchIds)[BatchIds]
        BY DEF Reserved, SumFcn, MapThenSumSet, MapThenFoldSet
      <4>. QED
        BY <2>1, <4>1, Batched, ReservedSum, SumRule
    <3>. QED
      BY <1>1, <3>1 DEF ReservedExactly
  <2>2. ASSUME NEW b \in BatchIds PROVE ReservedExactly'
    <3>1. /\ usage.reserved \in Nat /\ usage.reserved <= Quota
          /\ \A c \in BatchIds : batch[c].total \in Nat
      BY DEF TypeOK, ReservedExactly
    <3>2. /\ usage'.reserved = usage.reserved + 0 /\ usage.reserved + 0 <= Quota
          /\ \A c \in BatchIds : batch'[c].total = IF c = b THEN batch[c].total + 0 ELSE batch[c].total
      BY <1>1, <3>1
    <3>. QED
      BY <3>2, ReservedGrows
  <2>. QED
    BY <2>1, <2>2
<1>2. ASSUME NEW key \in Keys \cup {NoKey}, NEW n \in Sizes, NewBatch(key, n) PROVE ReservedExactly'
  <2>1. PICK b \in BatchIds :
          /\ ~Exists(b)
          /\ batch' = [batch EXCEPT ![b] =
               [status |-> "queued", key |-> key, total |-> n, counts |-> [Zero EXCEPT !.queued = n]]]
    BY <1>2 DEF NewBatch
  <2>2. n \in Nat /\ batch[b].total = 0
    BY <2>1, Numbers DEF RowsInv, BatchInv
  <2>3. \A c \in BatchIds : batch'[c].total = IF c = b THEN batch[c].total + n ELSE batch[c].total
    BY <2>1, <2>2 DEF TypeOK
  <2>4. usage'.reserved = usage.reserved + n /\ usage.reserved + n <= Quota
    BY <1>2 DEF NewBatch, TypeOK
  <2>. QED
    BY <2>2, <2>3, <2>4, ReservedGrows
<1>3. ASSUME ~\E key \in Keys \cup {NoKey}, n \in Sizes : NewBatch(key, n)
      PROVE  /\ \A b \in BatchIds : batch'[b].total = batch[b].total
             /\ usage'.reserved = usage.reserved
  <2>1. batch \in [BatchIds -> BatchRows] /\ usage \in [reserved : Nat, completed : Nat, failed : Nat]
    BY DEF TypeOK, BatchRows
  <2>2. usage'.reserved = usage.reserved
    <3>1. ASSUME NEW b \in BatchIds, Tally(b) PROVE usage'.reserved = usage.reserved
      BY <2>1, <3>1 DEF Tally
    <3>2. usage' = usage \/ \E b \in BatchIds : Tally(b)
      BY <1>3 DEF Next, vars, RepeatBatch, Coordinator, Begin, Submitted, Watch, Close, CoordinatorFails,
             Submitter, MarkItem, RejectItem, SubmitItem, LinkItem, MarkFails, LinkFails, Crash, JobsMove
    <3>. QED
      BY <3>1, <3>2
  <2>3. ASSUME NEW b \in BatchIds, Begin(b) \/ Close(b) \/ CoordinatorFails(b), NEW c \in BatchIds
        PROVE  batch'[c].total = batch[c].total
    <3>1. CASE batch' = batch
      BY <3>1
    <3>2. ASSUME NEW st, batch' = [batch EXCEPT ![b].status = st] PROVE batch'[c].total = batch[c].total
      BY <2>1, <3>2 DEF BatchRows
    <3>3. ASSUME NEW st, NEW n, batch' = [batch EXCEPT ![b].counts = n, ![b].status = st]
          PROVE  batch'[c].total = batch[c].total
      BY <2>1, <3>3 DEF BatchRows
    <3>. QED
      BY <2>3, <3>1, <3>2, <3>3 DEF Begin, Close, CoordinatorFails
  <2>4. ASSUME NEW b \in BatchIds, NEW i \in Positions, MarkFails(b, i), NEW c \in BatchIds
        PROVE  batch'[c].total = batch[c].total
    BY <2>1, <2>4 DEF MarkFails, BatchRows
  <2>5. \/ batch' = batch \/ \E b \in BatchIds : Begin(b) \/ Close(b) \/ CoordinatorFails(b)
        \/ \E b \in BatchIds, i \in Positions : MarkFails(b, i)
    BY <1>3 DEF Next, vars, RepeatBatch, Coordinator, Submitted, Watch, Tally,
           Submitter, MarkItem, RejectItem, SubmitItem, LinkItem, LinkFails, Crash, JobsMove
  <2>. QED
    BY <2>2, <2>3, <2>4, <2>5
<1>. QED
  BY <1>1, <1>2, <1>3

-----------------------------------------------------------------------------
(* Theorems *)

\* The inductive invariant of batches, items, jobs and the reserved scans.
THEOREM InductiveInvariant == Spec => []IInv
<1>1. Init => IInv
  BY TypeInit, RowsInit, JobsInit, ReservedInit DEF IInv
<1>2. IInv /\ [Next]_vars => IInv'
  <2>. SUFFICES ASSUME IInv, [Next]_vars PROVE IInv'
    OBVIOUS
  <2>1. TypeOK /\ RowsInv /\ JobsInv /\ ReservedExactly
    BY DEF IInv
  <2>2. TypeOK'
    BY <2>1, TypeStep
  <2>. QED
    BY <2>1, <2>2, RowsStep, JobsStep, ReservedStep DEF IInv
<1>. QED
  BY <1>1, <1>2, PTL DEF Spec

\* Rows, threads and counters keep their types.
THEOREM TypeCorrect == Spec => []TypeOK
<1>1. IInv => TypeOK
  BY DEF IInv
<1>. QED
  BY <1>1, InductiveInvariant, PTL

\* The reserved scans are those of the batches, each counted once, and within the
\* monthly limit, whatever create_batch answers to repeated requests.
THEOREM ReservedOnce == Spec => []ReservedExactly
<1>1. IInv => ReservedExactly
  BY DEF IInv
<1>. QED
  BY <1>1, InductiveInvariant, PTL

\* What a batch calls finished is finished, over crashes and failed store calls between
\* a submission and its link: 'completed' and 'failed' items, 'complete' batches, counts.
THEOREM FinishedStaysTrue == Spec => []FinishedIsTrue
<1>1. IInv => FinishedIsTrue
  <2>. SUFFICES ASSUME IInv PROVE FinishedIsTrue
    OBVIOUS
  <2>1. ItemsMatchJobs
    <3>1. ASSUME NEW b \in BatchIds, NEW i \in Positions, NEW c \in BatchIds, NEW k \in Positions,
                 item[b][i].job # NoJob, item[c][k].job = item[b][i].job
          PROVE  c = b /\ k = i
      BY <3>1 DEF IInv, JobsInv, Named
    <3>. QED
      BY <3>1 DEF IInv, RowsInv, ItemInv, ItemsMatchJobs
  <2>2. NoOrphanJobs
    <3>1. crashes \in Nat /\ failures \in Nat
      BY DEF IInv, TypeOK
    <3>2. crashes + failures > 0 \/ crashes + failures = 0
      BY <3>1
    <3>. QED
      BY <3>2 DEF IInv, JobsInv, Named, NoOrphanJobs
  <2>3. CountsAgree
    BY DEF IInv, RowsInv, BatchInv, CountsAgree
  <2>4. CompleteIsDone
    BY DEF IInv, RowsInv, BatchInv, CompleteIsDone
  <2>. QED
    BY <2>1, <2>2, <2>3, <2>4 DEF FinishedIsTrue
<1>. QED
  BY <1>1, InductiveInvariant, PTL
=============================================================================

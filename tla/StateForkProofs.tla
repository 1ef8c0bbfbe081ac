--------------------------- MODULE StateForkProofs ---------------------------
(***************************************************************************)
(* Proofs about StateFork for one thread, and any number of scans, blocks  *)
(* and faults and any kinds of token: every scan ends with its anvil       *)
(* stopped, every attempt starts from the anchored block, and a sale is    *)
(* reported as blocked only when the token's own rule blocks it.           *)
(***************************************************************************)
EXTENDS StateFork, SequenceTheorems, FiniteSetTheorems, TLAPS

\* Scans follow one another, as in the process of worker_cli.
OneWorker == \A v, w \in Workers : v = w

AnvilRow == [st : {"gone", "booting", "serving"}, base : 0..Blocks, chain : Seq(Traded),
             saved : Seq([live : BOOLEAN, chain : Seq(Traded)])]
JobRow == [pc : {"idle", "start", "boot", "verify", "outer", "attempt", "exec", "revert",
                 "close", "kill", "clear"},
           kind : Kinds \cup {"none"}, anchor : 0..Blocks, at : 1..Len(Modes), step : 1..4,
           outer : Nat, snap : Nat, bought : Nat, results : Seq(Result),
           exc : {"none", "unavailable", "error"}]

\* The places in which a scan has an anvil of its own.
Up == {"boot", "verify", "outer", "attempt", "exec", "revert", "close", "kill"}

RestInv ==
  /\ (\A w \in Workers : job[w].pc \in {"idle", "start"}) => process = 0 /\ ~url
  /\ (\A w \in Workers : job[w].pc \in {"idle", "start", "clear"}) => \A i \in Ids : anvils[i] = Gone

Ops(j) == Plan(j.kind)[j.at].ops
Clean(chain) == \A k \in DOMAIN chain : chain[k].op # "sell"

\* The anvil of a scan, unless it exited, was made at its anchor; nothing was traded
\* before a snapshot, nor between attempts; the snapshot of an attempt is unused, and
\* an attempt has not sold before its sale.
AnvilInv(j, a) ==
  /\ a.base = j.anchor
  /\ \A k \in DOMAIN a.saved : a.saved[k].chain = <<>>
  /\ j.pc \in {"boot", "verify", "outer", "attempt"} => a.chain = <<>>
  /\ j.pc = "exec" => Clean(a.chain) /\ (j.step = 1 => a.chain = <<>>)
  /\ j.pc \in {"exec", "revert"} => j.snap \in DOMAIN a.saved /\ a.saved[j.snap].live

UpInv ==
  \A w \in Workers : job[w].pc \in Up =>
    /\ process \in Ids /\ url
    /\ \A i \in Ids \ {process} : anvils[i] = Gone
    /\ anvils[process] # Gone => AnvilInv(job[w], anvils[process])

\* What a result says is true of the token: a blocked sale is restricted by its own rule,
\* and a sale with a tax is not, and paid this tax.
Proven(r) ==
  LET n == SellAmount(Bought(token), r.mode) IN
  /\ r.class = "sell_blocked" => Restricts(token, Own(token), "sell", n)
  /\ r.tax # None => ~Restricts(token, Own(token), "sell", n) /\ r.tax = SellTax(n, Received(token, n))

\* While nothing was raised, a matrix has a result for each attempt that ended, in the
\* order of the modes, and it ends with all of them.
MatrixInv(j) ==
  IsMatrix(j.kind) /\ j.exc = "none" =>
    /\ \A k \in DOMAIN j.results : j.results[k].mode = Modes[k]
    /\ j.pc \in {"start", "boot", "verify", "outer", "attempt", "exec"} => Len(j.results) = j.at - 1
    /\ j.pc = "revert" => Len(j.results) = j.at
    /\ j.pc \in {"close", "kill", "clear"} => Len(j.results) = Len(Modes)

JobInv(j) ==
  /\ j.pc # "idle" => j.kind \in Kinds /\ j.at \in DOMAIN Plan(j.kind)
  /\ j.pc = "exec" => j.step \in DOMAIN Ops(j)
  /\ j.pc = "exec" /\ IsMatrix(j.kind) /\ (\E k \in 1..(j.step - 1) : Ops(j)[k] = "buy") =>
       j.bought = Bought(token)
  /\ \A k \in DOMAIN j.results : Proven(j.results[k])
  /\ MatrixInv(j)

\* What MatrixVerdict says of a report.
Judged(r) ==
  /\ r.verdict # "none"
  /\ \A x \in Sales(r.results) : x.class = "sell_blocked" \/ x.tax # None
  => r.verdict = Deserved(token)

ReportRow ==
  [kind : Kinds \cup {"none"}, results : Seq(Result),
   status : {"none", "unknown", "failed", "partial", "complete"},
   verdict : {"none", "HONEYPOT_DETECTED", "CRITICAL_RISK", "HIGH_RISK", "UNVERIFIED", "LOW_RISK"}]
ReportInv(r) ==
  /\ r \in ReportRow
  /\ \A k \in DOMAIN r.results : Proven(r.results[k])
  /\ Judged(r)

IInv ==
  /\ TypeOK
  /\ RestInv /\ UpInv
  /\ \A w \in Workers : JobInv(job[w])
  /\ ReportInv(report)

-----------------------------------------------------------------------------
(* The attempts a scan plans, and their transactions *)

MatrixLists == {<<"buy", "approve", "sell">>, <<"buy", "transfer">>,
                <<"pre_approve", "buy", "approve", "sell">>, <<"pre_approve", "buy", "transfer">>}
Lists == MatrixLists \cup {<<"buy">>, <<"sell">>}

LEMMA ModesFacts ==
  /\ Modes \in Seq(SellModes \cup {"transfer_only"}) /\ Len(Modes) = 6 /\ DOMAIN Modes = 1..6
  /\ \A i \in 1..6 : Modes[i] \in SellModes \cup {"transfer_only"}
  /\ SellModes = {"baseline", "micro_sell", "small_sell", "partial_sell", "sell_all"}
BY DEF Modes, SellModes, Fraction

LEMMA MatrixOpsFacts ==
  ASSUME NEW mode
  PROVE  /\ <<>> \o MatrixOps(mode) \in MatrixLists /\ <<"pre_approve">> \o MatrixOps(mode) \in MatrixLists
         /\ mode = "transfer_only" =>
              <<>> \o MatrixOps(mode) = <<"buy", "transfer">>
              /\ <<"pre_approve">> \o MatrixOps(mode) = <<"pre_approve", "buy", "transfer">>
<1>1. /\ <<>> \o <<"buy", "approve", "sell">> = <<"buy", "approve", "sell">>
      /\ <<>> \o <<"buy", "transfer">> = <<"buy", "transfer">>
  OBVIOUS
<1>2. <<"pre_approve">> \o <<"buy", "approve", "sell">> = <<"pre_approve", "buy", "approve", "sell">>
  <2>1. <<"pre_approve">> \in Seq({"pre_approve", "buy", "approve", "sell", "transfer"}) /\ <<"buy", "approve", "sell">> \in Seq({"pre_approve", "buy", "approve", "sell", "transfer"})
    OBVIOUS
  <2>. DEFINE s == <<"pre_approve">> \o <<"buy", "approve", "sell">>
              e == <<"pre_approve", "buy", "approve", "sell">>
  <2>2. s \in Seq({"pre_approve", "buy", "approve", "sell", "transfer"}) /\ Len(s) = 4 /\ \A i \in 1..4 : s[i] = e[i]
    BY <2>1, ConcatProperties
  <2>3. e \in Seq({"pre_approve", "buy", "approve", "sell", "transfer"}) /\ Len(e) = 4
    OBVIOUS
  <2>. HIDE DEF s, e
  <2>4. s = e
    BY <2>2, <2>3, SeqEqual
  <2>. QED
    BY <2>4 DEF s, e
<1>3. <<"pre_approve">> \o <<"buy", "transfer">> = <<"pre_approve", "buy", "transfer">>
  <2>1. <<"pre_approve">> \in Seq({"pre_approve", "buy", "approve", "sell", "transfer"}) /\ <<"buy", "transfer">> \in Seq({"pre_approve", "buy", "approve", "sell", "transfer"})
    OBVIOUS
  <2>. DEFINE s == <<"pre_approve">> \o <<"buy", "transfer">>
              e == <<"pre_approve", "buy", "transfer">>
  <2>2. s \in Seq({"pre_approve", "buy", "approve", "sell", "transfer"}) /\ Len(s) = 3 /\ \A i \in 1..3 : s[i] = e[i]
    BY <2>1, ConcatProperties
  <2>3. e \in Seq({"pre_approve", "buy", "approve", "sell", "transfer"}) /\ Len(e) = 3
    OBVIOUS
  <2>. HIDE DEF s, e
  <2>4. s = e
    BY <2>2, <2>3, SeqEqual
  <2>. QED
    BY <2>4 DEF s, e
<1>. QED
  BY <1>1, <1>2, <1>3, Zenon DEF MatrixOps, Trade, MatrixLists

\* A sale is the last transaction of its attempt, in a mode that sells; in a matrix a buy
\* comes before it.
LEMMA ListFacts ==
  ASSUME NEW ops \in Lists
  PROVE  /\ Len(ops) \in 1..4 /\ DOMAIN ops = 1..Len(ops)
         /\ \A k \in DOMAIN ops : ops[k] \in {"pre_approve", "buy", "approve", "sell", "transfer"}
         /\ \A k \in DOMAIN ops : ops[k] = "sell" => k = Len(ops)
         /\ ops \in MatrixLists => \A k \in DOMAIN ops : ops[k] = "sell" => \E l \in 1..(k - 1) : ops[l] = "buy"
<1>1. CASE ops = <<"buy", "approve", "sell">>
  <2>1. ops[1] = "buy" /\ Len(ops) = 3 /\ DOMAIN ops = 1..3 /\ ops[2] = "approve" /\ ops[3] = "sell"
    BY <1>1
  <2>. QED
    BY <2>1
<1>2. CASE ops = <<"buy", "transfer">>
  BY <1>2
<1>3. CASE ops = <<"pre_approve", "buy", "approve", "sell">>
  <2>1. /\ ops[1] = "pre_approve" /\ Len(ops) = 4 /\ DOMAIN ops = 1..4 /\ ops[2] = "buy"
        /\ ops[3] = "approve" /\ ops[4] = "sell"
    BY <1>3
  <2>. QED
    BY <2>1
<1>4. CASE ops = <<"pre_approve", "buy", "transfer">>
  BY <1>4
<1>5. CASE ops \in {<<"buy">>, <<"sell">>}
  <2>1. Len(ops) = 1 /\ DOMAIN ops = 1..1 /\ ops[1] \in {"buy", "sell"} /\ ops \notin MatrixLists
    BY <1>5 DEF MatrixLists
  <2>. QED
    BY <2>1
<1>. QED
  BY <1>1, <1>2, <1>3, <1>4, <1>5 DEF Lists, MatrixLists

LEMMA PlanFacts ==
  ASSUME NEW kind \in Kinds, NEW k \in DOMAIN Plan(kind)
  PROVE  /\ k \in 1..Len(Modes) /\ 1 \in DOMAIN Plan(kind) /\ DOMAIN Plan(kind) = 1..Len(Plan(kind))
         /\ Len(Plan(kind)) \in Nat
         /\ Plan(kind)[k].mode \in SellModes \cup {"transfer_only"}
         /\ Plan(kind)[k].ops \in Lists
         /\ IsMatrix(kind) => Plan(kind)[k].ops \in MatrixLists
         /\ IsMatrix(kind) => Len(Plan(kind)) = Len(Modes) /\ Plan(kind)[k].mode = Modes[k]
         /\ ~IsMatrix(kind) => Plan(kind)[k].mode = "baseline"
         /\ Plan(kind)[k].mode = "transfer_only" => \A l \in DOMAIN Plan(kind)[k].ops : Plan(kind)[k].ops[l] # "sell"
<1>0. kind \in {"sequence", "scenarios", "matrix", "matrix_erc20"}
  BY StateForkAssumption
<1>1. CASE kind = "sequence"
  <2>1. Plan(kind) = <<[mode |-> "baseline", ops |-> Trade]>>
    BY <1>1 DEF Plan
  <2>2. k = 1 /\ DOMAIN Plan(kind) = 1..1 /\ Len(Plan(kind)) = 1 /\ Plan(kind)[1] = [mode |-> "baseline", ops |-> Trade]
    BY <2>1
  <2>. QED
    BY <1>1, <2>2, ModesFacts DEF IsMatrix, Trade, Lists, MatrixLists
<1>2. CASE kind = "scenarios"
  <2>1. Plan(kind) = <<[mode |-> "baseline", ops |-> <<"buy">>], [mode |-> "baseline", ops |-> <<"sell">>]>>
    BY <1>2 DEF Plan
  <2>2. /\ k \in 1..2 /\ DOMAIN Plan(kind) = 1..2 /\ Len(Plan(kind)) = 2
        /\ Plan(kind)[k].mode = "baseline" /\ Plan(kind)[k].ops \in {<<"buy">>, <<"sell">>}
    BY <2>1
  <2>. QED
    BY <1>2, <2>2, ModesFacts DEF IsMatrix, Lists
<1>3. CASE kind \in {"matrix", "matrix_erc20"}
  <2>. DEFINE pre == IF kind = "matrix_erc20" THEN <<"pre_approve">> ELSE <<>>
  <2>1. Plan(kind) = [i \in DOMAIN Modes |-> [mode |-> Modes[i], ops |-> pre \o MatrixOps(Modes[i])]]
    BY <1>3 DEF Plan
  <2>2. k \in 1..6 /\ DOMAIN Plan(kind) = 1..6 /\ Plan(kind)[k] = [mode |-> Modes[k], ops |-> pre \o MatrixOps(Modes[k])]
    BY <2>1, ModesFacts
  <2>3. Len(Plan(kind)) = 6
    BY <2>1, <2>2
  <2>4. pre \o MatrixOps(Modes[k]) \in MatrixLists
    BY MatrixOpsFacts
  <2>5. Modes[k] = "transfer_only" => \A l \in DOMAIN (pre \o MatrixOps(Modes[k])) : (pre \o MatrixOps(Modes[k]))[l] # "sell"
    <3>. SUFFICES ASSUME Modes[k] = "transfer_only"
                  PROVE  \A l \in DOMAIN (pre \o MatrixOps(Modes[k])) : (pre \o MatrixOps(Modes[k]))[l] # "sell"
      OBVIOUS
    <3>1. pre \o MatrixOps(Modes[k]) \in {<<"buy", "transfer">>, <<"pre_approve", "buy", "transfer">>}
      BY MatrixOpsFacts
    <3>2. \A s \in {<<"buy", "transfer">>, <<"pre_approve", "buy", "transfer">>} : \A l \in DOMAIN s : s[l] # "sell"
      OBVIOUS
    <3>. QED
      BY <3>1, <3>2, Zenon
  <2>. HIDE DEF pre
  <2>. QED
    BY <1>3, <2>2, <2>3, <2>4, <2>5, ModesFacts DEF IsMatrix, Lists
<1>. QED
  BY <1>0, <1>1, <1>2, <1>3

-----------------------------------------------------------------------------
(* Amounts and taxes *)

LEMMA BoughtFacts ==
  ASSUME NEW t
  PROVE  Bought(t) \in Nat /\ Bought(t) > 0 /\ SellAmount(Bought(t), "baseline") = Bought(t)
BY DEF Bought, SellAmount, Fraction, Bps

LEMMA Quotient ==
  ASSUME NEW n \in Nat, NEW d \in Nat, d > 0
  PROVE  n \div d \in Nat /\ n % d \in Nat /\ (n < 10000 * d => n \div d < 10000)
OBVIOUS

LEMMA SellAmountType ==
  ASSUME NEW bought \in Nat, NEW mode \in SellModes
  PROVE  SellAmount(bought, mode) \in Nat
<1>1. Fraction[mode] \in {10000, 1000, 2500, 5000}
  BY DEF SellModes, Fraction
<1>2. bought * Fraction[mode] \in Nat
  BY <1>1
<1>. QED
  BY <1>2, Quotient DEF SellAmount, Bps

LEMMA SellTaxType ==
  ASSUME NEW requested \in Int, NEW received \in Int
  PROVE  SellTax(requested, received) \in {None} \cup 0..Bps
<1>1. SUFFICES ASSUME requested > 0, received > 0, received <= requested
               PROVE  Round((requested - received) * Bps, requested) \in 0..Bps
  BY DEF SellTax
<1>. DEFINE n == (requested - received) * 10000
            q == n \div requested
            m == n % requested
<1>2. n \in Nat /\ n < 10000 * requested
  BY <1>1
<1>3. q \in Nat /\ q < 10000
  BY <1>1, <1>2, Quotient
<1>4. Round(n, requested) \in {q, q + 1}
  BY DEF Round
<1>5. Round((requested - received) * Bps, requested) = Round(n, requested)
  BY DEF Bps
<1>6. {q, q + 1} \subseteq 0..10000
  <2>. HIDE DEF q
  <2>. QED
    BY <1>3
<1>. HIDE DEF n, q, m
<1>. QED
  BY <1>4, <1>5, <1>6 DEF Bps

-----------------------------------------------------------------------------
(* Anvil and its snapshots *)

LEMMA Types ==
  ASSUME TypeOK
  PROVE  anvils \in [Ids -> AnvilRow] /\ job \in [Workers -> JobRow]
BY DEF TypeOK, AnvilRow, JobRow

LEMMA GoneFacts == Gone \in AnvilRow /\ Gone.st = "gone"
BY StateForkAssumption DEF Gone, AnvilRow

LEMMA SavedFacts ==
  ASSUME NEW a \in AnvilRow
  PROVE  /\ Saved(a) \in AnvilRow
         /\ Saved(a).st = a.st /\ Saved(a).base = a.base /\ Saved(a).chain = a.chain
         /\ Len(a.saved) \in Nat /\ DOMAIN a.saved = 1..Len(a.saved)
         /\ DOMAIN Saved(a).saved = 1..(Len(a.saved) + 1)
         /\ \A k \in DOMAIN a.saved : Saved(a).saved[k] = a.saved[k]
         /\ Saved(a).saved[Len(a.saved) + 1] = [live |-> TRUE, chain |-> a.chain]
<1>. DEFINE e == [live |-> TRUE, chain |-> a.chain]
            S == [live : BOOLEAN, chain : Seq(Traded)]
<1>1. a.saved \in Seq(S) /\ e \in S
  BY DEF AnvilRow
<1>2. Saved(a) = [st |-> a.st, base |-> a.base, chain |-> a.chain, saved |-> Append(a.saved, e)]
  <2>. HIDE DEF e, S
  <2>1. \A x : [a EXCEPT !.saved = x] = [st |-> a.st, base |-> a.base, chain |-> a.chain, saved |-> x]
    BY DEF AnvilRow
  <2>. QED
    BY <2>1, Zenon DEF Saved, e
<1>. HIDE DEF e, S
<1>3. /\ Append(a.saved, e) \in Seq(S) /\ Len(Append(a.saved, e)) = Len(a.saved) + 1
      /\ \A k \in 1..Len(a.saved) : Append(a.saved, e)[k] = a.saved[k]
      /\ Append(a.saved, e)[Len(a.saved) + 1] = e
  BY <1>1, AppendProperties
<1>4. Len(a.saved) \in Nat /\ DOMAIN a.saved = 1..Len(a.saved) /\ DOMAIN Append(a.saved, e) = 1..(Len(a.saved) + 1)
  BY <1>1, <1>3, LenProperties
<1>5. Saved(a) \in AnvilRow
  BY <1>2, <1>3 DEF AnvilRow, S
<1>. QED
  BY <1>2, <1>3, <1>4, <1>5 DEF e

LEMMA SavedClean ==
  ASSUME NEW a \in AnvilRow, a.chain = <<>>, \A k \in DOMAIN a.saved : a.saved[k].chain = <<>>
  PROVE  /\ \A k \in DOMAIN Saved(a).saved : Saved(a).saved[k].chain = <<>>
         /\ Len(a.saved) + 1 \in DOMAIN Saved(a).saved /\ Saved(a).saved[Len(a.saved) + 1].live
<1>. DEFINE n == Len(a.saved)
            saved == Saved(a).saved
<1>1. n \in Nat /\ DOMAIN a.saved = 1..n /\ DOMAIN saved = 1..(n + 1)
  BY SavedFacts
<1>2. /\ \A k \in DOMAIN a.saved : saved[k] = a.saved[k]
      /\ saved[n + 1].live /\ saved[n + 1].chain = <<>>
  <2>1. saved[n + 1] = [live |-> TRUE, chain |-> <<>>] /\ \A k \in DOMAIN a.saved : saved[k] = a.saved[k]
    BY SavedFacts
  <2>. HIDE DEF n, saved
  <2>. QED
    BY <2>1
<1>. HIDE DEF n, saved
<1>3. \A k \in 1..(n + 1) : k \in 1..n \/ k = n + 1
  BY <1>1
<1>4. n + 1 \in 1..(n + 1)
  BY <1>1
<1>5. \A k \in DOMAIN saved : saved[k].chain = <<>>
  BY <1>1, <1>2, <1>3
<1>. QED
  BY <1>1, <1>2, <1>4, <1>5 DEF n, saved

LEMMA RevertedFacts ==
  ASSUME NEW a \in AnvilRow, NEW id \in Nat, \A k \in DOMAIN a.saved : a.saved[k].chain = <<>>
  PROVE  LET r == Reverted(a, id) IN
         /\ r \in AnvilRow /\ r.st = a.st /\ r.base = a.base
         /\ DOMAIN r.saved = DOMAIN a.saved /\ Len(r.saved) = Len(a.saved)
         /\ \A k \in DOMAIN r.saved : r.saved[k].chain = <<>>
         /\ r.chain \in {a.chain, <<>>}
         /\ id \in DOMAIN a.saved /\ a.saved[id].live => r.chain = <<>>
<1>1. CASE ~(id \in DOMAIN a.saved /\ a.saved[id].live)
  BY <1>1 DEF Reverted
<1>2. CASE id \in DOMAIN a.saved /\ a.saved[id].live
  <2>. DEFINE S == [live : BOOLEAN, chain : Seq(Traded)]
              f == [i \in DOMAIN a.saved |-> IF i >= id THEN [a.saved[i] EXCEPT !.live = FALSE] ELSE a.saved[i]]
  <2>1. a.saved \in Seq(S)
    BY DEF AnvilRow
  <2>2. Len(a.saved) \in Nat /\ DOMAIN a.saved = 1..Len(a.saved) /\ \A i \in DOMAIN a.saved : a.saved[i] \in S
    BY <2>1, LenProperties, ElementOfSeq
  <2>3. \A i \in DOMAIN a.saved : f[i] \in S /\ f[i].chain = <<>>
    BY <2>2
  <2>4. f \in [1..Len(a.saved) -> S]
    BY <2>2, <2>3
  <2>5. f \in Seq(S) /\ DOMAIN f = DOMAIN a.saved /\ Len(f) = Len(a.saved)
    BY <2>2, <2>4, IsASeq
  <2>6. Reverted(a, id) = [st |-> a.st, base |-> a.base, chain |-> <<>>, saved |-> f]
    BY <1>2 DEF Reverted, AnvilRow
  <2>7. Reverted(a, id) \in AnvilRow
    <3>. HIDE DEF f
    <3>. QED
      BY <2>5, <2>6 DEF AnvilRow
  <2>. HIDE DEF f
  <2>. QED
    BY <2>3, <2>5, <2>6, <2>7
<1>. QED
  BY <1>1, <1>2

\* Whoever answers a scan on the port is the scan's own anvil.
LEMMA ServerIsOwn ==
  ASSUME IInv, NEW w \in Workers, job[w].pc \in Up, RpcError = "none"
  PROVE  /\ Server = process /\ process \in Ids /\ anvils[process] \in AnvilRow
         /\ anvils[process].st = "serving" /\ anvils[process] # Gone
         /\ AnvilInv(job[w], anvils[process])
<1>1. Listening # {}
  BY DEF RpcError
<1>2. \A i \in Listening : i = process
  BY GoneFacts DEF Listening, IInv, UpInv
<1>3. Listening = {process}
  BY <1>1, <1>2
<1>4. Server = process
  BY <1>3 DEF Server
<1>5. process \in Ids /\ anvils[process].st = "serving"
  BY <1>3 DEF Listening
<1>6. anvils[process] # Gone
  BY <1>5, GoneFacts
<1>. QED
  BY <1>4, <1>5, <1>6, Types DEF IInv, UpInv

-----------------------------------------------------------------------------
(* What a step of the thread has to keep *)

LEMMA ReportKept == IInv /\ UNCHANGED <<report, token>> => ReportInv(report)'
BY DEF IInv, ReportInv, Proven, Judged

LEMMA StepFrame ==
  ASSUME OneWorker, IInv, NEW w \in Workers, NEW j \in JobRow, JobInv(j),
         job' = [job EXCEPT ![w] = j], token' = token,
         anvils' \in [Ids -> AnvilRow], process' \in {0} \cup Ids, url' \in BOOLEAN,
         jobs' \in 0..MaxJobs, faults' \in 0..MaxFaults, ReportInv(report)',
         j.pc \in {"idle", "start"} => process' = 0 /\ ~url',
         j.pc \in {"idle", "start", "clear"} => \A i \in Ids : anvils'[i] = Gone,
         j.pc \in Up => /\ process' \in Ids /\ url'
                        /\ \A i \in Ids \ {process'} : anvils'[i] = Gone
                        /\ anvils'[process'] # Gone => AnvilInv(j, anvils'[process'])
  PROVE  IInv'
<1>1. job' \in [Workers -> JobRow] /\ job'[w] = j /\ \A v \in Workers : v = w
  BY Types DEF IInv, OneWorker
<1>2. TypeOK'
  <2>1. report' \in ReportRow /\ token' \in Tokens
    BY DEF ReportInv, IInv, TypeOK
  <2>. QED
    BY <1>1, <2>1 DEF TypeOK, AnvilRow, JobRow, ReportRow
<1>3. RestInv'
  BY <1>1 DEF RestInv
<1>4. UpInv'
  BY <1>1 DEF UpInv, AnvilInv, Clean
<1>5. \A v \in Workers : JobInv(job[v])'
  <2>1. JobInv(job[w])'
    BY <1>1 DEF JobInv, MatrixInv, Proven, Ops
  <2>. QED
    BY <1>1, <2>1
<1>. QED
  BY <1>2, <1>3, <1>4, <1>5 DEF IInv

\* The same between two places of a running scan.
LEMMA UpStep ==
  ASSUME OneWorker, IInv, NEW w \in Workers, job[w].pc \in Up,
         NEW j \in JobRow, j.pc \in Up, JobInv(j), job' = [job EXCEPT ![w] = j],
         NEW a \in AnvilRow, a # Gone => AnvilInv(j, a),
         anvils' = [anvils EXCEPT ![process] = a],
         UNCHANGED <<token, process, url, report, jobs>>, faults' \in 0..MaxFaults
  PROVE  IInv'
<1>1. /\ process' \in Ids /\ url' /\ anvils \in [Ids -> AnvilRow]
      /\ \A i \in Ids \ {process} : anvils[i] = Gone
  BY Types DEF IInv, UpInv
<1>2. /\ anvils' \in [Ids -> AnvilRow] /\ anvils'[process'] = a
      /\ \A i \in Ids \ {process'} : anvils'[i] = Gone
  BY <1>1
<1>3. j.pc \notin {"idle", "start", "clear"}
  BY DEF Up
<1>4. url' \in BOOLEAN /\ jobs' \in 0..MaxJobs
  BY DEF IInv, TypeOK
<1>5. ReportInv(report)'
  BY ReportKept
<1>. QED
  BY <1>1, <1>2, <1>3, <1>4, <1>5, StepFrame

LEMMA NoAnvilStep ==
  ASSUME IInv, NEW w \in Workers, job[w].pc \in Up, UNCHANGED anvils
  PROVE  /\ anvils' = [anvils EXCEPT ![process] = anvils[process]] /\ anvils[process] \in AnvilRow
         /\ anvils[process] # Gone => AnvilInv(job[w], anvils[process])
BY Types DEF IInv, UpInv

\* An error, and the plain end of a part, lead on without a change of the anvil.
LEMMA LeaveStep ==
  ASSUME OneWorker, IInv, NEW w \in Workers, job[w].pc \in Up,
         NEW pc \in {"close", "kill"}, NEW exc \in {"unavailable", "error"},
         job' = [job EXCEPT ![w].pc = pc, ![w].exc = exc],
         UNCHANGED <<token, anvils, process, url, report, jobs>>, faults' \in 0..MaxFaults
  PROVE  IInv'
<1>. DEFINE j == [job[w] EXCEPT !.pc = pc, !.exc = exc]
<1>1. job[w] \in JobRow /\ JobInv(job[w])
  BY Types DEF IInv
<1>2. j \in JobRow /\ j.pc = pc /\ job' = [job EXCEPT ![w] = j]
  BY <1>1 DEF JobRow
<1>3. JobInv(j)
  BY <1>1 DEF JobInv, MatrixInv, JobRow, Ops, Up
<1>4. anvils[process] # Gone => AnvilInv(j, anvils[process])
  BY <1>1, NoAnvilStep DEF AnvilInv, JobRow
<1>5. j.pc \in Up
  BY <1>2 DEF Up
<1>. HIDE DEF j
<1>. QED
  BY <1>2, <1>3, <1>4, <1>5, NoAnvilStep, UpStep

-----------------------------------------------------------------------------
(* The anvils by themselves *)

LEMMA AnvilStep ==
  ASSUME OneWorker, IInv, NEW i \in Ids, anvils[i] # Gone,
         NEW a, a = Gone \/ a = [anvils[i] EXCEPT !.st = "serving"],
         anvils' = [anvils EXCEPT ![i] = a],
         UNCHANGED <<token, process, url, job, report, jobs>>, faults' \in 0..MaxFaults
  PROVE  IInv'
<1>1. anvils \in [Ids -> AnvilRow] /\ a \in AnvilRow
  BY Types, GoneFacts DEF IInv, AnvilRow
<1>2. anvils' \in [Ids -> AnvilRow] /\ anvils'[i] = a /\ \A k \in Ids \ {i} : anvils'[k] = anvils[k]
  BY <1>1
<1>3. TypeOK'
  BY <1>2 DEF IInv, TypeOK, AnvilRow
<1>4. RestInv'
  BY DEF IInv, RestInv
<1>5. UpInv'
  <2>. SUFFICES ASSUME NEW w \in Workers, job[w].pc \in Up
                PROVE  /\ process \in Ids /\ url
                       /\ \A k \in Ids \ {process} : anvils'[k] = Gone
                       /\ anvils'[process] # Gone => AnvilInv(job[w], anvils'[process])
    BY DEF UpInv, AnvilInv, Clean
  <2>1. i = process /\ url /\ AnvilInv(job[w], anvils[i]) /\ \A k \in Ids \ {i} : anvils[k] = Gone
    BY DEF IInv, UpInv
  <2>2. a # Gone => AnvilInv(job[w], a)
    BY <1>1, <2>1 DEF AnvilInv, AnvilRow
  <2>. QED
    BY <1>2, <2>1, <2>2
<1>6. (\A w \in Workers : JobInv(job[w]))' /\ ReportInv(report)'
  BY ReportKept DEF IInv, JobInv, MatrixInv, Proven, Ops
<1>. QED
  BY <1>3, <1>4, <1>5, <1>6 DEF IInv

LEMMA FaultType == IInv /\ (Fault \/ UNCHANGED faults) => faults' \in 0..MaxFaults
BY StateForkAssumption DEF Fault, IInv, TypeOK

LEMMA ServeStep ==
  ASSUME OneWorker, IInv, NEW i \in Ids, Serve(i) \/ Exit(i) \/ Dies(i)
  PROVE  IInv'
<1>1. anvils[i] # Gone
  BY GoneFacts DEF Serve, Exit, Dies
<1>2. faults' \in 0..MaxFaults
  BY FaultType DEF Serve, Exit, Dies
<1>3. CASE Serve(i)
  <2>. DEFINE a == [anvils[i] EXCEPT !.st = "serving"]
  <2>1. anvils' = [anvils EXCEPT ![i] = a]
    BY <1>3 DEF Serve
  <2>. HIDE DEF a
  <2>. QED
    BY <1>1, <1>2, <1>3, <2>1, AnvilStep DEF Serve, a
<1>4. CASE Exit(i) \/ Dies(i)
  <2>1. anvils' = [anvils EXCEPT ![i] = Gone] /\ UNCHANGED <<token, process, url, job, report, jobs>>
    BY <1>4 DEF Exit, Dies
  <2>. QED
    BY <1>1, <1>2, <2>1, AnvilStep
<1>. QED
  BY <1>3, <1>4

-----------------------------------------------------------------------------
(* The start of a scan *)

LEMMA JobFacts ==
  ASSUME IInv, NEW w \in Workers
  PROVE  /\ job[w] \in JobRow /\ JobInv(job[w]) /\ token \in Tokens
         /\ anvils \in [Ids -> AnvilRow] /\ process \in {0} \cup Ids /\ url \in BOOLEAN
         /\ jobs \in 0..MaxJobs /\ faults \in 0..MaxFaults
BY Types DEF IInv, TypeOK

LEMMA NoReportFacts ==
  /\ ReportInv(NoReport)
  /\ \A kind \in Kinds : ReportInv([NoReport EXCEPT !.kind = kind, !.status = "unknown"])
<1>1. <<>> \in Seq(Result) /\ DOMAIN <<>> = {} /\ Len(<<>>) = 0
  OBVIOUS
<1>. QED
  BY <1>1 DEF ReportInv, ReportRow, NoReport, Judged

LEMMA KeptToken ==
  ASSUME NEW r, report' = r, ReportInv(r), token' = token
  PROVE  ReportInv(report)'
BY DEF ReportInv, Proven, Judged

LEMMA IdleFacts ==
  /\ Idle \in JobRow /\ JobInv(Idle) /\ Idle.pc = "idle"
  /\ \A kind \in Kinds, b \in 1..Blocks :
       LET j == [Idle EXCEPT !.pc = "start", !.kind = kind, !.anchor = b] IN
       j \in JobRow /\ JobInv(j) /\ j.pc = "start"
<1>1. <<>> \in Seq(Result) /\ DOMAIN <<>> = {} /\ Len(<<>>) = 0
  OBVIOUS
<1>2. Blocks \in Nat
  BY StateForkAssumption
<1>3. \A kind \in Kinds : 1 \in DOMAIN Plan(kind)
  <2>. SUFFICES ASSUME NEW kind \in Kinds PROVE 1 \in DOMAIN Plan(kind)
    OBVIOUS
  <2>1. kind \in {"sequence", "scenarios", "matrix", "matrix_erc20"}
    BY StateForkAssumption
  <2>2. DOMAIN Modes = 1..6
    BY ModesFacts
  <2>. QED
    BY <2>1, <2>2 DEF Plan
<1>4. Idle \in JobRow /\ Idle.results = <<>> /\ Idle.at = 1 /\ Idle.pc = "idle"
  BY <1>1, <1>2, ModesFacts DEF Idle, JobRow
<1>5. JobInv(Idle)
  BY <1>1, <1>4 DEF JobInv, MatrixInv
<1>6. ASSUME NEW kind \in Kinds, NEW b \in 1..Blocks
      PROVE  LET j == [Idle EXCEPT !.pc = "start", !.kind = kind, !.anchor = b] IN
             j \in JobRow /\ JobInv(j) /\ j.pc = "start"
  <2>. DEFINE j == [Idle EXCEPT !.pc = "start", !.kind = kind, !.anchor = b]
  <2>0. b \in 0..Blocks /\ kind \in Kinds \cup {"none"}
    BY <1>2
  <2>1. j \in JobRow /\ j.pc = "start" /\ j.kind = kind /\ j.at = 1 /\ j.results = <<>>
    <3>1. j \in JobRow
      BY <1>4, <2>0 DEF JobRow
    <3>2. j.pc = "start" /\ j.kind = kind /\ j.at = 1 /\ j.results = <<>>
      BY <1>4 DEF JobRow
    <3>. QED
      BY <3>1, <3>2
  <2>. HIDE DEF j
  <2>2. JobInv(j)
    BY <1>1, <1>3, <2>1 DEF JobInv, MatrixInv
  <2>. QED
    BY <2>1, <2>2 DEF j
<1>. QED
  BY <1>4, <1>5, <1>6

LEMMA UnreachableStep ==
  ASSUME OneWorker, IInv, NEW w \in Workers, Unreachable(w)
  PROVE  IInv'
<1>1. job' = [job EXCEPT ![w] = job[w]] /\ job[w].pc = "idle"
  BY JobFacts, Types DEF Unreachable, IInv
<1>2. ReportInv(report)'
  BY NoReportFacts, KeptToken DEF Unreachable
<1>3. process = 0 /\ ~url /\ \A i \in Ids : anvils[i] = Gone
  BY <1>1 DEF IInv, RestInv, OneWorker
<1>4. jobs' \in 0..MaxJobs
  BY JobFacts, StateForkAssumption DEF Unreachable
<1>. QED
  BY <1>1, <1>2, <1>3, <1>4, JobFacts, StepFrame DEF Unreachable, Up

LEMMA ResolveStep ==
  ASSUME OneWorker, IInv, NEW w \in Workers, Resolve(w)
  PROVE  IInv'
<1>1. PICK kind \in Kinds, b \in 1..Blocks :
        job' = [job EXCEPT ![w] = [Idle EXCEPT !.pc = "start", !.kind = kind, !.anchor = b]]
  BY DEF Resolve
<1>. DEFINE j == [Idle EXCEPT !.pc = "start", !.kind = kind, !.anchor = b]
<1>2. j \in JobRow /\ JobInv(j) /\ j.pc = "start"
  BY IdleFacts
<1>3. ReportInv(report)'
  BY NoReportFacts, KeptToken DEF Resolve
<1>4. process = 0 /\ ~url /\ \A i \in Ids : anvils[i] = Gone
  BY DEF IInv, RestInv, OneWorker, Resolve
<1>5. jobs' \in 0..MaxJobs
  BY JobFacts, StateForkAssumption DEF Resolve
<1>6. job' = [job EXCEPT ![w] = j]
  BY <1>1
<1>. HIDE DEF j
<1>. QED
  BY <1>2, <1>3, <1>4, <1>5, <1>6, JobFacts, StepFrame DEF Resolve, Up

LEMMA StartStep ==
  ASSUME OneWorker, IInv, NEW w \in Workers, Start(w)
  PROVE  IInv'
<1>. DEFINE i == CHOOSE i \in Ids : anvils[i] = Gone /\ \A k \in 1..(i - 1) : anvils[k] # Gone
            a == [Gone EXCEPT !.st = "booting", !.base = job[w].anchor]
            j == [job[w] EXCEPT !.pc = "boot"]
<1>1. \A k \in Ids : anvils[k] = Gone
  BY DEF IInv, RestInv, OneWorker, Start
<1>2. i \in Ids
  <2>1. 1 \in Ids /\ anvils[1] = Gone /\ \A k \in 1..(1 - 1) : anvils[k] # Gone
    BY <1>1, StateForkAssumption DEF Ids
  <2>. QED
    BY <2>1
<1>3. anvils' = [anvils EXCEPT ![i] = a] /\ process' = i /\ url' /\ job' = [job EXCEPT ![w] = j]
  BY DEF Start, Goto
<1>4. job[w] \in JobRow /\ JobInv(job[w]) /\ job[w].pc = "start"
  BY JobFacts DEF Start
<1>5. j \in JobRow /\ j.pc = "boot" /\ j.anchor = job[w].anchor
  BY <1>4 DEF JobRow
<1>6. JobInv(j)
  BY <1>4 DEF JobInv, MatrixInv, JobRow
<1>7. a \in AnvilRow /\ AnvilInv(j, a)
  <2>1. <<>> \in Seq(Traded) /\ <<>> \in Seq([live : BOOLEAN, chain : Seq(Traded)]) /\ DOMAIN <<>> = {}
    OBVIOUS
  <2>2. job[w].anchor \in 0..Blocks
    BY <1>4 DEF JobRow
  <2>3. Gone \in AnvilRow /\ Gone.chain = <<>> /\ Gone.saved = <<>>
    BY GoneFacts DEF Gone
  <2>4. a \in AnvilRow /\ a.base = job[w].anchor /\ a.chain = <<>> /\ a.saved = <<>>
    BY <2>2, <2>3 DEF AnvilRow
  <2>. QED
    BY <1>5, <2>1, <2>4 DEF AnvilInv
<1>. HIDE DEF i, a, j
<1>8. /\ anvils' \in [Ids -> AnvilRow] /\ anvils'[process'] = a
      /\ \A k \in Ids \ {process'} : anvils'[k] = Gone
  BY <1>1, <1>2, <1>3, <1>7, JobFacts
<1>9. ReportInv(report)'
  BY ReportKept DEF Start
<1>. QED
  BY <1>2, <1>3, <1>5, <1>6, <1>7, <1>8, <1>9, JobFacts, StepFrame DEF Start

\* The first steps of a running scan leave its anvil alone.
LEMMA GotoStep ==
  ASSUME OneWorker, IInv, NEW w \in Workers, job[w].pc \in {"boot", "verify"},
         NEW pc \in {"verify", "outer", "attempt"}, Goto(w, pc),
         UNCHANGED <<token, anvils, process, url, report, jobs, faults>>
  PROVE  IInv'
<1>. DEFINE j == [job[w] EXCEPT !.pc = pc]
<1>1. job[w] \in JobRow /\ JobInv(job[w])
  BY JobFacts
<1>2. j \in JobRow /\ j.pc = pc /\ job' = [job EXCEPT ![w] = j]
  BY <1>1 DEF JobRow, Goto
<1>3. JobInv(j)
  BY <1>1 DEF JobInv, MatrixInv, JobRow
<1>4. job[w].pc \in Up /\ pc \in Up
  BY DEF Up
<1>5. anvils[process] # Gone => AnvilInv(j, anvils[process])
  BY <1>1, <1>4, NoAnvilStep DEF AnvilInv, JobRow
<1>. HIDE DEF j
<1>. QED
  BY <1>2, <1>3, <1>4, <1>5, NoAnvilStep, JobFacts, UpStep

\* Every error leaves the attempts.
LEMMA RaiseStep ==
  ASSUME OneWorker, IInv, NEW w \in Workers, job[w].pc \in Up,
         NEW pc \in {"close", "kill"}, NEW exc \in {"unavailable", "error"}, Raise(w, exc, pc),
         UNCHANGED <<token, anvils, process, url, report, jobs>>, Fault \/ UNCHANGED faults
  PROVE  IInv'
BY LeaveStep, FaultType DEF Raise

LEMMA RpcErrorType == RpcError # "none" => RpcError \in {"unavailable", "error"}
BY DEF RpcError

LEMMA LeaveType == \A w : Leave(w) \in {"close", "kill"}
BY DEF Leave

LEMMA BootStep ==
  ASSUME OneWorker, IInv, NEW w \in Workers, Boot(w) \/ BootTimeout(w)
  PROVE  IInv'
<1>1. job[w].pc \in Up /\ job[w].pc \in {"boot", "verify"}
  BY DEF Boot, BootTimeout, Up
<1>2. \/ \E exc \in {"unavailable", "error"} : Raise(w, exc, "kill")
      \/ Goto(w, "verify") /\ UNCHANGED faults
  BY DEF Boot, BootTimeout
<1>3. UNCHANGED <<token, anvils, process, url, report, jobs, faults>>
  BY DEF Boot, BootTimeout
<1>. QED
  BY <1>1, <1>2, <1>3, RaiseStep, GotoStep

LEMMA VerifyStep ==
  ASSUME OneWorker, IInv, NEW w \in Workers, Verify(w) \/ Mismatch(w)
  PROVE  IInv'
<1>1. job[w].pc \in Up /\ job[w].pc \in {"boot", "verify"}
  BY DEF Verify, Mismatch, Up
<1>2. \/ \E exc \in {"unavailable", "error"} : Raise(w, exc, "kill")
      \/ (\E pc \in {"verify", "outer", "attempt"} : Goto(w, pc)) /\ UNCHANGED faults
  BY RpcErrorType DEF Verify, Mismatch
<1>3. UNCHANGED <<token, anvils, process, url, report, jobs>> /\ (Fault \/ UNCHANGED faults)
  BY DEF Verify, Mismatch
<1>. QED
  BY <1>1, <1>2, <1>3, RaiseStep, GotoStep

-----------------------------------------------------------------------------
(* The verdict of a matrix *)

\* A tax of 20, 60 or 96 per cent of one of the sizes sold is a whole number.
LEMMA TaxExact ==
  ASSUME NEW t, NEW m \in SellModes,
         SellTax(SellAmount(Bought(t), m), Received(t, SellAmount(Bought(t), m))) # None
  PROVE  SellTax(SellAmount(Bought(t), m), Received(t, SellAmount(Bought(t), m)))
           = 100 * TaxPercent(t, SellAmount(Bought(t), m))
<1>. DEFINE n == SellAmount(Bought(t), m)
            p == TaxPercent(t, n)
<1>1. n \in Nat
  BY BoughtFacts, SellAmountType
<1>2. p \in {0, 20, 60, 96} /\ (p # 0 => t # "dust")
  BY DEF TaxPercent
<1>3. t # "dust" => n \in {100, 250, 500, 1000}
  <2>1. Fraction[m] \in {10000, 1000, 2500, 5000}
    BY DEF SellModes, Fraction
  <2>2. t # "dust" => n = (1000 * Fraction[m]) \div 10000
    BY DEF Bought, SellAmount, Bps
  <2>. HIDE DEF n
  <2>. QED
    BY <2>1, <2>2
<1>4. Received(t, n) = n - (n * p) \div 100
  BY DEF Received
<1>5. SellTax(n, Received(t, n)) # None
  OBVIOUS
<1>. HIDE DEF n, p
<1>6. /\ n > 0 /\ SellTax(n, Received(t, n)) = Round((n - Received(t, n)) * 10000, n)
  BY <1>1, <1>5 DEF SellTax, Bps
<1>7. CASE p = 0
  <2>1. (n * 0) \div 100 = 0 /\ 0 \div n = 0 /\ 0 % n = 0
    BY <1>1, <1>6
  <2>2. Received(t, n) = n
    BY <1>1, <1>4, <1>7, <2>1
  <2>3. (n - n) * 10000 = 0
    BY <1>1
  <2>4. Round(0, n) = 0
    BY <1>1, <1>6, <2>1 DEF Round
  <2>. QED
    BY <1>6, <1>7, <2>2, <2>3, <2>4 DEF n, p
<1>8. CASE p # 0
  <2>1. n \in {100, 250, 500, 1000} /\ p \in {20, 60, 96}
    BY <1>2, <1>3, <1>8
  <2>2. \A a \in {100, 250, 500, 1000}, q \in {20, 60, 96} :
          Round((a - (a - (a * q) \div 100)) * 10000, a) = 100 * q
    BY DEF Round
  <2>3. Round((n - (n - (n * p) \div 100)) * 10000, n) = 100 * p
    BY <2>1, <2>2
  <2>4. Round((n - Received(t, n)) * 10000, n) = 100 * p
    BY <1>4, <2>3
  <2>. QED
    BY <1>6, <2>4 DEF n, p
<1>. QED
  BY <1>7, <1>8

LEMMA TwoMembers ==
  ASSUME NEW T, IsFiniteSet(T), NEW x \in T, NEW y \in T, x # y
  PROVE  Cardinality(T) >= 2
<1>1. IsFiniteSet({x}) /\ Cardinality({x}) = 1
  BY FS_Singleton
<1>2. IsFiniteSet({x} \cup {y}) /\ Cardinality({x} \cup {y}) = 2
  BY <1>1, FS_AddElement
<1>3. {x} \cup {y} \subseteq T
  OBVIOUS
<1>. QED
  BY <1>2, <1>3, FS_Subset, FS_CardinalityType

\* The smallest and the largest sale that DynamicTax compares.
LEMMA Extremes ==
  ASSUME NEW T, NEW x \in T, NEW y \in T, \A a \in T : a.mode \in SellModes,
         x.mode = "micro_sell", y.mode = "baseline"
  PROVE  /\ \E a \in T : \A b \in T : Fraction[a.mode] <= Fraction[b.mode]
         /\ \E a \in T : \A b \in T : Fraction[a.mode] >= Fraction[b.mode]
         /\ \A a \in T : (\A b \in T : Fraction[a.mode] <= Fraction[b.mode]) => a.mode = "micro_sell"
         /\ \A a \in T : (\A b \in T : Fraction[a.mode] >= Fraction[b.mode]) => a.mode \in {"baseline", "sell_all"}
<1>1. \A m \in SellModes : Fraction[m] \in 1000..10000
  BY DEF SellModes, Fraction
<1>2. Fraction["micro_sell"] = 1000 /\ Fraction["baseline"] = 10000
  BY DEF Fraction
<1>3. \A m \in SellModes : /\ Fraction[m] <= 1000 => m = "micro_sell"
                           /\ Fraction[m] >= 10000 => m \in {"baseline", "sell_all"}
  BY DEF SellModes, Fraction
<1>4. \A b \in T : Fraction[x.mode] <= Fraction[b.mode] /\ Fraction[y.mode] >= Fraction[b.mode]
  <2>. SUFFICES ASSUME NEW b \in T
                PROVE  Fraction[x.mode] <= Fraction[b.mode] /\ Fraction[y.mode] >= Fraction[b.mode]
    OBVIOUS
  <2>1. Fraction[b.mode] \in 1000..10000
    BY <1>1
  <2>2. Fraction[x.mode] = 1000 /\ Fraction[y.mode] = 10000
    <3>1. Fraction[x.mode] = Fraction["micro_sell"] /\ Fraction[y.mode] = Fraction["baseline"]
      BY Zenon
    <3>2. \A u, v : u = Fraction["micro_sell"] /\ v = Fraction["baseline"] => u = 1000 /\ v = 10000
      BY <1>2
    <3>. QED
      BY <3>1, <3>2, SMT
  <2>. DEFINE f == Fraction[b.mode]
              l == Fraction[x.mode]
              h == Fraction[y.mode]
  <2>3. f \in 1000..10000 /\ l = 1000 /\ h = 10000
    BY <2>1, <2>2
  <2>. HIDE DEF f, l, h
  <2>4. l <= f /\ h >= f
    BY <2>3
  <2>. QED
    BY <2>4 DEF f, l, h
<1>5. ASSUME NEW a \in T, \A b \in T : Fraction[a.mode] <= Fraction[b.mode]
      PROVE  a.mode = "micro_sell"
  <2>1. Fraction[a.mode] <= Fraction[x.mode] /\ a.mode \in SellModes
    BY <1>5
  <2>. QED
    BY <1>2, <1>3, <2>1
<1>6. ASSUME NEW a \in T, \A b \in T : Fraction[a.mode] >= Fraction[b.mode]
      PROVE  a.mode \in {"baseline", "sell_all"}
  <2>1. Fraction[a.mode] >= Fraction[y.mode] /\ a.mode \in SellModes
    BY <1>6
  <2>. QED
    BY <1>2, <1>3, <2>1
<1>. QED
  BY <1>4, <1>5, <1>6

\* Only a token that taxes large sales has two taxes.
LEMMA Rising ==
  ASSUME NEW t, NEW m \in SellModes, NEW k \in SellModes,
         TaxPercent(t, SellAmount(Bought(t), m)) # TaxPercent(t, SellAmount(Bought(t), k))
  PROVE  /\ TaxPercent(t, SellAmount(Bought(t), "micro_sell")) = 0
         /\ TaxPercent(t, SellAmount(Bought(t), "baseline")) = 20
         /\ TaxPercent(t, SellAmount(Bought(t), "sell_all")) = 20
<1>1. t = "rising"
  BY DEF TaxPercent
<1>2. /\ SellAmount(Bought(t), "micro_sell") = 100 /\ SellAmount(Bought(t), "baseline") = 1000
      /\ SellAmount(Bought(t), "sell_all") = 1000 /\ Bought(t) = 1000
  BY <1>1 DEF SellAmount, Bought, Fraction, Bps
<1>. QED
  BY <1>1, <1>2 DEF TaxPercent

LEMMA TaxSignalsFacts ==
  ASSUME NEW results, Taxed(results) = Sales(results)
  PROVE  /\ (\E s \in TaxSignals(results) : s.severity = "critical") <=>
              \E r \in Sales(results) : r.tax >= 5000 /\ r.tax >= 9500
         /\ (\E s \in TaxSignals(results) : s.severity = "high") <=>
              \E r \in Sales(results) : r.tax >= 5000 /\ ~(r.tax >= 9500)
<1>. DEFINE sig(r) == [id |-> "tax", severity |-> IF r.tax >= 9500 THEN "critical" ELSE "high"]
<1>1. \A s : s \in TaxSignals(results) <=> \E r \in Sales(results) : r.tax >= 5000 /\ s = sig(r)
  BY DEF TaxSignals
<1>2. \A r : /\ sig(r).severity = "critical" <=> r.tax >= 9500
             /\ sig(r).severity = "high" <=> ~(r.tax >= 9500)
  OBVIOUS
<1>. HIDE DEF sig
<1>. QED
  BY <1>1, <1>2

LEMMA DeservedVerdict ==
  ASSUME NEW results \in Seq(Result), \A k \in DOMAIN results : Proven(results[k]),
         \A m \in SellModes : \E k \in DOMAIN results : results[k].mode = m,
         \A r \in Sales(results) : r.class = "sell_blocked" \/ r.tax # None
  PROVE  TradeVerdict(MatrixStatus(results), HardSignals(results)) = Deserved(token)
<1>. DEFINE t == token
            N(m) == SellAmount(Bought(t), m)
            S == Sales(results)
            T == Taxed(results)
            signals == HardSignals(results)
<1>1. /\ \A r \in S : r.mode \in SellModes /\ Proven(r) /\ r.tax \in {None} \cup 0..Bps /\ r \in ToSet(results)
      /\ \A m \in SellModes : \E r \in S : r.mode = m
      /\ IsFiniteSet(ToSet(results)) /\ S \subseteq ToSet(results)
  <2>1. ToSet(results) = {results[k] : k \in DOMAIN results}
    BY DEF ToSet
  <2>2. \A k \in DOMAIN results : results[k] \in Result
    BY ElementOfSeq, LenProperties
  <2>3. IsFiniteSet(ToSet(results))
    <3>1. DOMAIN results = 1..Len(results) /\ Len(results) \in Nat
      BY LenProperties
    <3>2. IsFiniteSet(DOMAIN results)
      BY <3>1, FS_Interval
    <3>3. results \in Surjection(DOMAIN results, ToSet(results))
      BY <2>1, <3>1 DEF Surjection
    <3>. QED
      BY <3>2, <3>3, FS_Surjection
  <2>. QED
    BY <2>1, <2>2, <2>3 DEF Sales, Result
<1>2. \A m \in SellModes : N(m) \in Nat /\ TaxPercent(t, N(m)) \in {0, 20, 60, 96}
  BY BoughtFacts, SellAmountType DEF TaxPercent
<1>3. \A r \in S : r.tax # None =>
        ~Restricts(t, Own(t), "sell", N(r.mode)) /\ r.tax = 100 * TaxPercent(t, N(r.mode))
  BY <1>1, TaxExact DEF Proven
<1>4. CASE \E m \in SellModes : Restricts(t, Own(t), "sell", N(m))
  <2>1. PICK r \in S : Restricts(t, Own(t), "sell", N(r.mode))
    BY <1>1, <1>4
  <2>2. r.class = "sell_blocked"
    BY <1>3, <2>1
  <2>3. [id |-> "honeypot", severity |-> "critical"] \in signals
    BY <2>1, <2>2 DEF HardSignals, HoneypotSignals, Sold
  <2>4. TradeVerdict(MatrixStatus(results), signals) = "HONEYPOT_DETECTED"
    BY <2>3 DEF TradeVerdict
  <2>5. Deserved(t) = "HONEYPOT_DETECTED"
    BY <1>4 DEF Deserved
  <2>. QED
    BY <2>4, <2>5
<1>5. CASE \A m \in SellModes : ~Restricts(t, Own(t), "sell", N(m))
  <2>1. \A r \in S : r.class # "sell_blocked" /\ r.tax # None /\ r.tax = 100 * TaxPercent(t, N(r.mode))
    BY <1>1, <1>3, <1>5 DEF Proven
  <2>0. \A r \in S : r.tax \in Nat
    BY <1>1, <1>2, <2>1
  <2>2. T = S
    BY <2>1 DEF Taxed
  <2>3. signals = TaxSignals(results) \cup DynamicTax(results)
    <3>1. Sold(results, "sell_blocked") = {}
      BY <2>1 DEF Sold
    <3>. QED
      BY <3>1 DEF HardSignals, HoneypotSignals, ThresholdSignal
  <2>4. \A s \in signals : s.id = "tax" /\ s.severity \in {"critical", "high"}
    BY <2>3 DEF TaxSignals, DynamicTax
  <2>5. (\E s \in signals : s.severity = "critical") <=> \E r \in S : r.tax >= 9500
    <3>1. (\E s \in TaxSignals(results) : s.severity = "critical") <=> \E r \in S : r.tax >= 5000 /\ r.tax >= 9500
      BY <2>2, TaxSignalsFacts
    <3>2. \A s \in DynamicTax(results) : s.severity # "critical"
      BY DEF DynamicTax
    <3>3. \A r \in S : r.tax >= 9500 => r.tax >= 5000
      BY <2>0
    <3>. QED
      BY <2>3, <3>1, <3>2, <3>3
  <2>6. ASSUME ~\E r \in S : r.tax >= 9500
        PROVE  (\E s \in signals : s.severity = "high") <=>
                 \/ \E r \in S : r.tax >= 5000
                 \/ \E r, q \in S : r.tax - q.tax >= 1000
    <3>. DEFINE low  == CHOOSE a \in T : \A b \in T : Fraction[a.mode] <= Fraction[b.mode]
                high == CHOOSE a \in T : \A b \in T : Fraction[a.mode] >= Fraction[b.mode]
                dynamic == Cardinality(T) >= 2 /\ (high.tax - low.tax >= 1000 \/ low.tax - high.tax >= 1000)
    <3>1. DynamicTax(results) = IF dynamic THEN {[id |-> "tax", severity |-> "high"]} ELSE {}
      BY Zenon DEF DynamicTax
    <3>2. low \in S /\ low.mode = "micro_sell" /\ high \in S /\ high.mode \in {"baseline", "sell_all"}
      <4>1. PICK x \in S : x.mode = "micro_sell"
        BY <1>1, ModesFacts
      <4>2. PICK y \in S : y.mode = "baseline"
        BY <1>1, ModesFacts
      <4>3. \A a \in T : a.mode \in SellModes
        BY <1>1, <2>2
      <4>. QED
        <5>1. x \in T /\ y \in T
          BY <2>2
        <5>2. low \in T /\ low.mode = "micro_sell" /\ high \in T /\ high.mode \in {"baseline", "sell_all"}
          <6>. HIDE DEF T
          <6>1. /\ \E a \in T : \A b \in T : Fraction[a.mode] <= Fraction[b.mode]
                /\ \E a \in T : \A b \in T : Fraction[a.mode] >= Fraction[b.mode]
                /\ \A a \in T : (\A b \in T : Fraction[a.mode] <= Fraction[b.mode]) => a.mode = "micro_sell"
                /\ \A a \in T : (\A b \in T : Fraction[a.mode] >= Fraction[b.mode]) => a.mode \in {"baseline", "sell_all"}
            BY <4>1, <4>2, <4>3, <5>1, Extremes
          <6>2. /\ low \in T /\ \A b \in T : Fraction[low.mode] <= Fraction[b.mode]
                /\ high \in T /\ \A b \in T : Fraction[high.mode] >= Fraction[b.mode]
            BY <6>1
          <6>. HIDE DEF low, high
          <6>. QED
            BY <6>1, <6>2
        <5>. QED
          BY <2>2, <5>2
    <3>3. (\E s \in TaxSignals(results) : s.severity = "high") <=> \E r \in S : r.tax >= 5000
      BY <2>2, <2>6, TaxSignalsFacts
    <3>7. /\ dynamic => \E s \in DynamicTax(results) : s.severity = "high"
          /\ ~dynamic => DynamicTax(results) = {}
      <4>1. DynamicTax(results) \in {{[id |-> "tax", severity |-> "high"]}, {}}
        BY <3>1
      <4>2. dynamic => DynamicTax(results) = {[id |-> "tax", severity |-> "high"]}
        BY <3>1, Zenon
      <4>3. ~dynamic => DynamicTax(results) = {}
        BY <3>1, Zenon
      <4>4. [id |-> "tax", severity |-> "high"].severity = "high"
        OBVIOUS
      <4>. HIDE DEF dynamic
      <4>. QED
        BY <4>2, <4>3, <4>4, Zenon
    <3>. HIDE DEF low, high
    <3>4. dynamic => \E r, q \in S : r.tax - q.tax >= 1000
      BY <3>2
    <3>5. (\E r, q \in S : r.tax - q.tax >= 1000) => dynamic
      <4>. SUFFICES ASSUME NEW r \in S, NEW q \in S, r.tax - q.tax >= 1000
                    PROVE  dynamic
        OBVIOUS
      <4>1. TaxPercent(t, N(r.mode)) # TaxPercent(t, N(q.mode))
        BY <1>1, <1>2, <2>1
      <4>2. TaxPercent(t, N("micro_sell")) = 0 /\ TaxPercent(t, N("baseline")) = 20 /\ TaxPercent(t, N("sell_all")) = 20
        BY <1>1, <4>1, Rising
      <4>3. low.tax = 0 /\ high.tax = 2000
        BY <2>1, <3>2, <4>2
      <4>4. Cardinality(T) >= 2
        <5>1. IsFiniteSet(T)
          BY <1>1, <2>2, FS_Subset
        <5>2. low # high
          BY <4>3
        <5>. QED
          BY <2>2, <3>2, <5>1, <5>2, TwoMembers
      <4>. QED
        BY <4>3, <4>4
    <3>. HIDE DEF dynamic
    <3>6. (\E s \in DynamicTax(results) : s.severity = "high") <=> dynamic
      BY <3>7
    <3>. QED
      BY <2>3, <3>3, <3>4, <3>5, <3>6
  <2>7. MatrixStatus(results) # "unknown"
    <3>1. results # <<>>
      <4>1. \E k \in DOMAIN results : results[k].mode = "baseline"
        BY DEF SellModes, Fraction
      <4>2. DOMAIN <<>> = {}
        OBVIOUS
      <4>. QED
        BY <4>1, <4>2
    <3>. QED
      BY <3>1 DEF MatrixStatus
  <2>8. TradeVerdict(MatrixStatus(results), signals) =
          IF \E r \in S : r.tax >= 9500 THEN "CRITICAL_RISK"
          ELSE IF (\E r \in S : r.tax >= 5000) \/ (\E r, q \in S : r.tax - q.tax >= 1000) THEN "HIGH_RISK"
          ELSE "LOW_RISK"
    <3>1. [id |-> "honeypot", severity |-> "critical"] \notin signals
      BY <2>4
    <3>. HIDE DEF signals, S
    <3>. QED
      BY <2>5, <2>6, <2>7, <3>1 DEF TradeVerdict
  <2>9. Deserved(t) =
          IF \E r \in S : r.tax >= 9500 THEN "CRITICAL_RISK"
          ELSE IF (\E r \in S : r.tax >= 5000) \/ (\E r, q \in S : r.tax - q.tax >= 1000) THEN "HIGH_RISK"
          ELSE "LOW_RISK"
    <3>. DEFINE sizes == {SellAmount(Bought(t), m) : m \in SellModes}
                taxes == {100 * TaxPercent(t, n) : n \in sizes}
    <3>1. \A n \in sizes : ~Restricts(t, Own(t), "sell", n)
      BY <1>5
    <3>2. taxes = {r.tax : r \in S}
      BY <1>1, <2>1
    <3>3. Deserved(t) = IF \E n \in sizes : Restricts(t, Own(t), "sell", n) THEN "HONEYPOT_DETECTED"
                        ELSE IF \E x \in taxes : x >= 9500 THEN "CRITICAL_RISK"
                        ELSE IF \E x, y \in taxes : x >= 5000 \/ x - y >= 1000 THEN "HIGH_RISK" ELSE "LOW_RISK"
      BY Zenon DEF Deserved
    <3>. HIDE DEF sizes, taxes, S
    <3>6. \A x : x \in taxes <=> \E r \in S : x = r.tax
      BY <3>2
    <3>4. (\E x \in taxes : x >= 9500) <=> \E r \in S : r.tax >= 9500
      BY <3>2
    <3>5. (\E x, y \in taxes : x >= 5000 \/ x - y >= 1000) <=>
            (\E r \in S : r.tax >= 5000) \/ (\E r, q \in S : r.tax - q.tax >= 1000)
      <4>1. (\E x, y \in taxes : x >= 5000 \/ x - y >= 1000) <=>
              (\E x \in taxes : x >= 5000) \/ (\E x, y \in taxes : x - y >= 1000)
        OBVIOUS
      <4>2. (\E x \in taxes : x >= 5000) <=> \E r \in S : r.tax >= 5000
        BY <3>6
      <4>. DEFINE Above(x, y) == x - y >= 1000
      <4>3. (\E x, y \in taxes : Above(x, y)) <=> \E r, q \in S : Above(r.tax, q.tax)
        <5>. HIDE DEF Above
        <5>1. ASSUME NEW x \in taxes, NEW y \in taxes, Above(x, y)
              PROVE  \E r, q \in S : Above(r.tax, q.tax)
          <6>1. PICK r \in S : x = r.tax
            BY <3>6
          <6>2. PICK q \in S : y = q.tax
            BY <3>6
          <6>. QED
            BY <5>1, <6>1, <6>2, Zenon
        <5>2. ASSUME NEW r \in S, NEW q \in S, Above(r.tax, q.tax)
              PROVE  \E x, y \in taxes : Above(x, y)
          <6>1. r.tax \in taxes /\ q.tax \in taxes
            BY <3>6
          <6>. QED
            BY <5>2, <6>1, Zenon
        <5>. QED
          BY <5>1, <5>2, Zenon
      <4>. QED
        BY <4>1, <4>2, <4>3
    <3>. QED
      BY <3>1, <3>3, <3>4, <3>5
  <2>. QED
    BY <2>8, <2>9
<1>. QED
  BY <1>4, <1>5

-----------------------------------------------------------------------------
(* Snapshots around the attempts *)

LEMMA OuterStep ==
  ASSUME OneWorker, IInv, NEW w \in Workers, Outer(w)
  PROVE  IInv'
<1>0. job[w].pc = "outer" /\ job[w].pc \in Up /\ "attempt" \in Up
  BY DEF Outer, Up
<1>1. CASE RpcError # "none"
  BY <1>0, <1>1, RaiseStep, RpcErrorType DEF Outer
<1>2. CASE RpcError = "none"
  <2>. DEFINE a == Saved(anvils[process])
              j == [job[w] EXCEPT !.pc = "attempt", !.outer = Len(anvils[process].saved) + 1]
  <2>1. Server = process /\ anvils[process] \in AnvilRow /\ AnvilInv(job[w], anvils[process])
    BY <1>0, <1>2, ServerIsOwn
  <2>2. anvils' = [anvils EXCEPT ![process] = a] /\ job' = [job EXCEPT ![w] = j]
    BY <1>2, <2>1 DEF Outer
  <2>3. job[w] \in JobRow /\ JobInv(job[w]) /\ Len(anvils[process].saved) + 1 \in Nat
    BY <2>1, JobFacts, SavedFacts
  <2>4. j \in JobRow /\ j.pc = "attempt" /\ j.anchor = job[w].anchor
    BY <2>3 DEF JobRow
  <2>5. JobInv(j)
    BY <1>0, <2>3 DEF JobInv, MatrixInv, JobRow
  <2>6. a \in AnvilRow /\ AnvilInv(j, a)
    <3>1. anvils[process].chain = <<>>
      BY <1>0, <2>1 DEF AnvilInv
    <3>2. \A k \in DOMAIN a.saved : a.saved[k].chain = <<>>
      BY <2>1, <3>1, SavedClean DEF AnvilInv
    <3>. HIDE DEF j
    <3>. QED
      BY <2>1, <2>4, <3>1, <3>2, SavedFacts DEF AnvilInv
  <2>. HIDE DEF a, j
  <2>. QED
    BY <1>0, <2>2, <2>4, <2>5, <2>6, JobFacts, UpStep DEF Outer
<1>. QED
  BY <1>1, <1>2

LEMMA AttemptRow ==
  ASSUME NEW j \in JobRow, NEW n \in Nat
  PROVE  [j EXCEPT !.pc = "exec", !.step = 1, !.snap = n] \in JobRow
<1>. DEFINE i == [j EXCEPT !.step = 1]
            k == [i EXCEPT !.snap = n]
<1>1. i \in JobRow
  BY DEF JobRow
<1>2. k \in JobRow
  BY <1>1 DEF JobRow
<1>3. [k EXCEPT !.pc = "exec"] \in JobRow
  BY <1>2 DEF JobRow
<1>4. [k EXCEPT !.pc = "exec"] = [j EXCEPT !.pc = "exec", !.step = 1, !.snap = n]
  BY DEF JobRow
<1>. QED
  BY <1>3, <1>4

LEMMA AttemptStep ==
  ASSUME OneWorker, IInv, NEW w \in Workers, Attempt(w)
  PROVE  IInv'
<1>0. job[w].pc = "attempt" /\ job[w].pc \in Up /\ "exec" \in Up
  BY DEF Attempt, Up
<1>1. CASE RpcError # "none"
  BY <1>0, <1>1, RaiseStep, RpcErrorType, LeaveType DEF Attempt
<1>2. CASE RpcError = "none"
  <2>. DEFINE r == Reverted(anvils[process], job[w].outer)
              a == Saved(r)
              j == [job[w] EXCEPT !.pc = "exec", !.step = 1, !.snap = Len(r.saved) + 1]
  <2>1. Server = process /\ anvils[process] \in AnvilRow /\ AnvilInv(job[w], anvils[process])
    BY <1>0, <1>2, ServerIsOwn
  <2>2. anvils' = [anvils EXCEPT ![process] = a] /\ job' = [job EXCEPT ![w] = j]
    BY <1>2, <2>1 DEF Attempt
  <2>3. job[w] \in JobRow /\ JobInv(job[w]) /\ job[w].outer \in Nat
    BY JobFacts DEF JobRow
  <2>4. /\ r \in AnvilRow /\ r.base = job[w].anchor /\ r.chain = <<>>
        /\ \A k \in DOMAIN r.saved : r.saved[k].chain = <<>>
    BY <1>0, <2>1, <2>3, RevertedFacts DEF AnvilInv
  <2>. HIDE DEF r
  <2>5. Len(r.saved) + 1 \in Nat
    BY <2>4, SavedFacts
  <2>6. /\ j \in JobRow /\ j.pc = "exec" /\ j.anchor = job[w].anchor /\ j.step = 1 /\ j.snap = Len(r.saved) + 1
        /\ j.kind = job[w].kind /\ j.at = job[w].at /\ j.results = job[w].results /\ j.exc = job[w].exc
    <3>. DEFINE n == Len(r.saved) + 1
    <3>1. n \in Nat
      BY <2>5
    <3>. HIDE DEF n
    <3>2. [job[w] EXCEPT !.pc = "exec", !.step = 1, !.snap = n] \in JobRow
      BY <2>3, <3>1, AttemptRow
    <3>3. j = [job[w] EXCEPT !.pc = "exec", !.step = 1, !.snap = n]
      BY Zenon DEF n
    <3>. HIDE DEF j
    <3>. QED
      BY <2>3, <3>2, <3>3 DEF n, JobRow
  <2>7. 1 \in DOMAIN Ops(job[w])
    <3>1. job[w].kind \in Kinds /\ job[w].at \in DOMAIN Plan(job[w].kind)
      BY <1>0, <2>3 DEF JobInv
    <3>2. Ops(job[w]) \in Lists
      BY <3>1, PlanFacts DEF Ops
    <3>. QED
      BY <3>2, ListFacts
  <2>8. a \in AnvilRow /\ AnvilInv(j, a)
    <3>1. /\ \A k \in DOMAIN a.saved : a.saved[k].chain = <<>>
          /\ Len(r.saved) + 1 \in DOMAIN a.saved /\ a.saved[Len(r.saved) + 1].live
      BY <2>4, SavedClean
    <3>2. a \in AnvilRow /\ a.base = job[w].anchor /\ a.chain = <<>>
      BY <2>4, SavedFacts
    <3>. HIDE DEF j, a
    <3>. QED
      BY <2>6, <3>1, <3>2 DEF AnvilInv, Clean
  <2>. HIDE DEF a, j
  <2>9. JobInv(j)
    <3>1. ~\E k \in 1..(j.step - 1) : Ops(j)[k] = "buy"
      BY <2>6
    <3>2. Ops(j) = Ops(job[w])
      BY <2>6 DEF Ops
    <3>. QED
      BY <1>0, <2>3, <2>6, <2>7, <3>1, <3>2 DEF JobInv, MatrixInv
  <2>. QED
    BY <1>0, <2>2, <2>6, <2>8, <2>9, JobFacts, UpStep DEF Attempt
<1>. QED
  BY <1>1, <1>2

LEMMA RevertStep ==
  ASSUME OneWorker, IInv, NEW w \in Workers, Revert(w)
  PROVE  IInv'
<1>0. job[w].pc = "revert" /\ job[w].pc \in Up /\ {"attempt", "close", "kill"} \subseteq Up
  BY DEF Revert, Up
<1>1. CASE RpcError # "none"
  BY <1>0, <1>1, RaiseStep, RpcErrorType, LeaveType DEF Revert
<1>2. CASE RpcError = "none"
  <2>. DEFINE next == IF job[w].exc = "none" /\ job[w].at < Len(Plan(job[w].kind)) THEN "attempt" ELSE Leave(w)
              a == Reverted(anvils[process], job[w].snap)
              at == IF next = "attempt" THEN job[w].at + 1 ELSE job[w].at
              j == [job[w] EXCEPT !.pc = next, !.at = at, !.bought = 0]
  <2>1. Server = process /\ anvils[process] \in AnvilRow /\ AnvilInv(job[w], anvils[process])
    BY <1>0, <1>2, ServerIsOwn
  <2>2. anvils' = [anvils EXCEPT ![process] = a] /\ job' = [job EXCEPT ![w] = j]
    BY <1>2, <2>1 DEF Revert, Restore
  <2>3. job[w] \in JobRow /\ JobInv(job[w]) /\ job[w].snap \in Nat
    BY JobFacts DEF JobRow
  <2>4. /\ a \in AnvilRow /\ a.base = job[w].anchor /\ a.chain = <<>>
        /\ \A k \in DOMAIN a.saved : a.saved[k].chain = <<>>
    BY <1>0, <2>1, <2>3, RevertedFacts DEF AnvilInv
  <2>5. next \in {"attempt", "close", "kill"}
    BY LeaveType
  <2>6. at \in DOMAIN Plan(job[w].kind) /\ at \in 1..Len(Modes)
    <3>1. job[w].kind \in Kinds /\ job[w].at \in DOMAIN Plan(job[w].kind)
      BY <1>0, <2>3 DEF JobInv
    <3>2. DOMAIN Plan(job[w].kind) = 1..Len(Plan(job[w].kind)) /\ Len(Plan(job[w].kind)) \in Nat
      BY <3>1, PlanFacts
    <3>3. next = "attempt" => job[w].at < Len(Plan(job[w].kind))
      BY LeaveType
    <3>4. at \in DOMAIN Plan(job[w].kind)
      BY <3>1, <3>2, <3>3
    <3>. HIDE DEF at
    <3>. QED
      BY <3>1, <3>4, PlanFacts
  <2>10. /\ next = "attempt" => at = job[w].at + 1
         /\ next # "attempt" /\ job[w].exc = "none" /\ IsMatrix(job[w].kind) => job[w].at = Len(Modes)
    <3>1. job[w].kind \in Kinds /\ job[w].at \in DOMAIN Plan(job[w].kind)
      BY <1>0, <2>3 DEF JobInv
    <3>2. DOMAIN Plan(job[w].kind) = 1..Len(Plan(job[w].kind)) /\ Len(Plan(job[w].kind)) \in Nat
          /\ (IsMatrix(job[w].kind) => Len(Plan(job[w].kind)) = Len(Modes))
      BY <3>1, PlanFacts
    <3>3. next # "attempt" /\ job[w].exc = "none" => ~(job[w].at < Len(Plan(job[w].kind)))
      OBVIOUS
    <3>. HIDE DEF next
    <3>. QED
      BY <3>1, <3>2, <3>3
  <2>. HIDE DEF next, at, a
  <2>7. /\ j \in JobRow /\ j.pc = next /\ j.anchor = job[w].anchor
        /\ j.kind = job[w].kind /\ j.at = at /\ j.results = job[w].results /\ j.exc = job[w].exc
    BY <2>3, <2>5, <2>6 DEF JobRow
  <2>. HIDE DEF j
  <2>8. JobInv(j)
    <3>1. MatrixInv(j)
      <4>1. Len(job[w].results) \in Nat /\ job[w].at \in Nat
        BY <2>3, LenProperties DEF JobRow
      <4>. QED
        BY <1>0, <2>3, <2>5, <2>7, <2>10, <4>1 DEF JobInv, MatrixInv
    <3>. QED
      BY <1>0, <2>3, <2>5, <2>6, <2>7, <3>1 DEF JobInv
  <2>9. AnvilInv(j, a)
    BY <2>4, <2>5, <2>7 DEF AnvilInv
  <2>. QED
    BY <1>0, <2>2, <2>4, <2>5, <2>7, <2>8, <2>9, JobFacts, UpStep DEF Revert
<1>. QED
  BY <1>1, <1>2

LEMMA CloseStep ==
  ASSUME OneWorker, IInv, NEW w \in Workers, Close(w)
  PROVE  IInv'
<1>0. job[w].pc = "close" /\ job[w].pc \in Up /\ "kill" \in Up
  BY DEF Close, Up
<1>1. CASE RpcError # "none"
  BY <1>0, <1>1, RaiseStep, RpcErrorType DEF Close
<1>2. CASE RpcError = "none"
  <2>. DEFINE a == Reverted(anvils[process], job[w].outer)
              j == [job[w] EXCEPT !.pc = "kill"]
  <2>1. Server = process /\ anvils[process] \in AnvilRow /\ AnvilInv(job[w], anvils[process])
    BY <1>0, <1>2, ServerIsOwn
  <2>2. anvils' = [anvils EXCEPT ![process] = a] /\ job' = [job EXCEPT ![w] = j]
    BY <1>2, <2>1 DEF Close, Goto
  <2>3. job[w] \in JobRow /\ JobInv(job[w]) /\ job[w].outer \in Nat
    BY JobFacts DEF JobRow
  <2>4. /\ a \in AnvilRow /\ a.base = job[w].anchor
        /\ \A k \in DOMAIN a.saved : a.saved[k].chain = <<>>
    BY <2>1, <2>3, RevertedFacts DEF AnvilInv
  <2>. HIDE DEF a
  <2>5. j \in JobRow /\ j.pc = "kill" /\ j.anchor = job[w].anchor
    BY <2>3 DEF JobRow
  <2>6. JobInv(j)
    BY <1>0, <2>3 DEF JobInv, MatrixInv, JobRow
  <2>. HIDE DEF j
  <2>7. AnvilInv(j, a)
    BY <2>4, <2>5 DEF AnvilInv
  <2>. QED
    BY <1>0, <2>2, <2>4, <2>5, <2>6, <2>7, JobFacts, UpStep DEF Close
<1>. QED
  BY <1>1, <1>2

-----------------------------------------------------------------------------
(* The end of a scan *)

LEMMA KillStep ==
  ASSUME OneWorker, IInv, NEW w \in Workers, Kill(w)
  PROVE  IInv'
<1>. DEFINE j == [job[w] EXCEPT !.pc = "clear"]
<1>1. job[w].pc = "kill" /\ job[w].pc \in Up
  BY DEF Kill, Up
<1>2. job[w] \in JobRow /\ JobInv(job[w])
  BY JobFacts
<1>3. j \in JobRow /\ j.pc = "clear" /\ job' = [job EXCEPT ![w] = j]
  BY <1>2 DEF JobRow, Kill, Goto
<1>4. JobInv(j)
  BY <1>1, <1>2 DEF JobInv, MatrixInv, JobRow
<1>5. \A i \in Ids : anvils'[i] = Gone
  BY <1>1 DEF Kill, Stopped, IInv, UpInv, Ids
<1>6. anvils' \in [Ids -> AnvilRow]
  BY <1>5, GoneFacts DEF Kill
<1>7. ReportInv(report)'
  BY ReportKept DEF Kill
<1>. HIDE DEF j
<1>. QED
  BY <1>3, <1>4, <1>5, <1>6, <1>7, JobFacts, StepFrame DEF Kill, Up

LEMMA VerdictType ==
  /\ \A a, s : TradeVerdict(a, s) \in {"HONEYPOT_DETECTED", "CRITICAL_RISK", "HIGH_RISK", "UNVERIFIED", "LOW_RISK"}
  /\ \A a : MatrixStatus(a) \in {"unknown", "partial", "complete"}
BY DEF TradeVerdict, MatrixStatus

\* A matrix that raised nothing has a sale of every size; its verdict is the one deserved.
LEMMA VerdictFacts ==
  ASSUME NEW j \in JobRow, JobInv(j), j.pc = "clear", Verdict(j) # "none",
         \A x \in Sales(j.results) : x.class = "sell_blocked" \/ x.tax # None
  PROVE  j.exc = "none" /\ Verdict(j) = Deserved(token)
<1>1. /\ IsMatrix(j.kind) /\ j.exc = "none"
      /\ Verdict(j) = TradeVerdict(MatrixStatus(j.results), HardSignals(j.results))
  BY DEF Verdict
<1>2. j.results \in Seq(Result) /\ \A k \in DOMAIN j.results : Proven(j.results[k])
  BY DEF JobRow, JobInv
<1>3. Len(j.results) = 6 /\ \A k \in DOMAIN j.results : j.results[k].mode = Modes[k]
  BY <1>1, ModesFacts DEF JobInv, MatrixInv
<1>4. \A m \in SellModes : \E k \in 1..6 : Modes[k] = m
  <2>1. /\ Modes[1] = "baseline" /\ Modes[2] = "micro_sell" /\ Modes[3] = "small_sell"
        /\ Modes[4] = "partial_sell" /\ Modes[5] = "sell_all"
    BY DEF Modes
  <2>2. 1 \in 1..6 /\ 2 \in 1..6 /\ 3 \in 1..6 /\ 4 \in 1..6 /\ 5 \in 1..6
    OBVIOUS
  <2>. QED
    BY <2>1, <2>2, ModesFacts
<1>5. \A m \in SellModes : \E k \in DOMAIN j.results : j.results[k].mode = m
  <2>1. DOMAIN j.results = 1..6
    BY <1>2, <1>3, LenProperties
  <2>. QED
    BY <1>3, <1>4, <2>1
<1>. QED
  BY <1>1, <1>2, <1>5, DeservedVerdict

LEMMA ClearStep ==
  ASSUME OneWorker, IInv, NEW w \in Workers, Clear(w)
  PROVE  IInv'
<1>1. job[w] \in JobRow /\ JobInv(job[w]) /\ job[w].pc = "clear"
  BY JobFacts DEF Clear
<1>2. job' = [job EXCEPT ![w] = Idle] /\ process' = 0 /\ ~url' /\ url' = FALSE
  BY DEF Clear
<1>3. ReportInv(report)'
  <2>. DEFINE j == job[w]
              results == IF j.exc = "none" THEN j.results ELSE <<>>
  <2>1. report' = [kind |-> j.kind, status |-> Status(j), verdict |-> Verdict(j), results |-> results]
    BY DEF Clear
  <2>2. <<>> \in Seq(Result) /\ DOMAIN <<>> = {}
    OBVIOUS
  <2>3. results \in Seq(Result) /\ \A k \in DOMAIN results : Proven(results[k])
    BY <1>1, <2>2 DEF JobRow, JobInv
  <2>4. Status(j) \in {"none", "unknown", "failed", "partial", "complete"}
    BY <1>1, VerdictType DEF Status
  <2>5. Verdict(j) \in {"none", "HONEYPOT_DETECTED", "CRITICAL_RISK", "HIGH_RISK", "UNVERIFIED", "LOW_RISK"}
    BY VerdictType DEF Verdict
  <2>9. Verdict(j) # "none" /\ (\A x \in Sales(results) : x.class = "sell_blocked" \/ x.tax # None)
          => Verdict(j) = Deserved(token)
    <3>. SUFFICES ASSUME Verdict(j) # "none", \A x \in Sales(results) : x.class = "sell_blocked" \/ x.tax # None
                  PROVE  Verdict(j) = Deserved(token)
      OBVIOUS
    <3>1. j.exc = "none"
      BY DEF Verdict
    <3>2. results = j.results
      BY <3>1
    <3>. HIDE DEF j, results
    <3>. QED
      BY <1>1, <3>2, VerdictFacts DEF j
  <2>6. j.kind \in Kinds \cup {"none"}
    BY <1>1 DEF JobRow
  <2>7. token' = token
    BY DEF Clear
  <2>. HIDE DEF j, results
  <2>. DEFINE r == [kind |-> j.kind, status |-> Status(j), verdict |-> Verdict(j), results |-> results]
  <2>8. r \in ReportRow /\ r.results = results /\ r.verdict = Verdict(j)
    BY <2>3, <2>4, <2>5, <2>6 DEF ReportRow
  <2>10. report' = r
    BY <2>1
  <2>. HIDE DEF r
  <2>11. ReportInv(r)
    BY <2>3, <2>8, <2>9 DEF ReportInv, Judged
  <2>. QED
    BY <2>7, <2>10, <2>11, KeptToken
<1>4. \A i \in Ids : anvils[i] = Gone
  BY <1>1 DEF IInv, RestInv, OneWorker
<1>. QED
  BY <1>2, <1>3, <1>4, IdleFacts, JobFacts, StepFrame DEF Clear, Up

-----------------------------------------------------------------------------
(* A transaction of an attempt *)

\* A revert with the words of a restriction comes from the token's own rule, and what it
\* restricts after trades without a sale, it restricts after the attempt's own; a sale
\* that passes is not restricted.
LEMMA RefusalFacts ==
  ASSUME NEW t, NEW chain, NEW op, NEW amount,
         "token" \in Refusal(t, chain, op, amount), "router" \notin Refusal(t, chain, op, amount)
  PROVE  Restricts(t, chain, op, amount)
BY DEF Refusal

LEMMA NoRefusal ==
  ASSUME NEW t, NEW chain, NEW op, NEW amount, Refusal(t, chain, op, amount) = {}
  PROVE  ~Restricts(t, chain, op, amount)
BY DEF Refusal

LEMMA RestrictsOwn ==
  ASSUME NEW t, NEW chain, NEW amount, Clean(chain)
  PROVE  Restricts(t, chain, "sell", amount) <=> Restricts(t, Own(t), "sell", amount)
<1>1. ~\E i \in DOMAIN chain : chain[i].op = "sell"
  BY DEF Clean
<1>2. ~\E i \in DOMAIN Own(t) : Own(t)[i].op = "sell"
  BY DEF Own
<1>. QED
  BY <1>1, <1>2 DEF Restricts

Classes == {"success", "reverted", "unknown", "buy_failed", "approve_failed", "sell_succeeded",
            "sell_blocked", "transfer_succeeded", "transfer_blocked"}

LEMMA ClassFacts ==
  ASSUME NEW kind, NEW op, NEW o, o.status \in {"success", "reverted", "unknown"}
  PROVE  /\ Class(kind, op, o) \in Classes
         /\ Class(kind, op, o) = "sell_blocked" =>
              kind # "scenarios" /\ op = "sell" /\ o.status = "reverted" /\ "token" \in o.text /\ "router" \notin o.text
<1>1. \A cause : /\ SellClass(o.status, cause) \in {"sell_succeeded", "sell_blocked", "unknown"}
                 /\ TransferClass(o.status, cause) \in {"transfer_succeeded", "transfer_blocked", "unknown"}
  BY DEF SellClass, TransferClass
<1>2. SellClass(o.status, Cause(o.status, o.text)) = "sell_blocked" =>
        o.status = "reverted" /\ "token" \in o.text /\ "router" \notin o.text
  <2>1. \A status, text : Cause(status, text) = "token_restriction" => "token" \in text /\ "router" \notin text
    BY DEF Cause
  <2>2. \A status, cause : SellClass(status, cause) = "sell_blocked" => status = "reverted" /\ cause = "token_restriction"
    BY DEF SellClass
  <2>. QED
    BY <2>1, <2>2
<1>. QED
  BY <1>1, <1>2 DEF Class, Classes

LEMMA ReceivedType ==
  ASSUME NEW t, NEW amount \in Nat
  PROVE  Received(t, amount) \in Int
<1>1. TaxPercent(t, amount) \in {60, 96, 20, 0}
  BY DEF TaxPercent
<1>2. amount * TaxPercent(t, amount) \in Nat
  BY <1>1
<1>3. (amount * TaxPercent(t, amount)) \div 100 \in Nat
  BY <1>2, Quotient
<1>. QED
  BY <1>3 DEF Received

\* What is known of an outcome: its status, and that a transaction that was carried out
\* had an anvil.
LEMMA OutcomeFacts ==
  ASSUME NEW refusal, NEW o \in Outcomes(refusal) \cup Faulty(refusal)
  PROVE  /\ o.status \in {"success", "reverted", "unknown"} /\ o.done \in BOOLEAN
         /\ "token" \in o.text => o.text = refusal
         /\ o.status = "success" => refusal = {}
<1>1. \A s, t, d, e : LET x == Outcome(s, t, d, e) IN x.status = s /\ x.text = t /\ x.done = d
  BY DEF Outcome
<1>2. \E s \in {"success", "reverted", "unknown"}, t \in {refusal, {}}, d \in BOOLEAN, e \in BOOLEAN :
        o = Outcome(s, t, d, e) /\ (s = "success" => refusal = {})
  <2>1. CASE o \in Outcomes(refusal)
    BY <2>1 DEF Outcomes
  <2>2. CASE o \in Faulty(refusal)
    BY <2>2 DEF Faulty
  <2>. QED
    BY <2>1, <2>2
<1>. QED
  BY <1>1, <1>2

LEMMA AppendTrade ==
  ASSUME NEW a \in AnvilRow, NEW op \in {"pre_approve", "buy", "approve", "sell", "transfer"}, NEW amount \in Nat
  PROVE  LET b == [a EXCEPT !.chain = Append(@, [op |-> op, amount |-> amount])] IN
         /\ b \in AnvilRow /\ b.base = a.base /\ b.saved = a.saved /\ b.st = a.st
         /\ Clean(a.chain) /\ op # "sell" => Clean(b.chain)
<1>. DEFINE e == [op |-> op, amount |-> amount]
            chain == Append(a.chain, e)
            b == [a EXCEPT !.chain = chain]
<1>1. a.chain \in Seq(Traded) /\ e \in Traded
  BY DEF AnvilRow, Traded
<1>2. e.op = op
  OBVIOUS
<1>. HIDE DEF e
<1>3. /\ chain \in Seq(Traded) /\ DOMAIN chain = 1..(Len(a.chain) + 1) /\ Len(a.chain) \in Nat
      /\ DOMAIN a.chain = 1..Len(a.chain) /\ chain[Len(a.chain) + 1] = e
      /\ \A k \in 1..Len(a.chain) : chain[k] = a.chain[k]
  BY <1>1, AppendProperties, LenProperties
<1>. HIDE DEF chain
<1>4. b \in AnvilRow /\ b.base = a.base /\ b.saved = a.saved /\ b.st = a.st /\ b.chain = chain
  BY <1>3 DEF AnvilRow
<1>5. Clean(a.chain) /\ op # "sell" => Clean(chain)
  <2>1. \A k \in DOMAIN chain : k \in 1..Len(a.chain) \/ k = Len(a.chain) + 1
    BY <1>3
  <2>. QED
    BY <1>2, <1>3, <2>1 DEF Clean
<1>. QED
  BY <1>4, <1>5 DEF chain, e

\* The attempt at work, its transactions and its place among them.
LEMMA AtWork ==
  ASSUME IInv, NEW w \in Workers, job[w].pc = "exec"
  PROVE  /\ job[w].kind \in Kinds /\ job[w].at \in DOMAIN Plan(job[w].kind)
         /\ Plan(job[w].kind)[job[w].at].mode \in SellModes \cup {"transfer_only"}
         /\ Ops(job[w]) \in Lists /\ (IsMatrix(job[w].kind) => Ops(job[w]) \in MatrixLists)
         /\ ~IsMatrix(job[w].kind) => Plan(job[w].kind)[job[w].at].mode = "baseline"
         /\ IsMatrix(job[w].kind) => Plan(job[w].kind)[job[w].at].mode = Modes[job[w].at]
         /\ DOMAIN Ops(job[w]) = 1..Len(Ops(job[w])) /\ Len(Ops(job[w])) \in 1..4
         /\ job[w].step \in 1..Len(Ops(job[w]))
         /\ Ops(job[w])[job[w].step] \in {"pre_approve", "buy", "approve", "sell", "transfer"}
         /\ Ops(job[w])[job[w].step] = "sell" =>
              /\ job[w].step = Len(Ops(job[w])) /\ Plan(job[w].kind)[job[w].at].mode \in SellModes
              /\ IsMatrix(job[w].kind) => job[w].bought = Bought(token)
<1>1. job[w].kind \in Kinds /\ job[w].at \in DOMAIN Plan(job[w].kind) /\ job[w].step \in DOMAIN Ops(job[w])
  BY JobFacts DEF JobInv
<1>2. /\ Plan(job[w].kind)[job[w].at].mode \in SellModes \cup {"transfer_only"}
      /\ Ops(job[w]) \in Lists /\ (IsMatrix(job[w].kind) => Ops(job[w]) \in MatrixLists)
      /\ ~IsMatrix(job[w].kind) => Plan(job[w].kind)[job[w].at].mode = "baseline"
      /\ IsMatrix(job[w].kind) => Plan(job[w].kind)[job[w].at].mode = Modes[job[w].at]
      /\ Plan(job[w].kind)[job[w].at].mode = "transfer_only" => \A l \in DOMAIN Ops(job[w]) : Ops(job[w])[l] # "sell"
  BY <1>1, PlanFacts DEF Ops
<1>3. /\ DOMAIN Ops(job[w]) = 1..Len(Ops(job[w])) /\ Len(Ops(job[w])) \in 1..4
      /\ Ops(job[w])[job[w].step] \in {"pre_approve", "buy", "approve", "sell", "transfer"}
      /\ Ops(job[w])[job[w].step] = "sell" => job[w].step = Len(Ops(job[w]))
  BY <1>1, <1>2, ListFacts
<1>4. Ops(job[w])[job[w].step] = "sell" /\ IsMatrix(job[w].kind) => job[w].bought = Bought(token)
  <2>. SUFFICES ASSUME Ops(job[w])[job[w].step] = "sell", IsMatrix(job[w].kind)
                PROVE  job[w].bought = Bought(token)
    OBVIOUS
  <2>1. \E l \in 1..(job[w].step - 1) : Ops(job[w])[l] = "buy"
    BY <1>1, <1>2, ListFacts
  <2>. QED
    BY <2>1, JobFacts DEF JobInv
<1>. QED
  BY <1>1, <1>2, <1>3, <1>4

LEMMA ConcludeStep ==
  ASSUME OneWorker, IInv, NEW w \in Workers, job[w].pc = "exec", NEW amount \in Nat, NEW o,
         o.status \in {"success", "reverted", "unknown"}, o.done \in BOOLEAN,
         Ops(job[w])[job[w].step] = "buy" => amount = Bought(token),
         Ops(job[w])[job[w].step] = "sell" /\ o.status = "reverted" /\ "token" \in o.text /\ "router" \notin o.text =>
           Restricts(token, Own(token), "sell", SellAmount(Bought(token), Plan(job[w].kind)[job[w].at].mode)),
         Ops(job[w])[job[w].step] = "sell" =>
           amount = SellAmount(Bought(token), Plan(job[w].kind)[job[w].at].mode),
         Ops(job[w])[job[w].step] = "sell" /\ o.status = "success" => ~Restricts(token, Own(token), "sell", amount),
         o.done => RpcError = "none",
         Conclude(w, Plan(job[w].kind)[job[w].at], Ops(job[w])[job[w].step], amount, o),
         UNCHANGED <<token, process, url, report, jobs>>, faults' \in 0..MaxFaults
  PROVE  IInv'
<1>. DEFINE j == job[w]
            act == Plan(j.kind)[j.at]
            op == Ops(j)[j.step]
            more == o.status = "success" /\ j.step < Len(act.ops) /\ (o.seen \/ ~IsMatrix(j.kind) \/ op # "buy")
            tax == IF o.status = "success" /\ op = "sell" /\ o.seen THEN SellTax(amount, Received(token, amount)) ELSE None
            ended == [mode |-> act.mode, class |-> Class(j.kind, op, o), tax |-> tax]
            bought == IF op = "buy" THEN amount ELSE j.bought
            goes == [j EXCEPT !.step = j.step + 1, !.bought = bought]
            ends == [j EXCEPT !.pc = "revert", !.results = Append(j.results, ended)]
            old == anvils[process]
            sold == [old EXCEPT !.chain = Append(@, [op |-> op, amount |-> amount])]
            a == IF o.done THEN sold ELSE old
<1>0. j \in JobRow /\ JobInv(j) /\ j.pc = "exec" /\ j.pc \in Up /\ "revert" \in Up
  BY JobFacts DEF Up
<1>1. /\ act.mode \in SellModes \cup {"transfer_only"} /\ DOMAIN Ops(j) = 1..Len(Ops(j)) /\ Len(Ops(j)) \in 1..4
      /\ op \in {"pre_approve", "buy", "approve", "sell", "transfer"} /\ (op = "sell" => j.step = Len(Ops(j)))
      /\ j.step \in 1..Len(Ops(j)) /\ act.ops = Ops(j)
  BY AtWork DEF Ops
<1>2. old \in AnvilRow /\ (old # Gone => AnvilInv(j, old)) /\ (o.done => old # Gone /\ Server = process)
  BY <1>0, JobFacts, ServerIsOwn DEF IInv, UpInv
<1>3. anvils' = [anvils EXCEPT ![process] = a] /\ job' = [job EXCEPT ![w] = IF more THEN goes ELSE ends]
  <2>1. anvils = [anvils EXCEPT ![process] = anvils[process]]
    BY JobFacts
  <2>2. anvils' = [anvils EXCEPT ![process] = a]
    BY <1>2, <2>1 DEF Conclude
  <2>3. job' = [job EXCEPT ![w] = IF more THEN goes ELSE ends]
    BY Zenon DEF Conclude
  <2>. QED
    BY <2>2, <2>3
<1>4. /\ a \in AnvilRow /\ (a # Gone => old # Gone /\ a.base = old.base /\ a.saved = old.saved)
      /\ Clean(old.chain) /\ op # "sell" => Clean(a.chain)
  <2>1. CASE o.done
    <3>. DEFINE x == [old EXCEPT !.chain = Append(@, [op |-> op, amount |-> amount])]
    <3>1. x \in AnvilRow /\ x.base = old.base /\ x.saved = old.saved /\ (Clean(old.chain) /\ op # "sell" => Clean(x.chain))
      <4>. HIDE DEF old, op
      <4>. QED
        BY <1>1, <1>2, AppendTrade
    <3>2. a = x
      BY <2>1
    <3>. HIDE DEF a, x, old, op
    <3>. QED
      BY <1>2, <2>1, <3>1, <3>2
  <2>2. CASE ~o.done
    BY <1>2, <2>2
  <2>. QED
    BY <2>1, <2>2
<1>. HIDE DEF a
<1>5. CASE more
  <2>1. j.step + 1 \in 1..Len(Ops(j)) /\ op # "sell" /\ j.step + 1 \in 1..4 /\ j.step \in Nat /\ j.step + 1 # 1
    <3>1. j.step < Len(Ops(j))
      BY <1>1, <1>5
    <3>. DEFINE n == j.step
                l == Len(Ops(j))
    <3>2. n \in 1..l /\ l \in 1..4 /\ n < l /\ (op = "sell" => n = l)
      BY <1>1, <3>1
    <3>. HIDE DEF j, op, n, l
    <3>3. n + 1 \in 1..l /\ op # "sell" /\ n + 1 \in 1..4 /\ n \in Nat /\ n + 1 # 1
      BY <3>2
    <3>. QED
      BY <3>3 DEF n, l
  <2>2. bought \in Nat
    BY <1>0 DEF JobRow
  <2>3. /\ goes \in JobRow /\ goes.pc = "exec" /\ goes.step = j.step + 1 /\ goes.bought = bought
        /\ goes.kind = j.kind /\ goes.at = j.at /\ goes.results = j.results /\ goes.snap = j.snap
        /\ goes.anchor = j.anchor /\ goes.exc = j.exc
    <3>. HIDE DEF j, bought
    <3>. QED
      BY <1>0, <2>1, <2>2 DEF JobRow
  <2>4. Ops(goes) = Ops(j)
    BY <2>3 DEF Ops
  <2>5. IsMatrix(j.kind) /\ (\E k \in 1..(goes.step - 1) : Ops(j)[k] = "buy") => bought = Bought(token)
    <3>. SUFFICES ASSUME IsMatrix(j.kind), NEW k \in 1..j.step, Ops(j)[k] = "buy"
                  PROVE  bought = Bought(token)
      BY <2>1, <2>3
    <3>1. CASE op = "buy"
      BY <3>1
    <3>2. CASE op # "buy"
      <4>1. k \in 1..(j.step - 1)
        BY <2>1, <3>2
      <4>. QED
        BY <1>0, <3>2, <4>1 DEF JobInv
    <3>. QED
      BY <3>1, <3>2
  <2>. HIDE DEF goes, bought
  <2>6. JobInv(goes)
    <3>. HIDE DEF j
    <3>. QED
      BY <1>0, <1>1, <2>1, <2>3, <2>4, <2>5 DEF JobInv, MatrixInv
  <2>7. a # Gone => AnvilInv(goes, a)
    <3>1. goes.step # 1
      BY <2>1, <2>3, Zenon
    <3>. HIDE DEF j, old
    <3>. QED
      BY <1>0, <1>2, <1>4, <2>1, <2>3, <3>1 DEF AnvilInv
  <2>. QED
    BY <1>0, <1>3, <1>4, <1>5, <2>3, <2>6, <2>7, UpStep
<1>6. CASE ~more
  <2>1. ended \in Result /\ Proven(ended)
    <3>1. tax \in {None} \cup 0..Bps
      BY ReceivedType, SellTaxType DEF IInv, TypeOK
    <3>2. Class(j.kind, op, o) \in Classes
      BY ClassFacts
    <3>3. ended \in Result
      <4>. HIDE DEF tax, act, op, j
      <4>. QED
        BY <1>1, <3>1, <3>2 DEF Result, Classes
    <3>4. Class(j.kind, op, o) = "sell_blocked" => Restricts(token, Own(token), "sell", SellAmount(Bought(token), act.mode))
      BY ClassFacts
    <3>5. tax # None => op = "sell" /\ o.status = "success" /\ tax = SellTax(amount, Received(token, amount))
      OBVIOUS
    <3>6. op = "sell" => amount = SellAmount(Bought(token), act.mode)
      OBVIOUS
    <3>7. op = "sell" /\ o.status = "success" => ~Restricts(token, Own(token), "sell", amount)
      OBVIOUS
    <3>. HIDE DEF tax, act, op, j
    <3>. QED
      BY <3>3, <3>4, <3>5, <3>6, <3>7 DEF Proven
  <2>6. ended.mode = act.mode
    OBVIOUS
  <2>. HIDE DEF ended
  <2>2. /\ Append(j.results, ended) \in Seq(Result)
        /\ \A k \in DOMAIN Append(j.results, ended) : Proven(Append(j.results, ended)[k])
        /\ Len(Append(j.results, ended)) = Len(j.results) + 1 /\ Len(j.results) \in Nat
        /\ DOMAIN j.results = 1..Len(j.results)
        /\ DOMAIN Append(j.results, ended) = 1..(Len(j.results) + 1)
        /\ Append(j.results, ended)[Len(j.results) + 1] = ended
        /\ \A k \in 1..Len(j.results) : Append(j.results, ended)[k] = j.results[k]
    <3>. DEFINE s == j.results
    <3>1. s \in Seq(Result) /\ \A k \in DOMAIN s : Proven(s[k])
      BY <1>0 DEF JobRow, JobInv
    <3>. HIDE DEF j, s
    <3>2. /\ Append(s, ended) \in Seq(Result) /\ DOMAIN Append(s, ended) = 1..(Len(s) + 1) /\ Len(s) \in Nat
          /\ DOMAIN s = 1..Len(s) /\ Append(s, ended)[Len(s) + 1] = ended
          /\ \A k \in 1..Len(s) : Append(s, ended)[k] = s[k]
          /\ Len(Append(s, ended)) = Len(s) + 1
      BY <2>1, <3>1, AppendProperties, LenProperties
    <3>3. \A k \in 1..(Len(s) + 1) : k \in 1..Len(s) \/ k = Len(s) + 1
      BY <3>2
    <3>4. \A k \in DOMAIN Append(s, ended) : Proven(Append(s, ended)[k])
      BY <2>1, <3>1, <3>2, <3>3
    <3>. QED
      BY <3>2, <3>4 DEF s
  <2>3. /\ ends \in JobRow /\ ends.pc = "revert" /\ ends.results = Append(j.results, ended)
        /\ ends.kind = j.kind /\ ends.at = j.at /\ ends.snap = j.snap /\ ends.anchor = j.anchor
        /\ ends.exc = j.exc
    <3>. HIDE DEF j
    <3>. QED
      BY <1>0, <2>2 DEF JobRow
  <2>. HIDE DEF ends
  <2>7. MatrixInv(ends)
    <3>. SUFFICES ASSUME IsMatrix(j.kind), j.exc = "none"
                  PROVE  /\ Len(ends.results) = j.at
                         /\ \A k \in DOMAIN ends.results : ends.results[k].mode = Modes[k]
      BY <2>3 DEF MatrixInv
    <3>1. act.mode = Modes[j.at]
      BY AtWork
    <3>2. Len(j.results) = j.at - 1 /\ \A k \in DOMAIN j.results : j.results[k].mode = Modes[k]
      BY <1>0 DEF JobInv, MatrixInv
    <3>3. j.at \in Nat
      BY <1>0, ModesFacts DEF JobRow
    <3>. DEFINE s == j.results
                more_s == Append(j.results, ended)
                n == Len(j.results)
    <3>4. /\ n \in Nat /\ DOMAIN s = 1..n /\ n + 1 = j.at /\ DOMAIN more_s = 1..(n + 1)
          /\ more_s[n + 1].mode = Modes[n + 1] /\ Len(more_s) = n + 1
          /\ \A k \in 1..n : more_s[k] = s[k] /\ s[k].mode = Modes[k]
      <4>1. n + 1 = j.at
        BY <2>2, <3>2, <3>3
      <4>. HIDE DEF j, act
      <4>. QED
        BY <2>2, <2>6, <3>1, <3>2, <4>1
    <3>5. ends.results = more_s
      BY <2>3
    <3>. HIDE DEF s, more_s, n, j
    <3>6. \A k \in 1..(n + 1) : k \in 1..n \/ k = n + 1
      BY <3>4
    <3>7. \A k \in DOMAIN more_s : more_s[k].mode = Modes[k]
      BY <3>4, <3>6
    <3>. QED
      BY <3>4, <3>5, <3>7
  <2>4. JobInv(ends)
    BY <1>0, <2>2, <2>3, <2>7 DEF JobInv
  <2>5. a # Gone => AnvilInv(ends, a)
    <3>. HIDE DEF j, old
    <3>. QED
      BY <1>0, <1>2, <1>4, <2>3 DEF AnvilInv
  <2>. QED
    BY <1>0, <1>3, <1>4, <1>6, <2>3, <2>4, <2>5, UpStep
<1>. QED
  BY <1>5, <1>6

\* A sale of nothing raises before its transaction.
LEMMA NothingToSell ==
  ASSUME OneWorker, IInv, NEW w \in Workers, job[w].pc = "exec", Raise(w, "error", "revert"),
         UNCHANGED <<token, anvils, process, url, report, jobs, faults>>
  PROVE  IInv'
<1>. DEFINE j == [job[w] EXCEPT !.pc = "revert", !.exc = "error"]
<1>1. job[w] \in JobRow /\ JobInv(job[w]) /\ job[w].pc \in Up /\ "revert" \in Up
  BY JobFacts DEF Up
<1>2. j \in JobRow /\ j.pc = "revert" /\ job' = [job EXCEPT ![w] = j]
  BY <1>1 DEF JobRow, Raise
<1>3. JobInv(j)
  BY <1>1 DEF JobInv, MatrixInv, JobRow
<1>4. anvils[process] # Gone => AnvilInv(j, anvils[process])
  BY <1>1, NoAnvilStep DEF AnvilInv, JobRow
<1>. HIDE DEF j
<1>. QED
  BY <1>1, <1>2, <1>3, <1>4, NoAnvilStep, JobFacts, UpStep

\* The error of a receipt's poll leaves the anvil as it was, or with the trade it mined.
LEMMA PollFailsStep ==
  ASSUME OneWorker, IInv, NEW w \in Workers, job[w].pc = "exec", RpcError = "none", NEW amount \in Nat, NEW refusal,
         PollFails(w, Ops(job[w])[job[w].step], amount, refusal),
         UNCHANGED <<token, process, url, report, jobs>>
  PROVE  IInv'
<1>. DEFINE j == [job[w] EXCEPT !.pc = "revert", !.exc = "error"]
            op == Ops(job[w])[job[w].step]
            old == anvils[process]
            sold == [old EXCEPT !.chain = Append(@, [op |-> op, amount |-> amount])]
            a == IF refusal = {} THEN sold ELSE old
<1>1. job[w] \in JobRow /\ JobInv(job[w]) /\ job[w].pc \in Up /\ "revert" \in Up
  BY JobFacts DEF Up
<1>2. j \in JobRow /\ j.pc = "revert" /\ job' = [job EXCEPT ![w] = j] /\ j.anchor = job[w].anchor
      /\ j.outer = job[w].outer /\ j.snap = job[w].snap /\ j.kind = job[w].kind
  BY <1>1 DEF JobRow, Raise, PollFails
<1>3. JobInv(j)
  BY <1>1 DEF JobInv, MatrixInv, JobRow
<1>4. /\ Server = process /\ old \in AnvilRow /\ old # Gone /\ AnvilInv(job[w], old)
      /\ op \in {"pre_approve", "buy", "approve", "sell", "transfer"}
  BY <1>1, ServerIsOwn, AtWork
<1>5. anvils' = [anvils EXCEPT ![process] = a]
  <2>1. anvils = [anvils EXCEPT ![process] = anvils[process]]
    BY JobFacts
  <2>. QED
    BY <1>4, <2>1 DEF PollFails
<1>6. sold \in AnvilRow /\ sold.base = old.base /\ sold.saved = old.saved
  <2>. HIDE DEF old, op
  <2>. QED
    BY <1>4, AppendTrade
<1>7. a \in AnvilRow /\ a.base = old.base /\ a.saved = old.saved
  <2>. HIDE DEF sold, old
  <2>. QED
    BY <1>4, <1>6
<1>8. AnvilInv(j, a)
  <2>. HIDE DEF j, a, old
  <2>. QED
    BY <1>1, <1>2, <1>4, <1>7 DEF AnvilInv
<1>9. faults' \in 0..MaxFaults
  BY FaultType DEF PollFails
<1>. HIDE DEF j, a
<1>. QED
  BY <1>1, <1>2, <1>3, <1>5, <1>7, <1>8, <1>9, UpStep

LEMMA ExecuteStep ==
  ASSUME OneWorker, IInv, NEW w \in Workers, Execute(w)
  PROVE  IInv'
<1>. DEFINE j == job[w]
            act == Plan(j.kind)[j.at]
            op == act.ops[j.step]
            amount == CASE op = "buy" -> Bought(token)
                        [] op = "sell" -> IF IsMatrix(j.kind) THEN SellAmount(j.bought, act.mode)
                                          ELSE Bought(token)
                        [] op = "transfer" -> Bought(token)
                        [] OTHER -> 0
            refusal == Refusal(token, anvils[Server].chain, op, amount)
<1>0. j.pc = "exec" /\ j.pc \in Up /\ op = Ops(j)[j.step]
  BY DEF Execute, Up, Ops
<1>1. /\ amount \in Nat /\ (op = "buy" => amount = Bought(token))
      /\ op = "sell" => amount = SellAmount(Bought(token), act.mode)
  <2>1. op = "sell" => act.mode \in SellModes /\ (IsMatrix(j.kind) => j.bought = Bought(token))
    BY <1>0, AtWork
  <2>2. ~IsMatrix(j.kind) => act.mode = "baseline"
    BY <1>0, AtWork
  <2>3. Bought(token) \in Nat /\ (act.mode \in SellModes => SellAmount(Bought(token), act.mode) \in Nat)
    BY BoughtFacts, SellAmountType
  <2>4. op = "sell" => amount = SellAmount(Bought(token), act.mode)
    <3>1. op = "sell" => amount = IF IsMatrix(j.kind) THEN SellAmount(j.bought, act.mode) ELSE Bought(token)
      <4>. HIDE DEF op, act, j
      <4>. QED
        OBVIOUS
    <3>. HIDE DEF op, act, j, amount
    <3>. QED
      BY <2>1, <2>2, <3>1, BoughtFacts
  <2>5. op = "buy" => amount = Bought(token)
    OBVIOUS
  <2>6. op \notin {"buy", "sell"} => amount \in Nat
    BY <2>3
  <2>. HIDE DEF act, op, amount
  <2>. QED
    BY <2>1, <2>3, <2>4, <2>5, <2>6
<1>2. UNCHANGED <<token, process, url, report, jobs>>
  BY DEF Execute
<1>3. \/ Raise(w, "error", "revert") /\ UNCHANGED <<anvils, faults>>
      \/ Conclude(w, act, op, amount, Outcome("unknown", {}, FALSE, TRUE)) /\ UNCHANGED faults
      \/ /\ RpcError = "none"
         /\ \E o \in Outcomes(refusal) \cup Faulty(refusal) : Conclude(w, act, op, amount, o) /\ (Fault \/ UNCHANGED faults)
      \/ RpcError = "none" /\ PollFails(w, op, amount, refusal)
  <2>1. IF op = "sell" /\ amount = 0 THEN Raise(w, "error", "revert") /\ UNCHANGED <<anvils, faults>>
        ELSE IF RpcError # "none"
        THEN Conclude(w, act, op, amount, Outcome("unknown", {}, FALSE, TRUE)) /\ UNCHANGED faults
        ELSE \/ \E o \in Outcomes(refusal) : Conclude(w, act, op, amount, o) /\ UNCHANGED faults
             \/ \E o \in Faulty(refusal) : Conclude(w, act, op, amount, o) /\ Fault
             \/ PollFails(w, op, amount, refusal)
    BY DEF Execute
  <2>. HIDE DEF refusal, amount, op, act, j
  <2>. QED
    BY <2>1
<1>. HIDE DEF amount
<1>4. CASE Raise(w, "error", "revert") /\ UNCHANGED <<anvils, faults>>
  BY <1>0, <1>2, <1>4, NothingToSell
<1>5. CASE Conclude(w, act, op, amount, Outcome("unknown", {}, FALSE, TRUE)) /\ UNCHANGED faults
  <2>. DEFINE o == Outcome("unknown", {}, FALSE, TRUE)
  <2>1. o.status \in {"success", "reverted", "unknown"} /\ o.status = "unknown" /\ o.done \in BOOLEAN /\ ~o.done
    BY DEF Outcome
  <2>2. Conclude(w, act, op, amount, o) /\ faults' \in 0..MaxFaults
    BY <1>5, FaultType
  <2>. HIDE DEF o
  <2>. QED
    BY <1>0, <1>1, <1>2, <2>1, <2>2, ConcludeStep
<1>6. CASE /\ RpcError = "none"
           /\ \E o \in Outcomes(refusal) \cup Faulty(refusal) : Conclude(w, act, op, amount, o) /\ (Fault \/ UNCHANGED faults)
  <2>1. PICK o \in Outcomes(refusal) \cup Faulty(refusal) : Conclude(w, act, op, amount, o) /\ (Fault \/ UNCHANGED faults)
    BY <1>6
  <2>2. /\ o.status \in {"success", "reverted", "unknown"} /\ o.done \in BOOLEAN
        /\ "token" \in o.text => o.text = refusal
        /\ o.status = "success" => refusal = {}
    BY OutcomeFacts
  <2>3. Clean(anvils[Server].chain)
    BY <1>0, <1>6, ServerIsOwn DEF AnvilInv
  <2>5. op = "sell" /\ "token" \in o.text /\ "router" \notin o.text =>
          Restricts(token, Own(token), "sell", SellAmount(Bought(token), act.mode))
    <3>. SUFFICES ASSUME op = "sell", "token" \in o.text, "router" \notin o.text
                  PROVE  Restricts(token, Own(token), "sell", SellAmount(Bought(token), act.mode))
      OBVIOUS
    <3>1. Restricts(token, anvils[Server].chain, op, amount)
      BY <2>2, RefusalFacts
    <3>. QED
      BY <1>1, <2>3, <3>1, RestrictsOwn
  <2>6. op = "sell" /\ o.status = "success" => ~Restricts(token, Own(token), "sell", amount)
    <3>. SUFFICES ASSUME op = "sell", o.status = "success"
                  PROVE  ~Restricts(token, Own(token), "sell", amount)
      OBVIOUS
    <3>1. ~Restricts(token, anvils[Server].chain, op, amount)
      BY <2>2, NoRefusal
    <3>. QED
      BY <2>3, <3>1, RestrictsOwn
  <2>4. faults' \in 0..MaxFaults
    BY <2>1, FaultType
  <2>. QED
    BY <1>0, <1>1, <1>2, <1>6, <2>1, <2>2, <2>4, <2>5, <2>6, ConcludeStep
<1>7. CASE RpcError = "none" /\ PollFails(w, op, amount, refusal)
  <2>. HIDE DEF refusal
  <2>. QED
    BY <1>0, <1>1, <1>2, <1>7, PollFailsStep
<1>. QED
  BY <1>3, <1>4, <1>5, <1>6, <1>7

-----------------------------------------------------------------------------
(* Theorems *)

LEMMA InitInv == OneWorker /\ Init => IInv
<1>. SUFFICES ASSUME Init PROVE IInv
  OBVIOUS
<1>1. TypeOK
  <2>1. anvils \in [Ids -> AnvilRow] /\ job \in [Workers -> JobRow] /\ NoReport \in ReportRow
    <3>1. <<>> \in Seq(Result)
      OBVIOUS
    <3>2. NoReport \in ReportRow
      BY <3>1 DEF NoReport, ReportRow
    <3>. QED
      BY <3>2, GoneFacts, IdleFacts DEF Init
  <2>2. 0 \in 0..MaxJobs /\ 0 \in 0..MaxFaults
    BY StateForkAssumption
  <2>. QED
    BY <2>1, <2>2 DEF Init, TypeOK, AnvilRow, JobRow, ReportRow
<1>2. RestInv /\ UpInv
  BY IdleFacts DEF Init, RestInv, UpInv, Up
<1>3. \A w \in Workers : JobInv(job[w])
  BY IdleFacts DEF Init
<1>4. ReportInv(report)
  BY NoReportFacts DEF Init
<1>. QED
  BY <1>1, <1>2, <1>3, <1>4 DEF IInv

LEMMA NextInv == OneWorker /\ IInv /\ [Next]_vars => IInv'
<1>. SUFFICES ASSUME OneWorker, IInv, [Next]_vars PROVE IInv'
  OBVIOUS
<1>1. ASSUME NEW w \in Workers, Unreachable(w) \/ Resolve(w) \/ Work(w)
      PROVE  IInv'
  BY <1>1, UnreachableStep, ResolveStep, StartStep, BootStep, VerifyStep, OuterStep, AttemptStep,
     ExecuteStep, RevertStep, CloseStep, KillStep, ClearStep DEF Work
<1>2. CASE \E i \in Ids : Serve(i) \/ Exit(i) \/ Dies(i)
  BY <1>2, ServeStep
<1>3. CASE UNCHANGED vars
  <2>1. TypeOK'
    BY <1>3 DEF vars, IInv, TypeOK
  <2>2. RestInv'
    BY <1>3 DEF vars, IInv, RestInv
  <2>3. UpInv'
    BY <1>3 DEF vars, IInv, UpInv, AnvilInv, Clean
  <2>4. (\A w \in Workers : JobInv(job[w]))'
    BY <1>3 DEF vars, IInv, JobInv, MatrixInv, Proven, Ops
  <2>5. ReportInv(report)'
    BY <1>3, ReportKept DEF vars
  <2>. QED
    BY <2>1, <2>2, <2>3, <2>4, <2>5 DEF IInv
<1>. QED
  BY <1>1, <1>2, <1>3 DEF Next

\* The inductive invariant of scans, anvils and reports.
THEOREM InductiveInvariant == ASSUME OneWorker PROVE Spec => []IInv
<1>1. Init => IInv
  BY InitInv
<1>2. IInv /\ [Next]_vars => IInv'
  BY NextInv
<1>. QED
  BY <1>1, <1>2, PTL DEF Spec

\* Anvils, scans and reports keep their types.
THEOREM TypeCorrect == ASSUME OneWorker PROVE Spec => []TypeOK
<1>1. IInv => TypeOK
  BY DEF IInv
<1>. QED
  BY <1>1, InductiveInvariant, PTL

\* Between scans no anvil runs and the fields of AnvilFork are clear, whatever failed.
THEOREM AnvilsAreStopped == ASSUME OneWorker PROVE Spec => []AnvilIsStopped
<1>1. IInv => AnvilIsStopped
  BY DEF IInv, RestInv, AnvilIsStopped
<1>. QED
  BY <1>1, InductiveInvariant, PTL

\* Every attempt starts on the chain of its anchor without a trade of another one: the
\* snapshots of anvil.py restore it, also after an attempt that failed.
THEOREM AttemptsStayIndependent == ASSUME OneWorker PROVE Spec => []AttemptsIndependent
<1>1. ASSUME IInv PROVE AttemptsIndependent
  <2>. SUFFICES ASSUME NEW w \in Workers, job[w].pc = "exec", job[w].step = 1, RpcError = "none"
                PROVE  anvils[Server].chain = <<>> /\ anvils[Server].base = job[w].anchor
    BY DEF AttemptsIndependent
  <2>1. job[w].pc \in Up
    BY DEF Up
  <2>. QED
    BY <1>1, <2>1, ServerIsOwn DEF AnvilInv
<1>. QED
  BY <1>1, InductiveInvariant, PTL

\* A sale is reported as blocked only if the token restricts it after the scan's own buy
\* and approval: neither another attempt nor another scan is the reason.
THEOREM BlockedMeansRestricted == ASSUME OneWorker PROVE Spec => []BlockedIsProven
<1>1. IInv => BlockedIsProven
  <2>. SUFFICES ASSUME IInv, NEW r \in ToSet(report.results), r.class = "sell_blocked"
                PROVE  Restricts(token, Own(token), "sell", SellAmount(Bought(token), r.mode))
    BY DEF BlockedIsProven
  <2>1. PICK k \in DOMAIN report.results : r = report.results[k]
    BY DEF ToSet
  <2>. QED
    BY <2>1 DEF IInv, ReportInv, Proven
<1>. QED
  BY <1>1, InductiveInvariant, PTL

\* When a matrix reports a verdict and every sale was decided, blocked or taxed, the
\* verdict is the one the token's own rule deserves over the sizes sold: neither the order
\* of the attempts nor what one left behind changes it.
THEOREM MatrixJudgesRight == ASSUME OneWorker PROVE Spec => []MatrixVerdict
<1>1. IInv => MatrixVerdict
  BY DEF IInv, ReportInv, Judged, MatrixVerdict
<1>. QED
  BY <1>1, InductiveInvariant, PTL
=============================================================================

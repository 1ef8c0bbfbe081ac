----------------------------- MODULE StateFork ------------------------------
(***************************************************************************)
(* Scans that trade a token on a local fork: AnvilFork (state_fork/        *)
(* anvil.py), StateForkEngine (state_fork/engine.py) and the trade matrix  *)
(* of AutoTradeAnalyzer (state_fork/auto_trade.py).                        *)
(*                                                                         *)
(* The workers are the threads of ScanService: they share one engine, so   *)
(* one AnvilFork, its field `process' and one port.  Anvil and the token   *)
(* are external: an anvil boots, answers on the port or exits, keeps a     *)
(* chain (the trades executed since the fork) and snapshots of it; the     *)
(* token decides which trades pass.  The account set-up, the reads, the    *)
(* transaction and the wait for its receipt are one step of a scan.        *)
(***************************************************************************)
EXTENDS TradeMatrix, TLC

CONSTANTS
  Workers,
  Tokens,    \* kinds of token, see Refusal and TaxPercent
  Kinds,     \* kinds of scan, see Plan
  Blocks,    \* bound: block numbers an anchor may have
  MaxJobs,   \* bound: scans
  MaxFaults  \* bound: timeouts, lost receipts and deaths of an anvil

ASSUME StateForkAssumption ==
  /\ {Blocks, MaxJobs} \subseteq Nat \ {0} /\ MaxFaults \in Nat
  /\ Kinds \subseteq {"sequence", "scenarios", "matrix", "matrix_erc20"}

VARIABLES
  token,
  anvils,   \* the operating system: anvil processes
  process,  \* AnvilFork.process
  url,      \* AnvilFork.rpc_url is set
  job,      \* worker -> its scan
  report,   \* the report of the last scan, until the next one starts
  jobs, faults

vars == <<token, anvils, process, url, job, report, jobs, faults>>

Ids == 1..MaxJobs
Gone == [st |-> "gone", base |-> 0, chain |-> <<>>, saved |-> <<>>]
Idle == [pc |-> "idle", kind |-> "none", anchor |-> 0, at |-> 1, step |-> 1, outer |-> 0,
         snap |-> 0, bought |-> 0, results |-> <<>>, exc |-> "none"]
NoReport == [kind |-> "none", status |-> "none", results |-> <<>>, verdict |-> "none"]

Traded == [op : {"pre_approve", "buy", "approve", "sell", "transfer"}, amount : Nat]
Result == [mode : SellModes \cup {"transfer_only"}, tax : {None} \cup 0..Bps,
           class : {"success", "reverted", "unknown", "buy_failed", "approve_failed", "sell_succeeded",
                    "sell_blocked", "transfer_succeeded", "transfer_blocked"}]
TypeOK ==
  /\ token \in Tokens
  /\ anvils \in [Ids -> [st : {"gone", "booting", "serving"}, base : 0..Blocks, chain : Seq(Traded),
                         saved : Seq([live : BOOLEAN, chain : Seq(Traded)])]]
  /\ process \in {0} \cup Ids /\ url \in BOOLEAN
  /\ job \in [Workers -> [pc : {"idle", "start", "boot", "verify", "outer", "attempt", "exec", "revert",
                                "close", "kill", "clear"},
                          kind : Kinds \cup {"none"}, anchor : 0..Blocks, at : 1..Len(Modes), step : 1..4,
                          outer : Nat, snap : Nat, bought : Nat, results : Seq(Result),
                          exc : {"none", "unavailable", "error"}]]
  /\ report \in [kind : Kinds \cup {"none"}, results : Seq(Result),
                 status : {"none", "unknown", "failed", "partial", "complete"},
                 verdict : {"none", "HONEYPOT_DETECTED", "CRITICAL_RISK", "HIGH_RISK", "UNVERIFIED", "LOW_RISK"}]
  /\ jobs \in 0..MaxJobs /\ faults \in 0..MaxFaults

Init ==
  /\ token \in Tokens
  /\ anvils = [i \in Ids |-> Gone]
  /\ process = 0 /\ url = FALSE
  /\ job = [w \in Workers |-> Idle]
  /\ report = NoReport
  /\ jobs = 0 /\ faults = 0

---------------------------------------------------------------------------
(* The attempts of a scan, and the transactions of an attempt. *)
Trade == <<"buy", "approve", "sell">>
MatrixOps(mode) == IF mode = "transfer_only" THEN <<"buy", "transfer">> ELSE Trade
Plan(kind) ==
  CASE kind = "sequence" -> <<[mode |-> "baseline", ops |-> Trade]>>
    [] kind = "scenarios" -> <<[mode |-> "baseline", ops |-> <<"buy">>],
                               [mode |-> "baseline", ops |-> <<"sell">>]>>
    [] OTHER -> [i \in DOMAIN Modes |->
         [mode |-> Modes[i],
          ops |-> (IF kind = "matrix_erc20" THEN <<"pre_approve">> ELSE <<>>) \o MatrixOps(Modes[i])]]
IsMatrix(kind) == kind \in {"matrix", "matrix_erc20"}

(* The token.  It keeps what was bought, and may restrict or tax a sale. *)
Bought(t) == IF t = "dust" THEN 5 ELSE 1000
Moved(chain, ops) == FoldLeft(LAMBDA sum, x : sum + x.amount, 0, SelectSeq(chain, LAMBDA x : x.op \in ops))
Balance(chain) == Moved(chain, {"buy"}) - Moved(chain, {"sell", "transfer"})
TaxPercent(t, amount) ==
  CASE t = "taxed" -> 60
    [] t = "grabs" -> 96
    [] t = "rising" /\ 2 * amount >= Bought(t) -> 20
    [] OTHER -> 0
Received(t, amount) == amount - (amount * TaxPercent(t, amount)) \div 100
Restricts(t, chain, op, amount) ==
  \/ t = "closed" /\ op = "buy"
  \/ t \in {"blocks", "masked"} /\ op = "sell"
  \/ t = "frozen" /\ op \in {"sell", "transfer"}
  \/ t = "limit" /\ op = "sell" /\ 2 * amount > Bought(t)
  \/ t = "cooldown" /\ op = "sell" /\ \E i \in DOMAIN chain : chain[i].op = "sell"
(* The words of a refusal; none when the trade passes. *)
Refusal(t, chain, op, amount) ==
  IF op \in {"sell", "transfer"} /\ amount > Balance(chain) THEN {"balance"}
  ELSE IF op = "sell" /\ ~\E i \in DOMAIN chain : chain[i].op = "approve" THEN {"balance"}
  ELSE IF Restricts(t, chain, op, amount) THEN IF t = "masked" THEN {"router", "token"} ELSE {"token"}
  ELSE CASE t = "panics" /\ op = "sell" -> {"panic"}
         [] t = "swallows" /\ op = "sell" -> {"router"}
         [] OTHER -> {}

---------------------------------------------------------------------------
(* Anvil: one process answers on the port; a snapshot is used once, and     *)
(* with it go the later ones.                                               *)
Listening == {i \in Ids : anvils[i].st = "serving"}
Server == CHOOSE i \in Listening : TRUE
Saved(a) == [a EXCEPT !.saved = Append(@, [live |-> TRUE, chain |-> a.chain])]
Reverted(a, id) ==
  IF id \in DOMAIN a.saved /\ a.saved[id].live
  THEN [a EXCEPT !.chain = a.saved[id].chain,
                 !.saved = [i \in DOMAIN @ |-> IF i >= id THEN [@[i] EXCEPT !.live = FALSE] ELSE @[i]]]
  ELSE a

Fault == faults < MaxFaults /\ faults' = faults + 1
Serve(i) ==
  /\ anvils[i].st = "booting" /\ Listening = {}
  /\ anvils' = [anvils EXCEPT ![i].st = "serving"]
  /\ UNCHANGED <<token, process, url, job, report, jobs, faults>>
Exit(i) ==
  /\ anvils[i].st = "booting"
  /\ IF Listening # {} THEN UNCHANGED faults ELSE Fault
  /\ anvils' = [anvils EXCEPT ![i] = Gone]
  /\ UNCHANGED <<token, process, url, job, report, jobs>>
Dies(i) ==
  /\ anvils[i].st = "serving" /\ Fault
  /\ anvils' = [anvils EXCEPT ![i] = Gone]
  /\ UNCHANGED <<token, process, url, job, report, jobs>>

---------------------------------------------------------------------------
(* rpc_request: without a URL it raises AnvilUnavailable, which the engine  *)
(* reports as unknown; with nobody on the port, an error that fails a scan. *)
RpcError == IF ~url THEN "unavailable" ELSE IF Listening = {} THEN "error" ELSE "none"
Goto(w, pc) == job' = [job EXCEPT ![w].pc = pc]
Raise(w, exc, pc) == job' = [job EXCEPT ![w].pc = pc, ![w].exc = exc]
(* Where a scan leaves its attempts: the matrix first reverts its own snapshot. *)
Leave(w) == IF IsMatrix(job[w].kind) THEN "close" ELSE "kill"

(* No capability, or no anchor: unknown, and no anvil is started. *)
Unreachable(w) ==
  /\ job[w].pc = "idle" /\ jobs < MaxJobs /\ jobs' = jobs + 1
  /\ \E kind \in Kinds :
       report' = [NoReport EXCEPT !.kind = kind, !.status = "unknown"]
  /\ UNCHANGED <<token, anvils, process, url, job, faults>>
Resolve(w) ==
  /\ job[w].pc = "idle" /\ jobs < MaxJobs /\ jobs' = jobs + 1
  /\ \E kind \in Kinds, b \in 1..Blocks :
       job' = [job EXCEPT ![w] = [Idle EXCEPT !.pc = "start", !.kind = kind, !.anchor = b]]
  /\ report' = NoReport
  /\ UNCHANGED <<token, anvils, process, url, faults>>

(* AnvilFork.start: the process is started on a fixed port ... *)
Start(w) ==
  /\ job[w].pc = "start"
  /\ LET i == CHOOSE i \in Ids : anvils[i] = Gone /\ \A k \in 1..(i - 1) : anvils[k] # Gone
     IN /\ anvils' = [anvils EXCEPT ![i] = [Gone EXCEPT !.st = "booting", !.base = job[w].anchor]]
        /\ process' = i
  /\ url' = TRUE /\ Goto(w, "boot")
  /\ UNCHANGED <<token, report, jobs, faults>>
(* ... and polled: it has exited, something answers, or the deadline passes. *)
Boot(w) ==
  /\ job[w].pc = "boot"
  /\ IF process = 0 THEN Raise(w, "error", "kill")
     ELSE IF anvils[process] = Gone THEN Raise(w, "unavailable", "kill")
     ELSE RpcError = "none" /\ Goto(w, "verify")
  /\ UNCHANGED <<token, anvils, process, url, report, jobs, faults>>
\* Mutant: the poll has no deadline.
BootForever(w) == FALSE /\ job[w].pc = "boot" /\ UNCHANGED vars

BootTimeout(w) ==
  /\ job[w].pc = "boot" /\ process # 0 /\ RpcError # "none"
  /\ Raise(w, "unavailable", "kill")
  /\ UNCHANGED <<token, anvils, process, url, report, jobs, faults>>

(* The fork holds the anchor when it was made at that block or a later one. *)
Verify(w) ==
  /\ job[w].pc = "verify"
  /\ IF RpcError # "none" THEN Raise(w, RpcError, "kill")
     ELSE IF anvils[Server].base < job[w].anchor THEN Raise(w, "unavailable", "kill")
     ELSE Goto(w, IF IsMatrix(job[w].kind) THEN "outer" ELSE "attempt")
  /\ UNCHANGED <<token, anvils, process, url, report, jobs, faults>>
Mismatch(w) ==
  /\ job[w].pc = "verify" /\ RpcError = "none" /\ Fault
  /\ Raise(w, "unavailable", "kill")
  /\ UNCHANGED <<token, anvils, process, url, report, jobs>>

(* run_trade_matrix: the snapshot around all attempts. *)
Outer(w) ==
  /\ job[w].pc = "outer"
  /\ IF RpcError # "none" THEN Raise(w, RpcError, "kill") /\ UNCHANGED anvils
     ELSE /\ anvils' = [anvils EXCEPT ![Server] = Saved(@)]
          /\ job' = [job EXCEPT ![w].pc = "attempt", ![w].outer = Len(anvils[Server].saved) + 1]
  /\ UNCHANGED <<token, process, url, report, jobs, faults>>
(* An attempt starts from its own snapshot; in the matrix, after a revert to *)
(* the outer one, which the first attempt uses up.                           *)
Attempt(w) ==
  /\ job[w].pc = "attempt"
  /\ IF RpcError # "none" THEN Raise(w, RpcError, Leave(w)) /\ UNCHANGED anvils
     ELSE LET a == Reverted(anvils[Server], job[w].outer)
          IN /\ anvils' = [anvils EXCEPT ![Server] = Saved(a)]
             /\ job' = [job EXCEPT ![w].pc = "exec", ![w].step = 1, ![w].snap = Len(a.saved) + 1]
  /\ UNCHANGED <<token, process, url, report, jobs, faults>>

---------------------------------------------------------------------------
(* What _execute_scenario can return.  A transaction that is mined and      *)
(* reverts gives no reason.  A request that fails is "reverted", also when   *)
(* it was carried out; a receipt may not come; a balance may not be read.   *)
Outcome(status, text, done, seen) == [status |-> status, text |-> text, done |-> done, seen |-> seen]
Outcomes(refusal) ==
  IF refusal = {} THEN {Outcome("success", {}, TRUE, TRUE)}
  ELSE {Outcome("reverted", text, FALSE, TRUE) : text \in {refusal, {}}}
Faulty(refusal) ==
  {Outcome(status, {}, FALSE, TRUE) : status \in {"reverted", "unknown"}} \cup
  IF refusal = {}
  THEN {Outcome("success", {}, TRUE, FALSE)} \cup {Outcome(status, {}, TRUE, TRUE) : status \in {"reverted", "unknown"}}
  ELSE {}

(* The classification of an attempt that ends at op. *)
Class(kind, op, o) ==
  IF kind = "scenarios" THEN o.status
  ELSE CASE op = "sell" -> SellClass(o.status, Cause(o.status, o.text))
         [] op = "transfer" -> TransferClass(o.status, Cause(o.status, o.text))
         [] op = "approve" -> IF kind # "sequence" /\ o.status = "reverted" THEN "approve_failed" ELSE "unknown"
         [] OTHER -> IF kind = "sequence" \/ o.status = "reverted" THEN "buy_failed" ELSE "unknown"

(* One transaction of an attempt, of which the scan learns o. *)
Conclude(w, a, op, amount, o) ==
  LET j == job[w]
      more == o.status = "success" /\ j.step < Len(a.ops) /\ (o.seen \/ ~IsMatrix(j.kind) \/ op # "buy")
      tax == IF o.status = "success" /\ op = "sell" /\ o.seen THEN SellTax(amount, Received(token, amount)) ELSE None
      ended == [mode |-> a.mode, class |-> Class(j.kind, op, o), tax |-> tax]
  IN /\ job' = [job EXCEPT ![w] =
          IF more THEN [j EXCEPT !.step = @ + 1, !.bought = IF op = "buy" THEN amount ELSE @]
          ELSE [j EXCEPT !.pc = "revert", !.results = Append(@, ended)]]
     /\ anvils' = IF o.done THEN [anvils EXCEPT ![Server].chain = Append(@, [op |-> op, amount |-> amount])]
                  ELSE anvils

(* The transaction was sent, and the request for its receipt raises. *)
PollFails(w, op, amount, refusal) ==
  /\ Fault /\ Raise(w, "error", "revert")
  /\ anvils' = IF refusal = {} THEN [anvils EXCEPT ![Server].chain = Append(@, [op |-> op, amount |-> amount])]
               ELSE anvils

Execute(w) ==
  /\ job[w].pc = "exec"
  /\ LET a == Plan(job[w].kind)[job[w].at]
         op == a.ops[job[w].step]
         amount == CASE op = "buy" -> Bought(token)
                     [] op = "sell" -> IF IsMatrix(job[w].kind) THEN SellAmount(job[w].bought, a.mode)
                                       ELSE Bought(token)
                     [] op = "transfer" -> Bought(token)
                     [] OTHER -> 0
     IN IF op = "sell" /\ amount = 0 THEN Raise(w, "error", "revert") /\ UNCHANGED <<anvils, faults>>
        ELSE IF RpcError # "none"
        THEN Conclude(w, a, op, amount, Outcome("unknown", {}, FALSE, TRUE)) /\ UNCHANGED faults
        ELSE LET refusal == Refusal(token, anvils[Server].chain, op, amount)
             IN \/ \E o \in Outcomes(refusal) : Conclude(w, a, op, amount, o) /\ UNCHANGED faults
                \/ \E o \in Faulty(refusal) : Conclude(w, a, op, amount, o) /\ Fault
                \/ PollFails(w, op, amount, refusal)
  /\ UNCHANGED <<token, process, url, report, jobs>>

\* Mutant: the revert goes to the snapshot around all attempts.
RestoreOuter(a, j) == Reverted(a, j.outer)

(* finally: the attempt's snapshot is restored; then the next attempt. *)
Restore(a, j) == Reverted(a, j.snap)

Revert(w) ==
  /\ job[w].pc = "revert"
  /\ LET j == job[w]
         next == IF j.exc = "none" /\ j.at < Len(Plan(j.kind)) THEN "attempt" ELSE Leave(w)
     IN IF RpcError # "none" THEN Raise(w, RpcError, Leave(w)) /\ UNCHANGED anvils
        ELSE /\ anvils' = [anvils EXCEPT ![Server] = Restore(@, j)]
             /\ job' = [job EXCEPT ![w].pc = next, ![w].at = IF next = "attempt" THEN @ + 1 ELSE @,
                                   ![w].bought = 0]
  /\ UNCHANGED <<token, process, url, report, jobs, faults>>
Close(w) ==
  /\ job[w].pc = "close"
  /\ IF RpcError # "none" THEN Raise(w, RpcError, "kill") /\ UNCHANGED anvils
     ELSE anvils' = [anvils EXCEPT ![Server] = Reverted(@, job[w].outer)] /\ Goto(w, "kill")
  /\ UNCHANGED <<token, process, url, report, jobs, faults>>

---------------------------------------------------------------------------
\* Mutant: the process is stopped only after a scan that raised nothing.
StoppedAtSuccess(w) == IF process = 0 \/ job[w].exc # "none" THEN {} ELSE {process}

(* finally: AnvilFork.stop ends whatever process the field names ... *)
Stopped(w) == IF process = 0 THEN {} ELSE {process}

Kill(w) ==
  /\ job[w].pc = "kill" /\ Goto(w, "clear")
  /\ anvils' = [i \in Ids |-> IF i \in Stopped(w) THEN Gone ELSE anvils[i]]
  /\ UNCHANGED <<token, process, url, report, jobs, faults>>

(* The status a scan reports. *)
Status(j) ==
  LET unknown == \E r \in ToSet(j.results) : r.class = "unknown"
  IN CASE j.exc = "unavailable" -> "unknown"
       [] j.exc = "error" -> "failed"
       [] OTHER -> IF IsMatrix(j.kind) THEN MatrixStatus(j.results)
                   ELSE IF unknown THEN "partial" ELSE "complete"
Verdict(j) ==
  IF IsMatrix(j.kind) /\ j.exc = "none"
  THEN TradeVerdict(MatrixStatus(j.results), HardSignals(j.results)) ELSE "none"
(* ... and clears the fields; the scan reports. *)
Clear(w) ==
  /\ job[w].pc = "clear"
  /\ process' = 0 /\ url' = FALSE
  /\ LET j == job[w]
     IN report' = [kind |-> j.kind, status |-> Status(j), verdict |-> Verdict(j),
                   results |-> IF j.exc = "none" THEN j.results ELSE <<>>]
  /\ job' = [job EXCEPT ![w] = Idle]
  /\ UNCHANGED <<token, anvils, jobs, faults>>

Work(w) ==
  \/ Start(w) \/ Boot(w) \/ BootTimeout(w) \/ Verify(w) \/ Mismatch(w) \/ Outer(w) \/ Attempt(w)
  \/ Execute(w) \/ Revert(w) \/ Close(w) \/ Kill(w) \/ Clear(w)
Next ==
  \/ \E w \in Workers : Unreachable(w) \/ Resolve(w) \/ Work(w)
  \/ \E i \in Ids : Serve(i) \/ Exit(i) \/ Dies(i)

Spec == Init /\ [][Next]_vars /\ \A w \in Workers : WF_vars(Work(w))

---------------------------------------------------------------------------
(* A sale is reported as blocked only when the token restricts it after the *)
(* scan's own buy and approval alone (StateForkEngine.analyze_honeypot,     *)
(* run_trade_matrix): nothing another attempt or another scan did counts.   *)
Own(t) == <<[op |-> "buy", amount |-> Bought(t)], [op |-> "approve", amount |-> 0]>>
BlockedIsProven ==
  \A r \in ToSet(report.results) :
    r.class = "sell_blocked" => Restricts(token, Own(token), "sell", SellAmount(Bought(token), r.mode))

(* Every attempt starts from the anchored block as it was: no trade of an   *)
(* earlier attempt or of another scan is on the chain, and the fork was     *)
(* made at the scan's own anchor (snapshot and revert in anvil.py).         *)
AttemptsIndependent ==
  \A w \in Workers : job[w].pc = "exec" /\ job[w].step = 1 /\ RpcError = "none" =>
    anvils[Server].chain = <<>> /\ anvils[Server].base = job[w].anchor

(* Between scans no anvil runs and the fields are clear: a later scan       *)
(* cannot meet the port taken by an earlier one (the finally of analyze).   *)
AnvilIsStopped ==
  (\A w \in Workers : job[w].pc = "idle") => process = 0 /\ ~url /\ \A i \in Ids : anvils[i] = Gone

(* When every sale of a matrix was decided, its verdict is the one the      *)
(* token deserves by its own rule over the sizes tested.                    *)
Deserved(t) ==
  LET sizes == {SellAmount(Bought(t), m) : m \in SellModes}
      taxes == {100 * TaxPercent(t, n) : n \in sizes}
  IN IF \E n \in sizes : Restricts(t, Own(t), "sell", n) THEN "HONEYPOT_DETECTED"
     ELSE IF \E x \in taxes : x >= 9500 THEN "CRITICAL_RISK"
     ELSE IF \E x, y \in taxes : x >= 5000 \/ x - y >= 1000 THEN "HIGH_RISK" ELSE "LOW_RISK"
MatrixVerdict ==
  /\ report.verdict # "none"
  /\ \A r \in Sales(report.results) : r.class = "sell_blocked" \/ r.tax # None
  => report.verdict = Deserved(token)

(* A scan that starts ends: the start of anvil has a deadline, and so have  *)
(* its requests.                                                            *)
ScansEnd == \A w \in Workers : job[w].pc # "idle" ~> job[w].pc = "idle"
=============================================================================

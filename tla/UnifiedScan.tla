---------------------------- MODULE UnifiedScan -----------------------------
(***************************************************************************)
(* One scan by UnifiedRiskEngine.analyze (unified/engine.py): the shared   *)
(* anchor, then the static engine, the state fork and the heuristics, each *)
(* with the anchor that it resolves itself, then the combined report.      *)
(*                                                                         *)
(* The chain goes on meanwhile: blocks are added, and the last one may be  *)
(* replaced by another.  A block is its number and its version, and holds  *)
(* one transfer of the token.  A scan is of one token, whose code, market  *)
(* and pools stay as they are; StateFork models how the fork comes to its  *)
(* results, and the static engine is what it reports.                      *)
(***************************************************************************)
EXTENDS Intelligence

CONSTANTS
    Transfers,     \* transfers [from, to, amount] that a block may hold
    Observations,  \* what is read of a token: [code, logs, market, pools]
    Requests,      \* see Begin
    StaticRuns,    \* what the static engine may report: [status, findings]
    Window,        \* window_blocks
    MaxBlocks,     \* bound: length of the chain
    MaxReorgs      \* bound: replaced blocks

Moved == [from : Addresses, to : Addresses, amount : Nat]

ASSUME UnifiedScanAssumption ==
    /\ {Window, MaxBlocks} \subseteq Nat \ {0} /\ MaxReorgs \in Nat
    /\ Transfers \subseteq Moved
    /\ \A o \in Observations : {o.code.read, o.code.present} \subseteq BOOLEAN
    /\ \A o \in Observations : \A p \in o.market.pairs :
         /\ p \in Pairs /\ o.pools[p].supply \in Int
         /\ o.pools[p].log \in Seq([at : Nat, from : Addresses, to : Addresses, amount : Nat])
    /\ \A r \in Requests : r.block \in Nat
    /\ \A run \in StaticRuns :
         /\ run.status \in {"unknown", "partial", "complete"} /\ IsFiniteSet(run.findings)
         /\ \A f \in run.findings : f.severity \in {"informational", "low", "medium", "high", "critical"}

VARIABLES
    chain,    \* the canonical chain: [ver, transfer] of every block
    obs,      \* what there is to read of the token
    req,      \* the request
    pc,       \* the next part of the scan
    number,   \* effective_block_number, or 0 when there is none
    static, fork, heuristics,  \* EngineSummary of each engine
    features, \* what the heuristics read, until they score it
    report,   \* the report of the last scan, until the next one starts
    reorgs

unifiedVars == <<chain, obs, req, pc, number, static, fork, heuristics, features, report, reorgs>>
scan == <<req, number, static, fork, heuristics, features>>

---------------------------------------------------------------------------
(* The chain, and the balances that it gives. *)
LogOf(blocks, first, last) ==
    {[at |-> i, from |-> blocks[i].transfer.from, to |-> blocks[i].transfer.to,
      amount |-> blocks[i].transfer.amount] : i \in (DOMAIN blocks) \cap (first..last)}
Balance(blocks, last, a) == Snapshot(LogOf(blocks, 1, last))[a]
Possible(blocks, t) == t.from # Zero => Balance(blocks, Len(blocks), t.from) >= t.amount
Mint(t) == t.from = Zero

Block(n) == <<n, chain[n].ver>>
NoBlock == <<0, 0>>
(* The block a tag names; the safe one is never replaced. *)
TagNumber(tag) == IF tag = "safe" /\ Len(chain) > 1 THEN Len(chain) - 1 ELSE Len(chain)

(* A summary; a score is in hundredths, or NoScore. *)
NoScore == -1
Scores == {NoScore} \cup 0..10000
Summary(status, score, cov, anchor) == [status |-> status, score |-> score, cov |-> cov, anchor |-> anchor]
Absent == Summary("unknown", NoScore, 0, NoBlock)
NoStatic == Joined([findings |-> {}], Absent)
NoFork == Joined([result |-> "none"], Absent)
NoHeuristics == Joined([findings |-> {}, held |-> <<>>, buyers |-> 0], Absent)
NoFeatures == <<>>
NoReport == [status |-> "none", verdict |-> "none"]
NoRequest == [project |-> FALSE, fork |-> "none", chain |-> FALSE, token |-> FALSE,
              block |-> 0, tag |-> "safe", deployer |-> {}, foreign |-> FALSE]

UnifiedTypeOK ==
    /\ chain \in Seq([ver : 0..MaxReorgs, transfer : Transfers]) /\ Len(chain) \in 1..MaxBlocks
    /\ obs \in Observations /\ req \in Requests \cup {NoRequest}
    /\ pc \in {"idle", "anchor", "static", "fork", "heuristics", "read", "score", "combine"}
    /\ number \in Nat
    /\ \A e \in {static, fork, heuristics} :
         /\ e.status \in {"unknown", "partial", "complete"}
         /\ e.score \in Scores /\ e.cov \in 0..Full
         /\ e.anchor \in (0..MaxBlocks) \X (0..MaxReorgs)
    /\ \A n \in DOMAIN features : features[n].cov \in 0..Full
    /\ report.status \in {"none", "failed", "unknown", "partial", "complete"}
    /\ reorgs \in 0..MaxReorgs

UnifiedInit ==
    /\ \E t \in Transfers : Mint(t) /\ chain = <<[ver |-> 0, transfer |-> t]>>
    /\ obs \in Observations
    /\ req = NoRequest /\ pc = "idle" /\ number = 0
    /\ static = NoStatic /\ fork = NoFork /\ heuristics = NoHeuristics
    /\ features = NoFeatures /\ report = NoReport /\ reorgs = 0

Grow ==
    /\ Len(chain) < MaxBlocks
    /\ \E t \in Transfers :
         Possible(chain, t) /\ chain' = Append(chain, [ver |-> 0, transfer |-> t])
    /\ UNCHANGED <<obs, pc, report, reorgs, scan>>
Reorg ==
    /\ Len(chain) > 1 /\ reorgs < MaxReorgs /\ reorgs' = reorgs + 1
    /\ \E t \in Transfers :
         /\ Possible(Front(chain), t)
         /\ chain' = [chain EXCEPT ![Len(chain)] = [ver |-> reorgs + 1, transfer |-> t]]
    /\ UNCHANGED <<obs, pc, report, scan>>

---------------------------------------------------------------------------
(* A request may name a project, scenarios or a sequence for the fork, a    *)
(* chain and a token, a block or a tag, and the deployer; its network may   *)
(* differ from the one the engines are set up for.                          *)
Begin ==
    /\ pc = "idle" /\ pc' = "anchor"
    /\ req' \in Requests /\ number' = 0
    /\ static' = NoStatic /\ fork' = NoFork /\ heuristics' = NoHeuristics
    /\ report' = NoReport
    /\ UNCHANGED <<chain, obs, features, reorgs>>

(* The shared anchor fixes the number for the engines that follow; when the *)
(* probe fails each of them resolves the tag.                               *)
Anchor ==
    /\ pc = "anchor" /\ pc' = "static"
    /\ \/ number' = req.block
       \/ req.block = 0 /\ req.chain /\ number' = TagNumber(req.tag)
    /\ UNCHANGED <<chain, obs, req, static, fork, heuristics, features, report, reorgs>>

(* The severity of a finding decides its part of the score. *)
Severity == [informational |-> 0, low |-> 800, medium |-> 1800, high |-> 3200, critical |-> 5000]
StaticScore(findings) == Min({10000, MapThenSumSet(LAMBDA f : Severity[f.severity], findings)})
StaticRun ==
    /\ pc = "static" /\ pc' = "fork"
    /\ IF ~req.project THEN UNCHANGED static
       ELSE \E run \in StaticRuns :
              static' = Joined([findings |-> run.findings],
                               Summary(run.status, StaticScore(run.findings),
                                       IF run.status = "complete" THEN Full ELSE 0, NoBlock))
    /\ UNCHANGED <<chain, obs, req, number, fork, heuristics, features, report, reorgs>>

\* Mutant: the engines resolve the tag, whatever the shared anchor found.
EngineNumberOfTag == TagNumber(req.tag)

(* The block an engine anchors at: its number is looked up again. *)
EngineNumber == IF number # 0 THEN number ELSE TagNumber(req.tag)
Anchored == EngineNumber \in DOMAIN chain
Abort == pc' = "idle" /\ report' = [NoReport EXCEPT !.status = "failed"]

(* _fork_score, of one result of the fork. *)
ForkResults(kind) ==
    IF kind = "sequence" THEN {"sell_blocked", "sell_succeeded", "buy_failed", "unknown"}
    ELSE {"reverted", "success", "unknown"}
ForkScore(result) ==
    CASE result = "sell_blocked" -> 7000
      [] result = "reverted" -> 2000
      [] OTHER -> 0
ForkRun ==
    /\ pc = "fork"
    /\ \/ req.fork = "none" /\ pc' = "heuristics" /\ UNCHANGED <<fork, report>>
       \* No capability or no anchor; or no anvil.
       \/ /\ req.fork # "none" /\ pc' = "heuristics"
          /\ \/ fork' = NoFork
             \/ Anchored /\ ~req.foreign /\ fork' = [NoFork EXCEPT !.anchor = Block(EngineNumber)]
          /\ UNCHANGED report
       \/ /\ req.fork # "none" /\ Anchored /\ ~req.foreign /\ pc' = "heuristics"
          /\ \E result \in ForkResults(req.fork) :
               fork' = Joined([result |-> result],
                              IF result = "unknown" THEN Summary("partial", 0, 0, Block(EngineNumber))
                              ELSE Summary("complete", ForkScore(result), Full, Block(EngineNumber)))
          /\ UNCHANGED report
       \* A request to anvil fails; for another network the fork is no AnvilFork.
       \/ req.fork # "none" /\ Anchored /\ Abort /\ UNCHANGED fork
    /\ UNCHANGED <<chain, obs, req, number, static, heuristics, features, reorgs>>

Observable == req.chain /\ req.token

(* HeuristicsEngine.analyze: without an anchor its score is zero and not    *)
(* missing.                                                                 *)
HeuristicsAnchor ==
    /\ pc = "heuristics"
    /\ \/ ~Observable /\ pc' = "combine" /\ UNCHANGED heuristics
       \/ Observable /\ pc' = "combine" /\ heuristics' = [NoHeuristics EXCEPT !.score = 0]
       \/ /\ Observable /\ Anchored /\ pc' = "read"
          /\ heuristics' = [NoHeuristics EXCEPT !.anchor = Block(EngineNumber)]
    /\ UNCHANGED <<chain, obs, req, number, static, fork, features, report, reorgs>>

\* Mutant: the log is read to the head.
WindowToHead(last) == LogOf(chain, last - Window, Len(chain))

(* The transfers of the window that ends at the anchor. *)
WindowLog(last) == LogOf(chain, last - Window, last)

(* holder_snapshot, of the addresses with a positive balance. *)
Holdings(log) == LET balance == Snapshot(log) IN [a \in Positive(log) |-> balance[a]]

(* The features of what is read; an unreadable log has none. *)
HeuristicsRead ==
    /\ pc = "read" /\ pc' = "score"
    /\ LET log == IF obs.logs THEN WindowLog(heuristics.anchor[1]) ELSE {}
           code == IF obs.code.read THEN CodeFeatures(obs.code) ELSE <<>>
           counted == IF obs.logs THEN [log_count_window |-> Feature(Cardinality(log), Full)] ELSE <<>>
           intel == IntelFeatures(log, obs.logs, obs.market, obs.pools, req.deployer)
       IN /\ features' = Joined(Joined(MarketFeatures(obs.market), intel), Joined(code, counted))
          /\ heuristics' = [heuristics EXCEPT !.held = Holdings(log)]
    /\ UNCHANGED <<chain, obs, req, number, static, fork, report, reorgs>>

(* RuleEngine.score, and what it and the intelligence say of the status. *)
HeuristicsScore ==
    /\ pc = "score" /\ pc' = "combine"
    /\ LET s == Score(features)
           doubt == \/ ~obs.code.read \/ s.unknowns # {}
                    \/ IntelUnknown(obs.logs, obs.market, obs.pools)
           status == IF s.cov = 0 THEN "unknown" ELSE IF s.cov >= 500 /\ ~doubt THEN "complete" ELSE "partial"
       IN heuristics' =
            Joined([findings |-> Findings(features, req.deployer), held |-> heuristics.held,
                    buyers |-> features["unique_buyers"].value],
                   Summary(status, s.score, s.cov, heuristics.anchor))
    /\ features' = NoFeatures
    /\ UNCHANGED <<chain, obs, req, number, static, fork, report, reorgs>>

---------------------------------------------------------------------------
(* _combine: the weighted mean of the scores there are; the coverage is     *)
(* that of all engines.                                                     *)
Engines == <<static, fork, heuristics>>
Weight == <<30, 40, 30>>
Available == {i \in 1..3 : Engines[i].score # NoScore}
Weighted(value, S) == MapThenSumSet(LAMBDA i : Weight[i] * value[i], S)
Coverages == [i \in 1..3 |-> Engines[i].cov]
Whole(S) == MapThenSumSet(LAMBDA i : Weight[i], S)

\* Mutant: an engine that was not asked for counts as covered.
CoveredByAvailable(S) ==
    IF S = {} THEN 0
    ELSE Round(Weighted(Coverages, S), Whole(S))

Covered(S) == Round(Weighted(Coverages, 1..3), Whole(1..3))

Band ==
    LET scores == [i \in 1..3 |-> Engines[i].score]
        Reaches(points) == Weighted(scores, Available) >= 100 * points * Whole(Available)
    IN IF Available = {} THEN "UNVERIFIED"
       ELSE IF Reaches(70) THEN "CRITICAL_RISK"
       ELSE IF Reaches(45) THEN "HIGH_RISK"
       ELSE IF Reaches(20) THEN "MEDIUM_RISK" ELSE "LOW_RISK"

(* _anchor_consistency. *)
Consistent(anchors) == \A a, b \in anchors : a = b

Anchors == {Engines[i].anchor : i \in 1..3} \ {NoBlock}

(* _hard_verdicts. *)
SellBlocked == fork.result = "sell_blocked"
StaticCritical == \E f \in static.findings : f.severity = "critical"

(* _correlate: signals of two engines that support each other. *)
Correlations ==
    LET Static(topics) == \E f \in static.findings : f.topic \in topics
        Intel(rules) == heuristics.findings \cap rules # {}
    IN {c \in {"static-mint-deployer", "static-transfer-holder", "fork-market-honeypot",
               "fork-history-honeypot", "lp-privilege"} :
         CASE c = "static-mint-deployer" ->
                Static({"mint"}) /\ Intel({"deployer.high_supply_control", "lp.candidate_control"})
           [] c = "static-transfer-holder" -> Static({"transfer"}) /\ Intel({"holders.top20_concentration"})
           [] c = "fork-market-honeypot" ->
                /\ SellBlocked /\ heuristics.anchor # NoBlock
                /\ ~obs.market.error /\ obs.market.pairs # {}
           [] c = "fork-history-honeypot" -> SellBlocked /\ heuristics.buyers > 0
           [] OTHER -> Intel({"lp.candidate_control"}) /\ Static({"owner"})}

(* _derive_verdict. *)
Verdict(status, coverage) ==
    IF SellBlocked THEN "HONEYPOT_DETECTED"
    ELSE IF StaticCritical THEN "CRITICAL_RISK"
    ELSE IF status = "unknown" \/ coverage < Full \div 2 THEN "UNVERIFIED" ELSE Band

Combine ==
    /\ pc = "combine" /\ pc' = "idle"
    /\ LET states == {Engines[i].status : i \in 1..3}
           status == IF states = {"complete"} THEN "complete"
                     ELSE IF states \cap {"complete", "partial"} # {} THEN "partial" ELSE "unknown"
           agreed == Consistent(Anchors)
           final == IF agreed \/ status = "unknown" THEN status ELSE "partial"
           coverage == IF agreed THEN Covered(Available) ELSE Round(3 * Covered(Available), 4)
       IN report' = [status |-> final, verdict |-> Verdict(final, coverage),
                     trusted |-> IF agreed THEN Correlations ELSE {}]
    /\ UNCHANGED <<chain, obs, reorgs, scan>>

Scan == Begin \/ Anchor \/ StaticRun \/ ForkRun \/ HeuristicsAnchor \/ HeuristicsRead \/
        HeuristicsScore \/ Combine
UnifiedNext == Grow \/ Reorg \/ Scan
UnifiedSpec == UnifiedInit /\ [][UnifiedNext]_unifiedVars

---------------------------------------------------------------------------
Reported == report.status \notin {"none", "failed"}

(* A score alone gives no verdict: unless a sale was blocked or a critical  *)
(* finding made, two engines have seen something of the token, whatever the *)
(* request left out or an engine could not do (the coverage of _combine and *)
(* _derive_verdict).                                                        *)
NoVerdictFromOneEngine ==
    Reported /\ report.verdict # "UNVERIFIED" /\ ~SellBlocked /\ ~StaticCritical =>
        Cardinality({i \in 1..3 : Engines[i].cov > 0}) >= 2

(* A scan of a safe block speaks of that block in all its parts, although   *)
(* each engine looks the block up again, the logs are read by number and    *)
(* without its hash, and the chain goes on in between: every anchor of the  *)
(* report is the block at the number that the shared anchor fixed, as it    *)
(* still is in the chain, and the holders are those of the transfers that   *)
(* the chain holds in the window that ends at the anchor (the shared probe  *)
(* of analyze and get_logs).                                                *)
SafeScanIsOneBlock ==
    LET last == heuristics.anchor[1]
    IN Reported /\ req.block = 0 /\ req.tag = "safe" =>
        /\ number # 0 => Anchors \subseteq {Block(number)}
        /\ heuristics.anchor # NoBlock /\ obs.logs =>
             heuristics.held = Holdings(LogOf(chain, last - Window, last))

(* A token that was seen to have no code is never reported as low risk,     *)
(* however well the other engines speak of it (the hard block of            *)
(* RuleEngine.score under the weights of _combine).                         *)
NoCodeIsNeverLow ==
    Reported /\ heuristics.status # "unknown" /\ obs.code.read /\ ~obs.code.present =>
        report.verdict # "LOW_RISK"

(* The holders are reconstructed from the transfers of a window, and yet    *)
(* nobody is reported with more than he holds at the anchor, as long as     *)
(* that block stays (holder_snapshot, _holder_intelligence).                *)
HoldingsNotOverstated ==
    Reported /\ req.block = 0 /\ req.tag = "safe" =>
        \A a \in DOMAIN heuristics.held :
            heuristics.held[a] <= Balance(chain, heuristics.anchor[1], a)
=============================================================================

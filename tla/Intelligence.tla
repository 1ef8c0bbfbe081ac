---------------------------- MODULE Intelligence ----------------------------
(***************************************************************************)
(* What IntelligenceAnalyzer (heuristics/intelligence.py) makes of the     *)
(* transfers of a token in a window of blocks, and of the LP token of each *)
(* pair: holders, clusters, history, the deployer, liquidity, the features *)
(* and the findings.                                                       *)
(*                                                                         *)
(* A transfer is a record [at, from, to, amount], with one transfer in a   *)
(* block; an LP log is a sequence of transfers.  A share is a pair         *)
(* <<part, whole>>, and is absent when the whole is zero.                  *)
(***************************************************************************)
EXTENDS RiskScore, Graphs

CONSTANTS
    Zero, Dead,     \* the burn addresses
    Pairs,          \* the pairs the market may name
    Wallets,
    TopSmall, TopLarge, \* ranks of the two concentrations: 10 and 20
    FanoutWallets,  \* recipients that make a fan-out: 3
    FanoutBlocks    \* the blocks they fit in: 3

ASSUME IntelligenceAssumption ==
    /\ {TopSmall, TopLarge, FanoutWallets} \subseteq Nat \ {0} /\ FanoutBlocks \in Nat
    /\ TopSmall < TopLarge
    /\ IsFiniteSet(Wallets \cup Pairs)

Burn == {Zero, Dead}
Addresses == Wallets \cup Pairs \cup Burn

---------------------------------------------------------------------------
(* TransferLedger.holder_snapshot: what came in less what went out. *)
Total(transfers) == MapThenSumSet(LAMBDA t : t.amount, transfers)
In(log, a) == Total({t \in log : t.to = a})
Out(log, a) == Total({t \in log : t.from = a})
Snapshot(log) == [a \in Addresses \ {Zero} |-> In(log, a) - Out(log, a)]

(* Only positive balances count. *)
Positive(log) == LET s == Snapshot(log) IN {a \in DOMAIN s : s[a] > 0}
Held(log, S) == LET s == Snapshot(log) IN MapThenSumSet(LAMBDA a : s[a], S \cap Positive(log))
Share(part, whole) == IF whole <= 0 THEN Missing(0) ELSE Feature(<<part, whole>>, Full)

(* The k largest balances of some addresses. *)
Largest(log, S, k) ==
    IF Cardinality(S) <= k THEN Held(log, S)
    ELSE Max({Held(log, T) : T \in kSubset(k, S)})

(* _holder_intelligence leaves out the pairs and the burn addresses. *)
Holders(log, pairs) == (Positive(log) \ Burn) \ pairs
Mints(log) == {t \in log : t.from = Zero}
Candidates(log) == {t.to : t \in {m \in Mints(log) : \A x \in Mints(log) : m.at <= x.at}}

HolderFeatures(log, pairs) ==
    LET holders == Holders(log, pairs)
        total == Held(log, holders)
        Top(k) == Share(Largest(log, holders, k), total)
    IN [holder_count |-> Feature(Cardinality(holders), Full),
        adjusted_total |-> Feature(total, Full),
        pair_balance |-> Feature(Held(log, pairs), Full),
        burn_balance |-> Feature(Held(log, Burn), Full),
        top10_concentration |-> Top(TopSmall),
        top20_concentration |-> Top(TopLarge),
        top50_concentration |-> Top(TopLarge),
        top100_concentration |-> Top(TopLarge),
        deployer_candidate_share |->
            IF Candidates(log) = {} THEN Missing(0)
            ELSE Share(Held(log, Candidates(log) \cap holders), total),
        probed_contract_holder_share |->
            IF holders = {} THEN Missing(0) ELSE Feature(<<0, 1>>, Full)]

(* _historical_behavior: who bought from a pair and who sold to one. *)
Buyers(log, pairs) == {t.to : t \in {x \in log : x.from \in pairs /\ x.to \notin Burn}}
Sellers(log, pairs) == {t.from : t \in {x \in log : x.to \in pairs /\ x.from \notin Burn}}
HistoryFeatures(log, pairs) ==
    [transfer_count |-> Feature(Cardinality(log), Full),
     unique_buyers |-> Feature(Cardinality(Buyers(log, pairs)), Full),
     unique_sellers |-> Feature(Cardinality(Sellers(log, pairs)), Full),
     round_trip_wallets |-> Feature(Cardinality(Buyers(log, pairs) \cap Sellers(log, pairs)), Full)]

(* _wallet_clusters: the wallets that transfers between wallets connect. *)
Clusters(log, pairs) ==
    LET direct == {t \in log : {t.from, t.to} \cap (Burn \cup pairs) = {}}
        nodes == UNION {{t.from, t.to} : t \in direct}
        graph == [node |-> nodes, edge |-> {e \in nodes \X nodes :
                                               \E t \in direct : {t.from, t.to} = {e[1], e[2]}}]
        connected == ConnectionsIn(graph)
    IN {{b \in nodes : connected[a, b]} : a \in nodes}
(* A fan-out comes from any address that is not a burn address, also a pair. *)
Fanouts(log) ==
    {a \in Addresses \ Burn :
        LET sent == {t \in log : t.from = a}
            reached == {t \in sent : t.to \notin Burn}
            blocks == {t.at : t \in reached}
        IN /\ Cardinality(sent) >= FanoutWallets
           /\ Cardinality({t.to : t \in reached}) >= FanoutWallets
           /\ Max(blocks) - Min(blocks) <= FanoutBlocks}
ClusterFeatures(log, pairs) ==
    LET clusters == Clusters(log, pairs)
    IN [cluster_count |-> Feature(Cardinality(clusters), Full),
        largest_supply_share |->
            IF clusters = {} THEN Missing(0)
            ELSE Share(Max({Held(log, c) : c \in clusters}), Held(log, Holders(log, pairs))),
        coordinated_fanout_bursts |-> Feature(Cardinality(Fanouts(log)), Full)]

(* _deployer_intelligence: here the whole includes the pairs and the burnt. *)
DeployerFeatures(log, deployer) ==
    [creator_verified |-> Feature(deployer # {}, Full),
     candidate_supply_share |->
         Share(Held(log, Candidates(log) \cup deployer), Held(log, Positive(log)))]

---------------------------------------------------------------------------
(* _analyze_pair_lp on a pool, a record [state, supply, log]: the pair may  *)
(* not answer, its tokens or reserves may be unreadable, and so its log; an *)
(* unreadable supply is -1.                                                 *)
PoolLog(pool) == {[pool.log[i] EXCEPT !.at = i] : i \in DOMAIN pool.log}
Analyzed(pools, pairs) == {p \in pairs : pools[p].state # "fails"}
PoolCoverage(pool) ==
    LET held == Held(PoolLog(pool), Positive(PoolLog(pool)))
    IN IF pool.supply > 0 THEN Min({Full, Round(Full * held, pool.supply)})
       ELSE IF pool.supply = 0 /\ pool.log = <<>> THEN Full ELSE Full \div 2
PoolUnknown(pool) == pool.state # "read"

(* The largest of some shares; absent shares do not count. *)
MaxShare(shares) ==
    LET known == {s \in shares : s.known}
    IN IF known = {} THEN Missing(0)
       ELSE CHOOSE s \in known : \A x \in known :
              s.value[1] * x.value[2] >= x.value[1] * s.value[2]

(* _liquidity_summary, which covers what the pools cover on average. *)
LiquidityFeatures(pools, pairs, candidates) ==
    LET analyzed == Analyzed(pools, pairs)
        L(p) == PoolLog(pools[p])
        Largest1(p) == Largest(L(p), Positive(L(p)), 1)
        mean == IF analyzed = {} THEN 0
                ELSE MeanOf(MapThenSumSet(LAMBDA p : PoolCoverage(pools[p]), analyzed), Cardinality(analyzed))
        shares == [max_lp_top1_share |->
                       MaxShare({Share(Largest1(p), Held(L(p), Positive(L(p)))) : p \in analyzed}),
                   max_lp_candidate_share |->
                       MaxShare({Share(Held(L(p), candidates), pools[p].supply) : p \in analyzed}),
                   max_lp_burned_share |->
                       MaxShare({Share(Held(L(p), Burn), pools[p].supply) : p \in analyzed})]
        counted == [pair_count_analyzed |-> Feature(Cardinality(analyzed), mean)]
        covered == IF analyzed = {} THEN <<>> ELSE [lp_distribution_coverage |-> Feature(mean, mean)]
    IN Joined(counted, Joined(covered, [n \in DOMAIN shares |-> [shares[n] EXCEPT !.cov = mean]]))

---------------------------------------------------------------------------
(* analyze: without a readable log every part but the liquidity covers      *)
(* nothing.  A feature without a value is not made.                         *)
Made(features) == [n \in {x \in DOMAIN features : features[x].known} |-> features[n]]
Uncovered(features, available) ==
    IF available THEN features ELSE [n \in DOMAIN features |-> [features[n] EXCEPT !.cov = 0]]

(* The mean of five coverages; the fifth is that of the market. *)
IntelCoverage(available, market, analyzed) ==
    LET log == IF available THEN Full ELSE 0
        pools == IF analyzed # {} THEN Full ELSE IF market.error THEN 0 ELSE Full \div 2
    IN MeanOf(4 * log + pools, 5)

IntelFeatures(log, available, market, pools, deployer) ==
    LET pairs == IF market.error THEN {} ELSE market.pairs
        seen == IF available THEN log ELSE {}
        coverage == IntelCoverage(available, market, Analyzed(pools, pairs))
        ledger == Joined(Joined(HolderFeatures(seen, pairs), HistoryFeatures(seen, pairs)),
                         Joined(ClusterFeatures(seen, pairs), DeployerFeatures(seen, deployer)))
        liquidity == LiquidityFeatures(pools, pairs, Candidates(seen) \cup deployer)
    IN Joined(Joined(Uncovered(Made(ledger), available), Made(liquidity)),
              [intelligence_coverage |-> Feature(coverage, coverage)])

(* The intelligence has an unknown when the log or a pool is not read. *)
IntelUnknown(available, market, pools) ==
    \/ ~available
    \/ \E p \in market.pairs : ~market.error /\ PoolUnknown(pools[p])

(* The findings that a correlation of the report may use. *)
Findings(f, deployer) ==
    LET Has(n, percent) == n \in DOMAIN f /\ AtLeast(f[n].value, percent)
    IN {x \in {"holders.top20_concentration", "lp.candidate_control", "deployer.high_supply_control",
               "history.no_observed_sellers"} :
         CASE x = "holders.top20_concentration" -> Has("top20_concentration", 80)
           [] x = "lp.candidate_control" -> Has("max_lp_candidate_share", 25)
           [] x = "deployer.high_supply_control" -> deployer # {} /\ Has("candidate_supply_share", 25)
           [] OTHER -> /\ f["unique_buyers"].value >= MinBuyers /\ f["unique_sellers"].value = 0
                       /\ f["transfer_count"].value >= MinTransfers}
=============================================================================

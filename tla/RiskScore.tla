----------------------------- MODULE RiskScore ------------------------------
(***************************************************************************)
(* The heuristic score of a token: the features read from the market and   *)
(* the bytecode (heuristics/features.py), the rules with the weights of    *)
(* policies/score-v0.4.json, and RuleEngine.score (heuristics/rules.py).   *)
(*                                                                         *)
(* A feature is a record [known, value, cov]; coverages are in             *)
(* thousandths, contributions in ten-thousandths of a point, scores in     *)
(* hundredths.  The confidence of the features a rule needs is the one its *)
(* source always has.  No rule of the policy has an expiry date.           *)
(***************************************************************************)
EXTENDS Integers, Sequences, SequencesExt, FiniteSetsExt

CONSTANTS
    MinHoldersTop10, MinHoldersTop20,  \* holders from which concentration counts
    MinBuyers, MinTransfers            \* history from which missing sellers count

ASSUME RiskScoreAssumption ==
    {MinHoldersTop10, MinHoldersTop20, MinBuyers, MinTransfers} \subseteq Nat \ {0}

Full == 1000
Feature(value, cov) == [known |-> TRUE, value |-> value, cov |-> cov]
Missing(cov) == [known |-> FALSE, value |-> 0, cov |-> cov]

(* What f has, and what g has beside. *)
Joined(f, g) == [n \in DOMAIN f \cup DOMAIN g |-> IF n \in DOMAIN f THEN f[n] ELSE g[n]]

(* round(): to the nearest integer, a half to the even one. *)
Round(a, b) ==
    LET q == a \div b
        r == 2 * (a % b)
    IN IF r > b \/ (r = b /\ q % 2 = 1) THEN q + 1 ELSE q

(* The mean of some coverages, for one or more of them. *)
MeanOf(sum, count) == Round(sum, count)

---------------------------------------------------------------------------
(* extract_market_features: one feature counts the pairs, ten describe them. *)
MarketNames == {"best_liquidity_usd", "volume_h24_usd", "buys_h24", "sells_h24",
                "pairs_with_buys_h24", "pairs_with_sells_h24", "sell_buy_ratio_h24",
                "price_min_usd", "price_max_usd", "pair_age_hours"}
MarketFeatures(market) ==
    LET cov == IF market.error THEN 0 ELSE Full
        counted == IF market.error THEN Missing(cov) ELSE Feature(Cardinality(market.pairs), cov)
        described == IF market.error \/ market.pairs = {} THEN {} ELSE MarketNames
    IN Joined([pair_count |-> counted],
              [n \in described |->
                  IF n \in DOMAIN market.is THEN Feature(market.is[n], cov) ELSE Missing(cov)])

(* The features of a bytecode, and of the profile made of it; empty code is *)
(* profiled too.                                                            *)
CodeTraits == {"delegatecall_present", "selfdestruct_pattern", "time_or_block_logic", "proxy_detected"}
OtherTraits == {"byte_length", "external_call_present", "storage_write_present", "owner_observed",
                "admin_observed", "fingerprint_count", "deferred_behavior_signal"}
CodeFeatures(code) ==
    Joined([token_has_code |-> Feature(code.present, Full)],
           Joined([n \in CodeTraits |-> Feature(n \in code.traits, Full)],
                  [n \in OtherTraits |-> Feature(0, Full)]))

---------------------------------------------------------------------------
(* The families: the most one may contribute, and the confidence in percent *)
(* of the features that its rules need.                                     *)
Cap == [chain |-> 45, clusters |-> 20, contract |-> 45, deployer |-> 25,
        historical |-> 20, holders |-> 30, liquidity |-> 30, market |-> 55]
Families == DOMAIN Cap
Confidence == [clusters |-> 82, deployer |-> 86, historical |-> 88, holders |-> 93,
               liquidity |-> 84, market |-> 88]

(* A rule; its factor is the confidence factor of a calibrated one, or none. *)
Calibrated(id, family, weight, factor, needs, optional) ==
    [id |-> id, family |-> family, raw |-> weight * factor * Confidence[family],
     needs |-> needs, optional |-> optional]
Fixed(id, family, weight, needs) ==
    [id |-> id, family |-> family, raw |-> weight * 10000, needs |-> needs, optional |-> FALSE]
MarketRules == {
    Calibrated("no_pair", "market", 5, 65, {"pair_count"}, FALSE),
    Calibrated("low_liquidity", "market", 6, 70, {"best_liquidity_usd"}, FALSE),
    Calibrated("sell_activity_absent", "market", 6, 75,
               {"pair_count", "buys_h24", "sells_h24", "pair_age_hours"}, TRUE),
    Calibrated("price_divergence", "market", 4, 70,
               {"pair_count", "price_min_usd", "price_max_usd"}, TRUE)}
CodeRules == {
    Fixed("no_contract_code", "chain", 45, {"token_has_code"}),
    Fixed("selfdestruct_pattern", "contract", 15, {"selfdestruct_pattern"}),
    Fixed("delegatecall_pattern", "contract", 6, {"delegatecall_present"}),
    Fixed("time_or_block_logic", "contract", 3, {"time_or_block_logic"}),
    Fixed("proxy_detected", "contract", 4, {"proxy_detected"})}
HolderRules == {
    Calibrated("top20_concentration", "holders", 18, 90, {"top20_concentration", "holder_count"}, TRUE),
    Calibrated("top10_concentration", "holders", 12, 85, {"top10_concentration", "holder_count"}, TRUE),
    Calibrated("candidate_supply_concentration", "deployer", 12, 90, {"candidate_supply_share"}, TRUE)}
PoolRules == {
    Calibrated("lp_top1_concentration", "liquidity", 15, 90, {"max_lp_top1_share"}, TRUE),
    Calibrated("lp_candidate_control", "liquidity", 15, 90, {"max_lp_candidate_share"}, TRUE)}
HistoryRules == {
    Calibrated("large_supply_cluster", "clusters", 12, 85, {"largest_supply_share"}, TRUE),
    Calibrated("coordinated_fanout", "clusters", 8, 75, {"coordinated_fanout_bursts"}, TRUE),
    Calibrated("no_observed_sellers", "historical", 12, 70,
               {"unique_buyers", "unique_sellers", "transfer_count"}, TRUE)}
Rules == MarketRules \cup CodeRules \cup HolderRules \cup PoolRules \cup HistoryRules

(* A ratio is a pair <<part, whole>> with a positive whole. *)
AtLeast(ratio, percent) == 100 * ratio[1] >= percent * ratio[2]

(* The evaluators, of a rule whose features are all known. *)
Triggered(id, f) ==
    LET V(n) == f[n].value
    IN CASE id = "no_pair" -> V("pair_count") = 0
         [] id = "low_liquidity" -> V("best_liquidity_usd") < 10000
         [] id = "sell_activity_absent" ->
              V("pair_count") > 0 /\ V("buys_h24") >= 10 /\ V("sells_h24") = 0 /\ V("pair_age_hours") >= 6
         [] id = "price_divergence" ->
              V("pair_count") >= 2 /\ 100 * (V("price_max_usd") - V("price_min_usd")) > 25 * V("price_min_usd")
         [] id = "no_contract_code" -> ~V("token_has_code")
         [] id = "selfdestruct_pattern" -> V("selfdestruct_pattern")
         [] id = "delegatecall_pattern" -> V("delegatecall_present")
         [] id = "time_or_block_logic" -> V("time_or_block_logic")
         [] id = "proxy_detected" -> V("proxy_detected")
         [] id = "top20_concentration" ->
              V("holder_count") >= MinHoldersTop20 /\ AtLeast(V("top20_concentration"), 80)
         [] id = "top10_concentration" ->
              /\ V("holder_count") >= MinHoldersTop10
              /\ AtLeast(V("top10_concentration"), 60) /\ ~AtLeast(V("top20_concentration"), 80)
         [] id = "lp_top1_concentration" -> AtLeast(V("max_lp_top1_share"), 70)
         [] id = "lp_candidate_control" -> AtLeast(V("max_lp_candidate_share"), 25)
         [] id = "candidate_supply_concentration" -> AtLeast(V("candidate_supply_share"), 40)
         [] id = "large_supply_cluster" -> AtLeast(V("largest_supply_share"), 50)
         [] id = "coordinated_fanout" -> V("coordinated_fanout_bursts") >= 1
         [] id = "no_observed_sellers" ->
              V("unique_buyers") >= MinBuyers /\ V("unique_sellers") = 0 /\ V("transfer_count") >= MinTransfers

Evaluable(rule, f) == \A n \in rule.needs : n \in DOMAIN f /\ f[n].known
Fired(rules, f) == {rule \in rules : Evaluable(rule, f) /\ Triggered(rule.id, f)}
(* A rule that is not optional and cannot be evaluated leaves an unknown. *)
Unknowns(f) == {rule.id : rule \in {r \in Rules : ~r.optional /\ ~Evaluable(r, f)}}

(* What a family adds, in hundredths of a point. *)
FamilyScore(family, f) ==
    LET fired == Fired({r \in Rules : r.family = family}, f)
    IN Min({MapThenSumSet(LAMBDA rule : rule.raw, fired), Cap[family] * 10000})

\* Mutant: the missing code counts with its weight only.
HardBlockedNever(f) == FALSE /\ f = <<>>

HardBlocked(f) == Fired({r \in Rules : r.id = "no_contract_code"}, f) # {}

(* The features are a list in the code; a function has each of them once. *)
Coverage(f) == MeanOf(MapThenSumSet(LAMBDA n : f[n].cov, DOMAIN f), Cardinality(DOMAIN f))
Score(f) ==
    LET total == MapThenSumSet(LAMBDA family : FamilyScore(family, f), Families)
    IN [score |-> IF HardBlocked(f) THEN 10000 ELSE Min({10000, Round(total, 100)}),
        cov |-> Coverage(f),
        unknowns |-> Unknowns(f)]
=============================================================================

---------------------------- MODULE TradeMatrix ----------------------------
(***************************************************************************)
(* What the trade matrix concludes from its attempts: the sale sizes of    *)
(* trade_builder, the tax a sale paid (trade_analysis), the hard signals   *)
(* and the verdict (AnvilFork.run_trade_matrix, _trade_verdict).  An       *)
(* attempt is a record [mode, class, tax]; tax is in basis points, or None *)
(* when no positive transfer to the pair was observed.  The token of the   *)
(* model fixes what the chain does; it is not part of the program.         *)
(***************************************************************************)
EXTENDS Integers, Sequences, SequencesExt, FiniteSetsExt

None == -1
Bps == 10000

(* The sizes the plan sells at, and the order of the modes. *)
Fraction == [baseline |-> 10000, micro_sell |-> 1000, small_sell |-> 2500,
             partial_sell |-> 5000, sell_all |-> 10000]
SellModes == DOMAIN Fraction
Modes == <<"baseline", "micro_sell", "small_sell", "partial_sell", "sell_all",
           "transfer_only">>

(* The amount a mode sells of what the buy brought; zero raises. *)
SellAmount(bought, mode) == (bought * Fraction[mode]) \div Bps

(* round(): to the nearest integer, a half to the even one. *)
Round(a, b) ==
    LET q == a \div b
        r == 2 * (a % b)
    IN IF r > b \/ (r = b /\ q % 2 = 1) THEN q + 1 ELSE q

\* Mutant: what the pair kept in place of what the sale lost.
SellRetained(requested, received) ==
    IF requested <= 0 \/ received <= 0 \/ received > requested THEN None
    ELSE Round(received * Bps, requested)

(* effective_tax_bps, counted only when the pair received something. *)
SellTax(requested, received) ==
    IF requested <= 0 \/ received <= 0 \/ received > requested THEN None
    ELSE Round((requested - received) * Bps, requested)

(* _failure_cause: the first kind of words that the revert text contains. *)
Cause(status, text) ==
    IF status = "success" THEN "none"
    ELSE IF "balance" \in text THEN "balance_or_allowance"
    ELSE IF "router" \in text THEN "router_or_pair"
    ELSE IF "panic" \in text THEN "contract_panic"
    ELSE IF "token" \in text THEN "token_restriction"
    ELSE IF status = "reverted" THEN "unknown_revert" ELSE "unknown"

\* Mutant: every reverted sale is a blocked one.
SellClassAny(status, cause) ==
    CASE status = "success" -> "sell_succeeded"
      [] status = "reverted" -> "sell_blocked"
      [] OTHER -> "unknown"

(* The sale's own failure cause decides; every other revert stays unknown. *)
SellClass(status, cause) ==
    CASE status = "success" -> "sell_succeeded"
      [] status = "reverted" /\ cause = "token_restriction" -> "sell_blocked"
      [] OTHER -> "unknown"

TransferClass(status, cause) ==
    CASE status = "success" -> "transfer_succeeded"
      [] status = "reverted" /\ cause = "token_restriction" -> "transfer_blocked"
      [] OTHER -> "unknown"

---------------------------------------------------------------------------
(* The attempts a signal is about. *)
Sales(attempts) == {a \in ToSet(attempts) : a.mode \in SellModes}
Taxed(attempts) == {a \in Sales(attempts) : a.tax # None}

TaxSignals(attempts) ==
    {[id |-> "tax", severity |-> IF a.tax >= 9500 THEN "critical" ELSE "high"] :
        a \in {b \in Taxed(attempts) : b.tax >= 5000}}

(* The tax at the smallest size tested against the tax at the largest. *)
DynamicTax(attempts) ==
    LET T == Taxed(attempts)
        Size(a) == Fraction[a.mode]
        low  == CHOOSE a \in T : \A b \in T : Size(a) <= Size(b)
        high == CHOOSE a \in T : \A b \in T : Size(a) >= Size(b)
    IN IF Cardinality(T) >= 2 /\ (high.tax - low.tax >= 1000 \/ low.tax - high.tax >= 1000)
       THEN {[id |-> "tax", severity |-> "high"]} ELSE {}

Sold(attempts, class) == {a \in Sales(attempts) : a.class = class}
HoneypotSignals(attempts) ==
    {[id |-> "honeypot", severity |-> "critical"] : a \in Sold(attempts, "sell_blocked")}

(* A small sale passes where a larger one is blocked. *)
ThresholdSignal(attempts) ==
    {[id |-> "honeypot", severity |-> "critical"] :
        p \in {q \in Sold(attempts, "sell_succeeded") \X Sold(attempts, "sell_blocked") :
                 Fraction[q[1].mode] < Fraction[q[2].mode]}}

HardSignals(attempts) ==
    UNION {HoneypotSignals(attempts), TaxSignals(attempts), DynamicTax(attempts),
           ThresholdSignal(attempts)}

(* One unknown attempt makes the matrix partial. *)
MatrixStatus(attempts) ==
    CASE attempts = <<>> -> "unknown"
      [] \E a \in ToSet(attempts) : a.class = "unknown" -> "partial"
      [] OTHER -> "complete"

(* The gravest signal decides; without one, only an empty run is unverified. *)
TradeVerdict(status, signals) ==
    LET grave(severity) == \E s \in signals : s.severity = severity
    IN IF [id |-> "honeypot", severity |-> "critical"] \in signals THEN "HONEYPOT_DETECTED"
       ELSE IF grave("critical") THEN "CRITICAL_RISK"
       ELSE IF grave("high") THEN "HIGH_RISK"
       ELSE IF status = "unknown" THEN "UNVERIFIED" ELSE "LOW_RISK"
=============================================================================

-------------------------- MODULE MCUnifiedScan ---------------------------
(***************************************************************************)
(* A small instance of UnifiedScan: two wallets and a pair, four transfers,*)
(* and the tokens, requests and static reports that lead to every answer.  *)
(***************************************************************************)
EXTENDS UnifiedScan, TLC

CONSTANTS a, b, p

T(from, to, amount) == [from |-> from, to |-> to, amount |-> amount]
MCTransfers == {T(Zero, a, 2), T(a, b, 1), T(a, p, 1), T(b, Dead, 1)}

(* Markets: unreadable, without a pair, thin, and a busy one nobody sells to. *)
NoMarket == [error |-> TRUE, pairs |-> {}, is |-> <<>>]
NoPairs == [error |-> FALSE, pairs |-> {}, is |-> <<>>]
Market(values) == [error |-> FALSE, pairs |-> {p}, is |-> values]
Healthy == [best_liquidity_usd |-> 50000, volume_h24_usd |-> 9000, buys_h24 |-> 20,
            sells_h24 |-> 15, price_min_usd |-> 10, price_max_usd |-> 11, pair_age_hours |-> 48]
Thin == [Healthy EXCEPT !.best_liquidity_usd = 100, !.sells_h24 = 0]

(* Bytecodes and pools. *)
Code(read, present, traits) == [read |-> read, present |-> present, traits |-> traits]
Plain == Code(TRUE, TRUE, {})
Wicked == Code(TRUE, TRUE, {"selfdestruct_pattern", "delegatecall_present", "proxy_detected"})
Lp(from, to, amount) == [at |-> 0, from |-> from, to |-> to, amount |-> amount]
Pool(state, supply, log) == p :> [state |-> state, supply |-> supply, log |-> log]
GoodPool == Pool("read", 4, <<Lp(Zero, b, 3), Lp(Zero, Dead, 1)>>)
HeldPool == Pool("read", 2, <<Lp(Zero, a, 2)>>)

Token(code, logs, market, pools) == [code |-> code, logs |-> logs, market |-> market, pools |-> pools]
MCObservations == {
    Token(Plain, TRUE, Market(Healthy), GoodPool),
    Token(Wicked, TRUE, Market(Thin), HeldPool),
    Token(Code(TRUE, FALSE, {}), TRUE, Market(Healthy), GoodPool),
    Token(Code(FALSE, FALSE, {}), FALSE, NoMarket, GoodPool),
    Token(Plain, TRUE, NoPairs, Pool("fails", -1, <<>>)),
    Token(Plain, FALSE, Market(Thin), Pool("unread", -1, <<>>))}

Ask == [NoRequest EXCEPT !.project = TRUE, !.fork = "sequence", !.chain = TRUE, !.token = TRUE,
                      !.deployer = {a}]
MCRequests == {
    Ask, [Ask EXCEPT !.tag = "latest"], [Ask EXCEPT !.block = 2, !.fork = "scenarios"],
    [Ask EXCEPT !.project = FALSE, !.fork = "none", !.deployer = {}],
    [Ask EXCEPT !.token = FALSE, !.foreign = TRUE], [Ask EXCEPT !.chain = FALSE]}

Found(severity, topic) == [severity |-> severity, topic |-> topic]
MCStaticRuns == {
    [status |-> "complete", findings |-> {}],
    [status |-> "complete", findings |-> {Found("high", "mint"), Found("medium", "owner"), Found("low", "transfer")}],
    [status |-> "complete", findings |-> {Found("critical", "other")}],
    [status |-> "unknown", findings |-> {}]}
=============================================================================

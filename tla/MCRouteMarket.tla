---------------------------- MODULE MCRouteMarket ----------------------------
EXTENDS RouteMarket

\* Three pools of the same pair: the sides the venues list the anchor on, the
\* side Raydium's creator is paid on and PumpSwap's fee tiers all vary.
RaydiumPool(creatorFeeOn, enabled) ==
    [venue |-> "raydium", pool_id |-> 1, slot |-> 0,
     mint_0 |-> "anchor", mint_1 |-> "token",
     effective |-> [m \in {"anchor", "token"} |-> IF m = "anchor" THEN 40 ELSE 25],
     creator_fee_on |-> creatorFeeOn, enable_creator_fee |-> enabled,
     trade_fee_rate |-> 1, protocol_fee_rate |-> 9, fund_fee_rate |-> 7,
     creator_fee_rate |-> 2]

PumpSwapPool(anchorIsQuote, canonical, creator) ==
    [venue |-> "pumpswap", pool_id |-> 2, slot |-> 0,
     base_mint |-> IF anchorIsQuote THEN "token" ELSE "anchor",
     quote_mint |-> IF anchorIsQuote THEN "anchor" ELSE "token",
     base |-> 30, quote |-> 50, supply |-> 60, tradable |-> TRUE,
     canonical |-> canonical, coin_creator |-> creator,
     flat |-> [lp |-> 1, protocol |-> 1, creator |-> 1],
     tiers |-> <<[threshold |-> 60, fees |-> [lp |-> 2, protocol |-> 1, creator |-> 3]],
                 [threshold |-> 110, fees |-> [lp |-> 0, protocol |-> 1, creator |-> 2]]>>]

Core(tokenIn, out) ==
    [token_in |-> tokenIn, est_out |-> out, min_out |-> out, trade_fee |-> 0]

OrcaPool ==
    [venue |-> "orca", pool_id |-> 3, slot |-> 0, mint_a |-> "anchor", mint_b |-> "token",
     library |-> [m \in {"anchor", "token"} |-> {Core(4, 3), Core(9, 6), Core(3, 0)}]]

MCMarkets ==
    {<<RaydiumPool(raydium[1], raydium[2]), PumpSwapPool(pump[1], pump[2], pump[3]), OrcaPool>> :
        raydium \in {<<0, TRUE>>, <<1, TRUE>>, <<2, TRUE>>, <<0, FALSE>>},
        pump \in {<<TRUE, TRUE, "set">>, <<FALSE, FALSE, "default">>}}

PriceOf(price, confidence, exponent, age) ==
    [genuine |-> TRUE, price |-> price, confidence |-> confidence, exponent |-> exponent,
     posted_slot |-> 1, rpc_slot |-> 1, publish_time |-> 5 - age]

\* USDC is priced too loosely at first, and USDT is known to a decimal more than
\* SOL; then SOL is known to a decimal more than USDC, and USDT is stale.
MCPriceAccounts ==
    {[WSOL |-> PriceOf(7, 1, 0, 0), USDC |-> PriceOf(10, 3, -1, 2), USDT |-> PriceOf(31, 2, -1, 1)],
     [WSOL |-> PriceOf(53, 9, -1, -1), USDC |-> PriceOf(1, 0, 0, 2), USDT |-> PriceOf(3, 0, 1, 3)]}

MCSampleSets == {<< >>, <<0, 0>>, <<9, 0, 2, 2, 5>>, <<3, 1, 4, 1>>, <<70>>}
=============================================================================

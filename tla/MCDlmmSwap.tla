----------------------------- MODULE MCDlmmSwap -----------------------------
(***************************************************************************)
(* A small DLMM program: arrays of two bins with indexes -2 to 2, of which *)
(* the LbPair's own bitmap knows -1 to 1, prices in quarters and fees in   *)
(* thousandths.                                                            *)
(***************************************************************************)
EXTENDS DlmmSwap

MCMinIndex == -2
MCInternalMinIndex == -1

PriceOf(bin) == CASE bin < -2 -> 2 [] bin = -2 -> 3 [] bin = -1 -> 3 [] OTHER -> bin + 4

Bin(bin, x, y, ask, processed, open) ==
    [price |-> PriceOf(bin), amount_x |-> x, amount_y |-> y, limit_order_ask_side |-> ask,
     processed_order_remaining_amount |-> processed, open_order_amount |-> open]

\* Above the active bin there is X, below it Y, in some bins there are orders.
BinFor(bin, active) ==
    Bin(bin, IF bin < active THEN 0 ELSE 5, IF bin > active THEN 0 ELSE 4,
        bin >= active, IF bin % 3 = 0 THEN 2 ELSE 0, IF bin % 2 = 0 THEN 3 ELSE 0)

ArrayFor(index, active) ==
    [bin \in LowerBin(index) .. UpperBin(index) |-> BinFor(bin, active)]

Pair(active, mode, control) ==
    [active_id |-> active, collect_fee_mode |-> mode, base_factor |-> 1, bin_step |-> 1,
     base_fee_power_factor |-> 0, variable_fee_control |-> control, protocol_share |-> 5,
     max_volatility_accumulator |-> 35, volatility_accumulator |-> 20,
     volatility_reference |-> 10, index_reference |-> active + 1, last_update_timestamp |-> 0,
     filter_period |-> 2, decay_period |-> 4, reduction_factor |-> 5]

Pool(active, mode, control, bitmap, extension, now) ==
    [pair |-> Pair(active, mode, control), bitmap |-> bitmap, extension |-> extension,
     now |-> now,
     arrays |-> [i \in bitmap |-> ArrayFor(i, active)]]

\* One bin of the pool was never used and has no price yet.
Unpriced(pool, bin) ==
    [pool EXCEPT !.arrays[BinArrayIndex(bin)][bin] =
        [@ EXCEPT !.price = 0, !.amount_x = 0, !.amount_y = 0]]

\* Nothing in the account says that a share is at most the whole.
Greedy(pool) == [pool EXCEPT !.pair.protocol_share = 25]

\* A bin far above what the others hold, and at a price of its own.
Stuffed(pool, bin, x, y, price) ==
    [pool EXCEPT !.arrays[BinArrayIndex(bin)][bin] =
        [@ EXCEPT !.amount_x = x, !.amount_y = y, !.price = price]]

\* Fields no account has to keep small.
Powerful(pool) == [pool EXCEPT !.pair.base_fee_power_factor = 6]

Agitated(pool) == [pool EXCEPT !.pair.reduction_factor = 600]

MCPoolStates ==
    { Pool(0, 0, 3, {-1, 0, 1}, FALSE, 1),
      Pool(1, 1, 3, {-1, 0, 1}, FALSE, 3),
      Pool(-1, 0, 0, {-2, -1, 1, 2}, TRUE, 5),
      Pool(2, 0, 90, {-1, 1}, TRUE, 3),
      Pool(6, 0, 0, {0}, TRUE, 3),
      Pool(1, 2, 0, {0}, FALSE, 3),
      Unpriced(Pool(0, 0, 3, {-1, 0, 1}, FALSE, 1), 2),
      Greedy(Pool(1, 1, 3, {-1, 0, 1}, FALSE, 3)),
      Stuffed(Pool(0, 0, 3, {-1, 0}, FALSE, 1), 0, 900, 1020, 400),
      Stuffed(Pool(1, 0, 0, {-1, 0}, FALSE, 1), 0, 0, 1020, 400),
      Powerful(Pool(0, 1, 3, {-1, 0, 1}, FALSE, 1)),
      Agitated(Pool(0, 0, 3, {0}, FALSE, 3)) }

Own(name) ==
    [reserve_x |-> Key("reserve_x"), reserve_y |-> Key("reserve_y"), oracle |-> Key("oracle"),
     user |-> Key("user"), user_token_in |-> Key("user_in"), user_token_out |-> Key("user_out"),
     token_x_program |-> Key("spl_token"), token_y_program |-> Key(name)]

\* Both tokens of one program, of two programs, an oracle of another pool, and a
\* caller who mixes up accounts.
MCProvided ==
    { Own("spl_token"), Own("token_2022"), Own("memo_program"),
      [Own("token_2022") EXCEPT !.oracle = Key("other_oracle")],
      [Own("spl_token") EXCEPT !.user_token_out = Key("reserve_x")] }

\* No table, one that also lists the payer and the program, one that repeats itself.
MCLookupTables ==
    { {},
      {<<Key("mint_y"), Key("user"), Key("oracle"), Key("dlmm_program"), ArrayKey(0),
         Key("lb_pair"), Key("spl_token")>>},
      {<<Key("mint_x"), Key("mint_x")>>} }
=============================================================================

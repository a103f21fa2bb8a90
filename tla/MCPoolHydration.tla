-------------------------- MODULE MCPoolHydration --------------------------
(***************************************************************************)
(* A few worlds for each venue: the pool, the pool after a trade, and what *)
(* a reader must not take for it or not mix with it.                       *)
(***************************************************************************)
EXTENDS PoolHydration

Vault(n) == Key("vault", n)
Mint(n) == Key("mint", n)

TokenAccount(owner, n, amount) ==
    [owner |-> owner, executable |-> FALSE, layout |-> "TokenAccount", mint |-> Mint(n),
     amount |-> amount]

MintOf(owner, decimals, extensions) ==
    [owner |-> owner, executable |-> FALSE, layout |-> "Mint", initialized |-> TRUE,
     extensions |-> extensions, decimals |-> decimals, supply |-> 90,
     older_fee |-> [epoch |-> 0, bps |-> 1], newer_fee |-> [epoch |-> 2, bps |-> 3]]

Clock(slot, time, epoch) ==
    [owner |-> "sysvar", executable |-> FALSE, layout |-> "Clock", slot |-> slot,
     unix_timestamp |-> time, epoch |-> epoch]

Tokens(a, b) == Mint(1) :> MintOf("spl_token", 9, <<>>) @@ Mint(2) :> MintOf("spl_token", 6, <<>>)
    @@ Vault(1) :> TokenAccount("spl_token", 1, a) @@ Vault(2) :> TokenAccount("spl_token", 2, b)

-----------------------------------------------------------------------------
Raydium(a, b, pool) == PoolKey :> pool @@ Tokens(a, b)
    @@ Vault(3) :> TokenAccount("spl_token", 1, 5) @@ Vault(4) :> TokenAccount("spl_token", 2, 6)
    @@ Key("config", 1) :> [owner |-> "raydium_cpmm", executable |-> FALSE, layout |-> "AmmConfig"]

RaydiumAt == [owner |-> "raydium_cpmm", executable |-> FALSE, layout |-> "PoolState",
    amm_config |-> Key("config", 1), vault |-> <<Vault(1), Vault(2)>>,
    mint |-> <<Mint(1), Mint(2)>>, program |-> <<"spl_token", "spl_token">>,
    decimals |-> <<9, 6>>, observation_key |-> Key("observation", 1),
    protocol_fees |-> <<1, 0>>, fund_fees |-> <<0, 1>>, creator_fees |-> <<1, 0>>,
    swap_disabled |-> FALSE, open_time |-> 0]

RaydiumWorlds ==
    { Raydium(10, 8, RaydiumAt),
      Raydium(14, 6, [RaydiumAt EXCEPT !.protocol_fees = <<2, 1>>]),
      Raydium(3, 8, [RaydiumAt EXCEPT !.fund_fees = <<1, 9>>]),
      Raydium(10, 8, [RaydiumAt EXCEPT !.swap_disabled = TRUE]),
      Raydium(10, 8, [RaydiumAt EXCEPT !.open_time = 2]),
      Raydium(10, 8, [RaydiumAt EXCEPT !.vault = <<Vault(3), Vault(4)>>]),
      Tokens(10, 8) }

-----------------------------------------------------------------------------
Fees(total) == [lp |-> total, protocol |-> 1, creator |-> 0]

Config(tier) == [owner |-> "pump_fees", executable |-> FALSE, layout |-> "FeeConfig",
    bump |-> 1, flat_fees |-> Fees(3),
    fee_tiers |-> <<[threshold |-> 0, fees |-> Fees(1)], [threshold |-> tier, fees |-> Fees(2)]>>,
    stable_fee_tiers |-> <<>>]

PumpSwap(a, b, pool, flags, tier) == PoolKey :> pool @@ Tokens(a, b)
    @@ GlobalConfig :> [owner |-> "pumpswap", executable |-> FALSE, layout |-> "GlobalConfig",
                        disable_flags |-> flags]
    @@ FeeConfig :> Config(tier)

PumpSwapAt == [owner |-> "pumpswap", executable |-> FALSE, layout |-> "Pool", identity |-> 1,
    mint |-> <<Mint(1), Mint(2)>>, vault |-> <<Vault(1), Vault(2)>>,
    virtual_quote_reserves |-> 2]

PumpSwapWorlds ==
    { PumpSwap(10, 8, PumpSwapAt, {}, 5),
      PumpSwap(6, 12, [PumpSwapAt EXCEPT !.virtual_quote_reserves = 0], {"deposit"}, 6),
      PumpSwap(10, 2, [PumpSwapAt EXCEPT !.virtual_quote_reserves = -3], {}, 5),
      PumpSwap(10, 8, PumpSwapAt, {"sell"}, 5),
      PumpSwap(10, 8, [PumpSwapAt EXCEPT !.identity = 2], {}, 5),
      [PumpSwap(10, 8, PumpSwapAt, {}, 5) EXCEPT ![Mint(1)] =
          MintOf("token_2022", 9, <<"MetadataPointer", "TransferHook">>)],
      PumpSwap(10, 8, PumpSwapAt, {}, -1) }

-----------------------------------------------------------------------------
MCAnchorMints == {Mint(2)}

OrcaAt(tick) == [owner |-> "orca", executable |-> FALSE, layout |-> "Whirlpool",
    whirlpools_config |-> 1, tick_spacing |-> 1, fee_tier_index_seed |-> 1,
    mint |-> <<Mint(1), Mint(2)>>, vault |-> <<Vault(1), Vault(2)>>,
    tick_current_index |-> tick]

TickArray(start, ticks) == [owner |-> "orca", executable |-> FALSE, layout |-> "FixedTickArray",
    whirlpool |-> PoolKey, start_tick_index |-> start, ticks |-> ticks]

Dynamic(start, ticks, bitmap) ==
    [owner |-> "orca", executable |-> FALSE, layout |-> "DynamicTickArray",
     whirlpool |-> PoolKey, start_tick_index |-> start, ticks |-> ticks, bitmap |-> bitmap,
     tagged |-> bitmap \cap {0, 1}]

Orca(pool, ticks, epoch) == PoolKey :> pool @@ Tokens(0, 0) @@ ClockSysvar :> Clock(1, 7, epoch)
    @@ TickArrayKey(0) :> TickArray(0, ticks) @@ TickArrayKey(2) :> Dynamic(2, "far ticks", {1})

FeeMint == MintOf("token_2022", 9, <<"TransferFeeConfig", "MetadataPointer", "Uninitialized">>)

OrcaWorlds ==
    { [Orca(OrcaAt(0), "ticks", 1) EXCEPT ![Mint(1)] = FeeMint],
      [Orca(OrcaAt(1), "more ticks", 2) EXCEPT ![Mint(1)] = FeeMint],
      Orca(OrcaAt(2), "ticks", 1),
      Orca(OrcaAt(-1), "ticks", 1),
      Orca([OrcaAt(0) EXCEPT !.fee_tier_index_seed = 2], "ticks", 1),
      [Orca(OrcaAt(0), "ticks", 1) EXCEPT ![TickArrayKey(2)] = Dynamic(2, "far ticks", {1, 2})],
      Orca([OrcaAt(0) EXCEPT !.mint = <<Mint(1), Mint(1)>>], "ticks", 1),
      [Orca(OrcaAt(0), "ticks", 1) EXCEPT ![Mint(1)] = MintOf("token_2022", 9, <<"TransferHook">>)] }

-----------------------------------------------------------------------------
MCMinIndex == -2
MCInternalMinIndex == -1

MeteoraAt(active, bitmap) == [owner |-> "meteora", executable |-> FALSE, layout |-> "LbPair",
    pair_type |-> "Permission", status |-> "Enabled", activation_type |-> "Timestamp",
    activation_point |-> 2, function_type |-> "LimitOrder", has_rewards |-> FALSE,
    program |-> <<"spl_token", "spl_token">>, mint |-> <<Mint(1), Mint(2)>>,
    reserve |-> <<ReserveKey(Mint(1)), ReserveKey(Mint(2))>>, oracle |-> MeteoraOracleKey,
    active_id |-> active, bitmap |-> bitmap]

BinArray(index, bins) == [owner |-> "meteora", executable |-> FALSE, layout |-> "BinArray",
    version |-> 2, index |-> index, lb_pair |-> PoolKey, bins |-> bins]

Meteora(pool, bins, time) == PoolKey :> pool @@ Tokens(0, 0) @@ MeteoraClock :> Clock(4, time, 0)
    @@ BinArrayKey(-1) :> BinArray(-1, "bins") @@ BinArrayKey(0) :> BinArray(0, bins)
    @@ BinArrayKey(1) :> BinArray(1, "bins") @@ BinArrayKey(2) :> BinArray(2, "far bins")

Extended(world, bits) == world @@ BitmapExtensionKey :>
    [owner |-> "meteora", executable |-> FALSE, layout |-> "BitmapExtension", lb_pair |-> PoolKey,
     bits |-> bits]

MeteoraWorlds ==
    { Meteora(MeteoraAt(0, {0, 1}), "bins", 3),
      Meteora(MeteoraAt(1, {0, 1}), "other bins", 3),
      Meteora(MeteoraAt(1, {-1, 0, 1}), "bins", 3),
      Extended(Meteora(MeteoraAt(2, {-1, 0, 1}), "bins", 3), {2}),
      Meteora(MeteoraAt(0, {0, 1}), "bins", 1),
      Meteora(MeteoraAt(4, {0, 1}), "bins", 3) }

MCWorlds == [v \in {"Raydium", "PumpSwap", "Orca", "Meteora"} |->
    CASE v = "Raydium" -> RaydiumWorlds [] v = "PumpSwap" -> PumpSwapWorlds
      [] v = "Orca" -> OrcaWorlds [] v = "Meteora" -> MeteoraWorlds]
=============================================================================

---------------------------- MODULE PoolReadings ----------------------------
(***************************************************************************)
(* What a pool is at a slot, said of the chain alone: the accounts that    *)
(* its account names, wherever they are, and what they hold.  Nothing here *)
(* comes from how the readers in RaydiumPool, PumpSwapPool, OrcaPool and   *)
(* MeteoraPool go about it; a world holds one pool, at ThePool.            *)
(***************************************************************************)
EXTENDS PoolAccounts, DlmmArrays

CONSTANTS
    Span,       \* ticks of an Orca tick array for a tick spacing of one
    MaxPlanned  \* arrays of a Meteora pool that a quote may need in a direction

ThePool == Key("pool", 1)

PoolWith(world, layout) == {p \in Lookup(world, ThePool) : p.layout = layout}

Token(mint, vault, decimals) == [mint |-> mint, vault |-> vault, decimals |-> decimals]

\* Both accounts that a pool names on its two sides.
Both(world, keys) ==
    {<<a, b>> : a \in Lookup(world, keys[1]), b \in Lookup(world, keys[2])}

RaydiumReadings(world, now) ==
    UNION {{[token |-> [i \in Sides |-> Token(p.mint[i], p.vault[i], p.decimals[i])],
             raw |-> [i \in Sides |-> v[i].amount
                         - (p.protocol_fees[i] + p.fund_fees[i] + p.creator_fees[i])]] :
              v \in {w \in Both(world, p.vault) : \A i \in Sides :
                        /\ w[i].mint = p.mint[i]
                        /\ w[i].amount > p.protocol_fees[i] + p.fund_fees[i] + p.creator_fees[i]}} :
           p \in {q \in PoolWith(world, "PoolState") : ~ q.swap_disabled /\ q.open_time <= now}}

PumpSwapReadings(world) ==
    UNION {{[token |-> [i \in Sides |-> Token(p.mint[i], p.vault[i], m[i].decimals)],
             raw |-> <<v[1].amount, v[2].amount + p.virtual_quote_reserves>>,
             fees |-> <<c.flat_fees, c.fee_tiers, c.stable_fee_tiers>>] :
              v \in {w \in Both(world, p.vault) :
                        /\ \A i \in Sides : w[i].mint = p.mint[i]
                        /\ w[1].amount > 0
                        /\ w[2].amount + p.virtual_quote_reserves > 0},
              m \in Both(world, p.mint),
              c \in Lookup(world, Key("pumpswap_fee_config", 0)),
              g \in {f \in Lookup(world, Key("pumpswap_global_config", 0)) :
                        f.disable_flags \cap {"buy", "sell"} = {}}} :
           p \in PoolWith(world, "Pool")}

\* The five tick arrays nearest to the price.
Ticks(world, pool) ==
    LET width == pool.tick_spacing * Span
        middle == CHOOSE n \in pool.tick_current_index - width + 1 .. pool.tick_current_index :
                     n % width = 0
    IN  [start \in {middle + k * width : k \in -2 .. 2} |->
            {a.ticks : a \in Lookup(world, Key("tick_array", start))}]

\* A fee announced for an epoch holds from that epoch on.
TransferFee(mint, epoch) ==
    IF \E i \in DOMAIN mint.extensions : mint.extensions[i] = "TransferFeeConfig"
    THEN IF mint.newer_fee.epoch <= epoch THEN mint.newer_fee.bps ELSE mint.older_fee.bps
    ELSE 0

OrcaReadings(world) ==
    UNION {{[token |-> [i \in Sides |-> Token(p.mint[i], p.vault[i], m[i].decimals)],
             price |-> p.tick_current_index, ticks |-> Ticks(world, p),
             transfer_fee |-> [i \in Sides |-> TransferFee(m[i], c.epoch)],
             timestamp |-> c.unix_timestamp] :
              m \in Both(world, p.mint), c \in Lookup(world, Key("clock", 0))} :
           p \in PoolWith(world, "Whirlpool")}

\* Indexes between the active array and i, both of them counted.
Until(start, i) == IF i < start THEN i .. start ELSE start .. i

Needed(start, bits, known) ==
    {i \in bits : /\ Until(start, i) \subseteq known
                  /\ Cardinality(Until(start, i) \cap bits) <= MaxPlanned}

MeteoraReadings(world) ==
    UNION {{[token |-> [i \in Sides |-> Token(p.mint[i], p.reserve[i], m[i].decimals)],
             active_id |-> p.active_id,
             bins |-> [i \in Needed(BinArrayIndex(p.active_id),
                                    (p.bitmap \cap InternalIndexes) \cup UNION {e.bits : e \in x},
                                    IF x = {} THEN InternalIndexes ELSE Indexes) |->
                         {a.bins : a \in Lookup(world, Key("bin_array", i))}]] :
              m \in Both(world, p.mint),
              x \in {Lookup(world, Key("bitmap_extension", 0))},
              c \in {t \in Lookup(world, Key("clock", 0)) :
                        /\ p.pair_type \in {"Permission", "CustomizablePermissionless"}
                        /\ p.activation_point > 0
                        => p.activation_point <=
                            IF p.activation_type = "Slot" THEN t.slot ELSE t.unix_timestamp}} :
           p \in {q \in PoolWith(world, "LbPair") : q.status = "Enabled"}}

\* A reading is tagged with its venue, so that no two kinds are ever compared.
ReadingOf(world, now) ==
    {[venue |-> "Raydium", says |-> r] : r \in RaydiumReadings(world, now)} \cup
    {[venue |-> "PumpSwap", says |-> r] : r \in PumpSwapReadings(world)} \cup
    {[venue |-> "Orca", says |-> r] : r \in OrcaReadings(world)} \cup
    {[venue |-> "Meteora", says |-> r] : r \in MeteoraReadings(world)}
=============================================================================

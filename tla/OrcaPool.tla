------------------------------ MODULE OrcaPool ------------------------------
(***************************************************************************)
(* Reading an Orca Whirlpool: orca_live.rs with orca.rs, orca_o2.rs and    *)
(* orca_o2_quote_inputs.rs.  Nine accounts are asked for at once: the pool *)
(* and its mints, the five tick arrays around the price that the           *)
(* notification showed, and the Clock, whose epoch decides which transfer  *)
(* fee of a Token-2022 mint is in force.  The swap mathematics is Orca's   *)
(* own library and stays outside.                                          *)
(***************************************************************************)
EXTENDS PoolAccounts

CONSTANTS
    TickArraySize,  \* TICK_ARRAY_SIZE, 88
    AnchorMints     \* wrapped SOL, USDC and USDT

ASSUME TickArrayAssumption == TickArraySize \in Nat \ {0}

ClockSysvar == Key("clock", 0)
TickArrayKey(start) == Key("tick_array", start)
OracleKey == Key("orca_oracle", 0)

HasAnchor(pool) ==
    \E side \in Sides : pool.mint[side] \in AnchorMints /\ pool.mint[3 - side] # pool.mint[side]

IsAdaptiveFee(pool) == pool.fee_tier_index_seed # pool.tick_spacing

\* bounded_tick_array_start_indexes; \div rounds down as Orca's library does.
TickArrayStarts(pool) ==
    LET width == pool.tick_spacing * TickArraySize
        current == (pool.tick_current_index \div width) * width
    IN  <<current, current + width, current + 2 * width, current - width, current - 2 * width>>

OrcaKeys(trigger) ==
    <<trigger.pool>> \o trigger.state.mint
        \o [i \in 1 .. 5 |-> TickArrayKey(TickArrayStarts(trigger.state)[i])]
        \o <<ClockSysvar>>

OrcaPoolState(account) == Decoded(account, "orca", "Whirlpool")

SameWhirlpool(trigger, snapshot) ==
    /\ trigger.whirlpools_config = snapshot.whirlpools_config
    /\ trigger.tick_spacing = snapshot.tick_spacing
    /\ trigger.fee_tier_index_seed = snapshot.fee_tier_index_seed
    /\ trigger.mint = snapshot.mint
    /\ trigger.vault = snapshot.vault

OrcaClock(account) ==
    {c \in Decoded(account, "sysvar", "Clock") : c.unix_timestamp >= 0}

FeeInForce(mint, epoch) ==
    IF epoch >= mint.newer_fee.epoch THEN mint.newer_fee.bps ELSE mint.older_fee.bps

TransferFeeAccepted(mint) ==
    ExtendedBy(mint, {"TransferFeeConfig", "MetadataPointer", "TokenMetadata"})

HasTransferFee(mint) ==
    \E i \in ExtensionsRead(mint) : mint.extensions[i] = "TransferFeeConfig"

\* transfer_fee_for_mint: a transfer hook, an unknown or a repeated extension
\* is refused; without a TransferFeeConfig there is no fee.
TransferFees(account, epoch) ==
    LET mints == {m \in account : m.layout = "Mint" /\ m.initialized}
    IN  {0 : m \in {n \in mints : n.owner = "spl_token"}} \cup
        {IF HasTransferFee(m) THEN FeeInForce(m, epoch) ELSE 0 :
            m \in {n \in mints :
                    /\ n.owner = "token_2022"
                    /\ TransferFeeAccepted(n)
                    /\ HasTransferFee(n) =>
                         n.older_fee.bps <= MaxFeeBps /\ n.newer_fee.bps <= MaxFeeBps}}

NoTicks == "no ticks"

FixedTicks(account, pool, start) ==
    {a.ticks : a \in {b \in Decoded(account, "orca", "FixedTickArray") :
                          b.whirlpool = pool /\ b.start_tick_index = start}}

\* Only the ticks of its bitmap are stored, and each says once more whether it is.
DynamicTicks(account, pool, start) ==
    {a.ticks : a \in {b \in Decoded(account, "orca", "DynamicTickArray") :
                          /\ b.whirlpool = pool /\ b.start_tick_index = start
                          /\ b.bitmap \subseteq 0 .. TickArraySize - 1
                          /\ b.tagged = b.bitmap}}

\* An array nobody has opened has no initialized tick.
TickArrayOrZero(account, pool, start) ==
    IF account = {} THEN {NoTicks}
    ELSE FixedTicks(account, pool, start) \cup DynamicTicks(account, pool, start)

TickArrays(trigger, reply) ==
    LET starts == TickArrayStarts(trigger.state)
        found(i) == TickArrayOrZero(reply.accounts[3 + i], trigger.pool, starts[i])
    IN  IF \A i \in 1 .. 5 : found(i) # {}
        THEN {[i \in 1 .. 5 |-> CHOOSE ticks \in found(i) : TRUE]} ELSE {}

Contention(trigger, pool) ==
    <<trigger.pool>> \o pool.vault
        \o [i \in 1 .. 5 |-> TickArrayKey(TickArrayStarts(trigger.state)[i])] \o <<OracleKey>>

\* `quotable` says whether Orca's library quotes both directions above zero.
ParseOrca(trigger, reply, quotable) ==
    IF \/ IsAdaptiveFee(trigger.state) \/ trigger.state.tick_spacing = 0
       \/ reply.slot < trigger.slot \/ reply.slot = 0
       \/ Len(reply.accounts) # 9
       \/ ~ quotable
    THEN {}
    ELSE UNION
      { { [slot |-> reply.slot, pool_state |-> pool, decimals |-> <<m1.decimals, m2.decimals>>,
           tick_arrays |-> arrays, timestamp |-> clock.unix_timestamp,
           transfer_fee |-> <<fee1, fee2>>, contention |-> Contention(trigger, pool)] :
            fee1 \in TransferFees(reply.accounts[2], clock.epoch),
            fee2 \in TransferFees(reply.accounts[3], clock.epoch),
            m1 \in reply.accounts[2], m2 \in reply.accounts[3],
            arrays \in TickArrays(trigger, reply) } :
        pool \in {p \in OrcaPoolState(reply.accounts[1]) :
                    /\ SameWhirlpool(trigger.state, p)
                    /\ TickArrayStarts(p) = TickArrayStarts(trigger.state)
                    /\ p.mint[1] # p.mint[2]},
        clock \in OrcaClock(reply.accounts[9]) }

OrcaNormalized(trigger, snapshot) ==
    [pool |-> trigger.pool, slot |-> trigger.slot,
     token |-> [side \in Sides |-> [mint |-> snapshot.pool_state.mint[side],
                                    vault |-> snapshot.pool_state.vault[side],
                                    decimals |-> snapshot.decimals[side]]],
     trading_state |-> "Tradable"]

HydrateOrca(trigger, reply, quotable) ==
    {[normalized |-> OrcaNormalized(trigger, snapshot), context |-> snapshot] :
        snapshot \in ParseOrca(trigger, reply, quotable)}
=============================================================================

----------------------------- MODULE RaydiumPool -----------------------------
(***************************************************************************)
(* Reading a Raydium CPMM pool: raydium.rs from the accounts it asks for   *)
(* to the normalized pool.  The normalized pool is put together from the   *)
(* notification (tokens, slot) and the accounts read for it (reserves,     *)
(* status); verify_pool_identity is what makes it one pool's.              *)
(***************************************************************************)
EXTENDS PoolAccounts

RaydiumKeys(trigger) ==
    <<trigger.pool, trigger.state.amm_config>> \o trigger.state.vault \o trigger.state.mint

RaydiumData(account, program) == {a \in Owned(account, program) : ~ a.executable}

RaydiumPoolState(account) ==
    {p \in RaydiumData(account, "raydium_cpmm") : p.layout = "PoolState"}

RaydiumAmmConfig(account) ==
    {c \in RaydiumData(account, "raydium_cpmm") : c.layout = "AmmConfig"}

SameRaydiumPool(trigger, snapshot) ==
    /\ trigger.amm_config = snapshot.amm_config
    /\ trigger.vault = snapshot.vault
    /\ trigger.mint = snapshot.mint
    /\ trigger.program = snapshot.program
    /\ trigger.observation_key = snapshot.observation_key
    /\ trigger.decimals = snapshot.decimals

\* Fees the vault holds for others.
Accrued(pool, side) ==
    pool.protocol_fees[side] + pool.fund_fees[side] + pool.creator_fees[side]

VaultRaw(account, program, mint) ==
    {v.amount : v \in {a \in RaydiumData(account, program) :
                          a.layout = "TokenAccount" /\ a.mint = mint}}

EffectiveRaw(account, pool, side) ==
    {raw - Accrued(pool, side) :
        raw \in {r \in VaultRaw(account, pool.program[side], pool.mint[side]) :
                    Accrued(pool, side) <= MaxU64 /\ Accrued(pool, side) <= r}}

RaydiumMintAccepted(account, program) ==
    \E m \in RaydiumData(account, program) : program \in TokenPrograms /\ SupportedMint(m)

ParseRaydium(trigger, reply) ==
    IF reply.slot < trigger.slot \/ Len(reply.accounts) # 6 \/ ~ NoneMissing(reply) THEN {}
    ELSE UNION
      { { [slot |-> reply.slot, pool_state |-> pool, amm_config |-> config,
           effective |-> <<a, b>>] :
            config \in RaydiumAmmConfig(reply.accounts[2]),
            a \in EffectiveRaw(reply.accounts[3], pool, 1),
            b \in EffectiveRaw(reply.accounts[4], pool, 2) } :
        pool \in {p \in RaydiumPoolState(reply.accounts[1]) :
                    /\ SameRaydiumPool(trigger.state, p)
                    /\ \A side \in Sides :
                          RaydiumMintAccepted(reply.accounts[4 + side], p.program[side])} }

RaydiumTradingState(pool, now) ==
    IF pool.swap_disabled THEN "SwapDisabled"
    ELSE IF pool.open_time > now THEN "NotYetOpen"
    ELSE "Tradable"

RaydiumNormalized(trigger, snapshot, now) ==
    [pool |-> trigger.pool, slot |-> trigger.slot,
     token |-> [side \in Sides |-> [mint |-> trigger.state.mint[side],
                                    vault |-> trigger.state.vault[side],
                                    decimals |-> trigger.state.decimals[side]]],
     trading_state |-> RaydiumTradingState(snapshot.pool_state, now)]

HydrateRaydium(trigger, reply, now) ==
    {[normalized |-> RaydiumNormalized(trigger, snapshot, now), context |-> snapshot] :
        snapshot \in ParseRaydium(trigger, reply)}
=============================================================================

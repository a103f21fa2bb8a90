---------------------------- MODULE PumpSwapPool ----------------------------
(***************************************************************************)
(* Reading a PumpSwap pool: pumpswap.rs from the accounts it asks for to   *)
(* the normalized pool.  Whether it trades and what it costs is not in the *)
(* pool: the program's GlobalConfig and FeeConfig are read with it.        *)
(***************************************************************************)
EXTENDS PoolAccounts

CONSTANT FeeConfigBump

GlobalConfig == Key("pumpswap_global_config", 0)
FeeConfig == Key("pumpswap_fee_config", 0)

PumpSwapKeys(trigger) ==
    <<trigger.pool>> \o trigger.state.vault \o trigger.state.mint \o <<GlobalConfig, FeeConfig>>

\* A pool of an older length has no virtual reserves; one that ends inside a
\* later field is not decoded at all (its layout is another).
PumpSwapPoolState(account) == Decoded(account, "pumpswap", "Pool")

SamePumpSwapPool(trigger, snapshot) ==
    /\ trigger.identity = snapshot.identity
    /\ trigger.mint = snapshot.mint
    /\ trigger.vault = snapshot.vault

PumpSwapMint(account) ==
    {m \in account : /\ m.owner \in TokenPrograms
                     /\ SupportedMint(m)
                     /\ m.layout = "Mint" /\ m.initialized}

PumpSwapVaultRaw(account, mintAccount, mint) ==
    {v.amount : v \in {a \in Decoded(account, mintAccount.owner, "TokenAccount") :
                          a.mint = mint}}

TotalFee(fees) == fees.lp + fees.protocol + fees.creator

FeeTiersAccepted(tiers) ==
    /\ \A i \in DOMAIN tiers : TotalFee(tiers[i].fees) <= MaxFeeBps
    /\ \A i \in 2 .. Len(tiers) : tiers[i].threshold >= tiers[i - 1].threshold

PumpSwapFeeConfig(account) ==
    {c \in Decoded(account, "pump_fees", "FeeConfig") :
        /\ c.bump = FeeConfigBump
        /\ TotalFee(c.flat_fees) <= MaxFeeBps
        /\ c.fee_tiers # <<>>
        /\ FeeTiersAccepted(c.fee_tiers)
        /\ FeeTiersAccepted(c.stable_fee_tiers)}

DisableFlags(account) ==
    {g.disable_flags : g \in Decoded(account, "pumpswap", "GlobalConfig")}

PumpSwapTradingState(flags) ==
    IF flags \cap {"buy", "sell"} # {} THEN "SwapDisabled" ELSE "Tradable"

\* The virtual reserves may be negative.
EffectiveQuote(raw, pool) ==
    {raw + pool.virtual_quote_reserves} \cap 0 .. MaxU64

ParsePumpSwap(trigger, reply) ==
    IF reply.slot < trigger.slot \/ Len(reply.accounts) # 7 \/ ~ NoneMissing(reply) THEN {}
    ELSE UNION
      { { [slot |-> reply.slot, pool_state |-> pool, effective |-> <<base, effective>>,
           supply |-> m1.supply, decimals |-> <<m1.decimals, m2.decimals>>,
           trading_state |-> PumpSwapTradingState(flags), fee_config |-> fees] :
            base \in PumpSwapVaultRaw(reply.accounts[2], m1, pool.mint[1]),
            effective \in UNION {EffectiveQuote(raw, pool) :
                raw \in PumpSwapVaultRaw(reply.accounts[3], m2, pool.mint[2])},
            flags \in DisableFlags(reply.accounts[6]),
            fees \in PumpSwapFeeConfig(reply.accounts[7]) } :
        pool \in {p \in PumpSwapPoolState(reply.accounts[1]) : SamePumpSwapPool(trigger.state, p)},
        m1 \in PumpSwapMint(reply.accounts[4]),
        m2 \in PumpSwapMint(reply.accounts[5]) }

PumpSwapNormalized(trigger, snapshot) ==
    [pool |-> trigger.pool, slot |-> trigger.slot,
     token |-> [side \in Sides |-> [mint |-> snapshot.pool_state.mint[side],
                                    vault |-> snapshot.pool_state.vault[side],
                                    decimals |-> snapshot.decimals[side]]],
     trading_state |-> snapshot.trading_state]

HydratePumpSwap(trigger, reply) ==
    {[normalized |-> PumpSwapNormalized(trigger, snapshot), context |-> snapshot] :
        snapshot \in ParsePumpSwap(trigger, reply)}
=============================================================================

----------------------------- MODULE MeteoraPool -----------------------------
(***************************************************************************)
(* Reading a Meteora DLMM pool: meteora_live.rs, and meteora_runtime.rs    *)
(* for which arrays of bins to read.  It takes two calls.  The first reads *)
(* the pool, its mints, the Clock and the bitmap extension, and tells      *)
(* which arrays there are; the second reads all of that again together     *)
(* with the arrays, and is refused when it would have asked for others.    *)
(***************************************************************************)
EXTENDS PoolAccounts, DlmmArrays, SequencesExt

CONSTANT MaxArraysPerDirection  \* MAX_BIN_ARRAYS_PER_DIRECTION

MeteoraClock == Key("clock", 0)
BitmapExtensionKey == Key("bitmap_extension", 0)
BinArrayKey(index) == Key("bin_array", index)
ReserveKey(mint) == Key("reserve", mint.n)
MeteoraOracleKey == Key("meteora_oracle", 0)

BaseKeys(trigger) ==
    <<trigger.pool>> \o trigger.state.mint \o <<MeteoraClock, BitmapExtensionKey>>

QuoteKeys(trigger, arrays) ==
    BaseKeys(trigger) \o [i \in DOMAIN arrays |-> BinArrayKey(arrays[i])]

ActivationGated(pool) == pool.pair_type \in {"Permission", "CustomizablePermissionless"}

SupportsLimitOrders(pool) ==
    \/ pool.function_type = "LimitOrder"
    \/ pool.function_type = "Undetermined" /\ ~ pool.has_rewards

\* validate_admission_values and validate_admission_identity.
Admissible(pool) ==
    /\ pool.pair_type \in {"Permissionless", "Permission", "CustomizablePermissionless",
                           "PermissionlessV2"}
    /\ pool.status \in {"Enabled", "Disabled"}
    /\ ActivationGated(pool) => pool.activation_type \in {"Slot", "Timestamp"}
    /\ SupportsLimitOrders(pool)
    /\ \A side \in Sides : pool.program[side] \in TokenPrograms
    /\ \A side \in Sides : pool.reserve[side] = ReserveKey(pool.mint[side])
    /\ pool.oracle = MeteoraOracleKey

MeteoraPoolState(account) ==
    {p \in Decoded(account, "meteora", "LbPair") : Admissible(p)}

SameLbPair(trigger, snapshot) ==
    /\ snapshot.mint = trigger.mint
    /\ snapshot.function_type = trigger.function_type
    /\ snapshot.pair_type = trigger.pair_type
    /\ snapshot.has_rewards = trigger.has_rewards
    /\ snapshot.reserve = trigger.reserve
    /\ snapshot.oracle = trigger.oracle

MeteoraMint(account, program) ==
    {m \in Decoded(account, program, "Mint") : m.initialized /\ SupportedMint(m)}

\* No extension account: arrays outside of the LbPair's own bitmap are unknown.
BitmapExtensions(account, pool) ==
    IF account = {} THEN {[extension |-> FALSE, bits |-> {}]}
    ELSE {[extension |-> TRUE, bits |-> e.bits] :
            e \in {x \in Decoded(account, "meteora", "BitmapExtension") : x.lb_pair = pool}}

\* The gate opens at a slot or a time of the chain, not of this machine.
OpensLater(pool, clock) ==
    /\ ActivationGated(pool)
    /\ pool.activation_point # 0
    /\ (IF pool.activation_type = "Slot" THEN clock.slot ELSE clock.unix_timestamp)
         < pool.activation_point

MeteoraTradingState(pool, clock) ==
    IF pool.status = "Disabled" THEN "SwapDisabled"
    ELSE IF OpensLater(pool, clock) THEN "NotYetOpen"
    ELSE "Tradable"

\* A gate that opens at a time refuses a Clock before 1970.
ClockFits(pool, clock) ==
    pool.status = "Enabled" /\ ActivationGated(pool) /\ pool.activation_point # 0
        /\ pool.activation_type = "Timestamp" => clock.unix_timestamp >= 0

\* What the first five accounts of either call say.
Bases(trigger, reply) ==
    IF reply.slot < trigger.slot \/ Len(reply.accounts) < 5 THEN {}
    ELSE UNION
      { { [slot |-> reply.slot, pair |-> pool, clock |-> clock, extension |-> e.extension,
           bitmap |-> e.bits \cup (pool.bitmap \cap InternalIndexes),
           decimals |-> <<m1.decimals, m2.decimals>>] :
            m1 \in MeteoraMint(reply.accounts[2], pool.program[1]),
            m2 \in MeteoraMint(reply.accounts[3], pool.program[2]),
            clock \in {c \in Decoded(reply.accounts[4], "sysvar", "Clock") : ClockFits(pool, c)},
            e \in BitmapExtensions(reply.accounts[5], trigger.pool) } :
        pool \in {p \in MeteoraPoolState(reply.accounts[1]) : SameLbPair(trigger.state, p)} }

\* certified_directional_bin_array_pubkeys: from the active array in either
\* direction, up to where the bitmap cannot be read.
Readable(base, start, swapForY) ==
    {i \in Ahead(start, swapForY) :
        Ahead(start, swapForY) \cap Ahead(i, ~ swapForY) \subseteq Known(base)}

FirstArrays(base, start, swapForY) ==
    LET found == Readable(base, start, swapForY) \cap base.bitmap
    IN  {i \in found : Cardinality(found \cap Ahead(i, ~ swapForY)) <= MaxArraysPerDirection}

CertifiedArrays(base) ==
    LET start == BinArrayIndex(base.pair.active_id)
        down == FirstArrays(base, start, TRUE)
    IN  IF start \in Indexes
        THEN InOrder(down, TRUE) \o InOrder(FirstArrays(base, start, FALSE) \ down, FALSE)
        ELSE <<>>

\* The arrays of the second call, each at its canonical address.
BinArrays(trigger, arrays, reply) ==
    LET found(k) == {a \in Decoded(reply.accounts[5 + k], "meteora", "BinArray") :
                        /\ a.version \in {2, 3}
                        /\ a.index = arrays[k]
                        /\ a.lb_pair = trigger.pool}
    IN  IF \A k \in DOMAIN arrays : found(k) # {}
        THEN {[i \in ToSet(arrays) |-> (CHOOSE a \in UNION {found(k) : k \in DOMAIN arrays} :
                                            a.index = i).bins]}
        ELSE {}

\* require_initial_directional_hydration
FirstTargetsRead(base, arrays) ==
    LET start == BinArrayIndex(base.pair.active_id)
        targets == UNION {NextInitialized(base, start, swapForY) : swapForY \in BOOLEAN}
    IN  /\ \A swapForY \in BOOLEAN : ~ ExtensionRequired(base, start, swapForY)
        /\ targets # {}
        /\ targets \subseteq DOMAIN arrays

\* Mutant: what the first call asked for is used, whatever the pool is by now.
PlanIsTaken(arrays, base) == TRUE

\* The arrays are those the second call's own pool calls for.
PlanStillFits(arrays, base) == CertifiedArrays(base) = arrays

MeteoraNormalized(trigger, base) ==
    [pool |-> trigger.pool, slot |-> base.slot,
     token |-> [side \in Sides |-> [mint |-> trigger.state.mint[side],
                                    vault |-> base.pair.reserve[side],
                                    decimals |-> base.decimals[side]]],
     trading_state |-> MeteoraTradingState(base.pair, base.clock)]

HydrateMeteora(trigger, arrays, reply, generation) ==
    UNION
      { { [normalized |-> MeteoraNormalized(trigger, base),
           context |-> [slot |-> base.slot, generation |-> generation, base |-> base,
                        arrays |-> bins]] :
            bins \in {b \in BinArrays(trigger, arrays, reply) : FirstTargetsRead(base, b)} } :
        base \in {b \in Bases(trigger, reply) :
                    /\ Len(reply.accounts) = 5 + Len(arrays)
                    /\ PlanStillFits(arrays, b)
                    /\ MeteoraTradingState(b.pair, b.clock) = "Tradable"} }
=============================================================================

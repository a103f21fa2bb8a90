--------------------------- MODULE PoolHydration ---------------------------
(***************************************************************************)
(* How a pool becomes known: the observation loops of main.rs (Raydium,    *)
(* PumpSwap), orca_runtime.rs and meteora_runtime.rs, the wait for a       *)
(* message (ws_transport.rs), the call for accounts with its retries       *)
(* (rpc_transport.rs) and the lookup of an exact pair that follows.        *)
(*                                                                         *)
(* One pool of one venue.  The chain goes on while the loop waits and      *)
(* while calls are under way; a message may be about any slot, and a call  *)
(* may be answered from any, though it named the oldest one it wants.      *)
(* What is held for several pools, and twice for one, is LiveAdmission's.  *)
(***************************************************************************)
EXTENDS RaydiumPool, PumpSwapPool, OrcaPool, MeteoraPool

CONSTANTS
    Worlds,           \* for each venue, what the chain may be at a slot
    Times,            \* what the machine's clock may show
    MaxObservations,  \* MAX_RAYDIUM_OBSERVATIONS and its like
    MaxRetries,       \* MAX_RPC_429_RETRIES
    Timeout,          \* ticks of OBSERVATION_TIMEOUT, METEORA_OBSERVATION_WINDOW
    MaxSlot,          \* bound: slots of the chain
    MaxPings          \* bound: control frames between two messages

ASSUME HydrationAssumption ==
    /\ MaxObservations \in Nat \ {0} /\ MaxRetries \in Nat /\ Timeout \in Nat \ {0}
    /\ MaxSlot \in Nat \ {0} /\ MaxPings \in Nat
    /\ Times \subseteq Int
    /\ DOMAIN Worlds \subseteq {"Raydium", "PumpSwap", "Orca", "Meteora"}

IsPair(s) == s = <<s[1], s[2]>>

\* The types of the fields that an account of a layout has, and two things that
\* the token programs keep: a mint of the first has no extensions, and in one of
\* the second nothing follows the first place that was never written.
WellFormed(account) ==
    LET has(layout) == account.layout = layout
    IN  /\ has("PoolState") =>
             /\ IsPair(account.vault) /\ IsPair(account.mint) /\ account.open_time \in Int
             /\ \A side \in Sides : /\ account.protocol_fees[side] \in Nat
                                    /\ account.fund_fees[side] \in Nat
                                    /\ account.creator_fees[side] \in Nat
        /\ has("Pool") => /\ IsPair(account.vault) /\ IsPair(account.mint)
                          /\ account.virtual_quote_reserves \in Int
        /\ has("Whirlpool") => /\ IsPair(account.vault) /\ IsPair(account.mint)
                               /\ account.tick_spacing \in Nat
                               /\ account.tick_current_index \in Int
        /\ has("LbPair") => /\ IsPair(account.reserve) /\ IsPair(account.mint)
                            /\ account.active_id \in Int /\ account.activation_point \in Nat
                            /\ account.bitmap \subseteq Int
        /\ has("TokenAccount") => account.amount \in Nat
        /\ has("Mint") =>
             /\ account.extensions \in Seq(STRING)
             /\ account.owner = "spl_token" => account.extensions = <<>>
             /\ \A i, j \in DOMAIN account.extensions :
                   account.extensions[i] = "Uninitialized" /\ i <= j
                   => account.extensions[j] = "Uninitialized"
             /\ account.older_fee.epoch \in Nat /\ account.newer_fee.epoch \in Nat
        /\ has("Clock") => account.slot \in Nat /\ account.unix_timestamp \in Int
                           /\ account.epoch \in Nat
        /\ has("FixedTickArray") \/ has("DynamicTickArray") => account.ticks # NoTicks
        /\ has("BitmapExtension") => account.bits \subseteq Indexes

ASSUME WorldsAssumption ==
    \A v \in DOMAIN Worlds : \A world \in Worlds[v] : \A key \in DOMAIN world :
        WellFormed(world[key])

VARIABLES
    venue,
    chain,       \* a world for every slot so far
    phase,       \* where the loop is, see TypeOK
    trigger,     \* {}, or what is being hydrated and whether a lookup found it
    plan,        \* the bin arrays that Meteora's first call asked for
    retries,     \* answers 429 to the call under way
    observed,    \* messages that decoded
    generation,  \* next_generation_id
    patience,    \* ticks until the wait for a message gives up
    granted,     \* what the wait began with, and begins with again after a ping
    window,      \* ticks left of Meteora's whole observation
    pings,
    view         \* {}, or the pool that is held

timers == <<patience, granted, window, pings>>
hydrating == <<trigger, plan, retries>>
vars == <<venue, chain, phase, hydrating, observed, generation, timers, view>>

PoolKey == Key("pool", 1)

Waiting == phase = "waiting"
Calling == phase \in {"read", "base", "quote"}
Observing == phase \in {"loop", "waiting"} \/ (Calling /\ \A t \in trigger : ~ t.lookup)

Init ==
    /\ venue \in DOMAIN Worlds
    /\ \E world \in Worlds[venue] : chain = <<world>>
    /\ phase = "loop"
    /\ trigger = {} /\ plan = <<>> /\ retries = 0
    /\ observed = 0 /\ generation = 1
    /\ patience = 0 /\ granted = 0 /\ pings = 0
    /\ window = IF venue = "Meteora" THEN Timeout ELSE 0
    /\ view = {}

ChainGrows ==
    /\ Len(chain) < MaxSlot
    /\ \E world \in Worlds[venue] : chain' = Append(chain, world)
    /\ UNCHANGED <<venue, phase, hydrating, observed, generation, timers, view>>

-----------------------------------------------------------------------------
\* The loop, and its wait for a message.

\* Mutant: Meteora grants its whole window to every message, as the others do.
RemainingForEachMessage == Timeout

\* How long the next wait may be.
Remaining == IF venue = "Meteora" THEN window ELSE Timeout

\* Mutant: the bound is passed by one.
SeenMoreThanEnough == observed > MaxObservations

SeenEnough == observed >= MaxObservations

Enough ==
    /\ phase = "loop"
    /\ SeenEnough \/ Remaining = 0 \/ (venue = "Orca" /\ view # {})
    /\ phase' = "observed"
    /\ UNCHANGED <<venue, chain, hydrating, observed, generation, timers, view>>

Listen ==
    /\ phase = "loop"
    /\ ~ SeenEnough /\ Remaining > 0
    /\ venue = "Orca" => view = {}
    /\ phase' = "waiting"
    /\ patience' = Remaining /\ granted' = Remaining /\ pings' = 0
    /\ UNCHANGED <<venue, chain, hydrating, observed, generation, window, view>>

Less(ticks) == IF ticks = 0 THEN 0 ELSE ticks - 1

Tick ==
    /\ phase \notin {"observed", "done", "failed"}
    /\ (Waiting /\ patience > 0) \/ window > 0
    /\ patience' = IF Waiting THEN Less(patience) ELSE patience
    /\ window' = Less(window)
    /\ UNCHANGED <<venue, chain, phase, hydrating, observed, generation, granted, pings, view>>

\* Pings, pongs and frames are read inside of the wait, which starts again.
Ping ==
    /\ Waiting /\ pings < MaxPings
    /\ patience' = granted /\ pings' = pings + 1
    /\ UNCHANGED <<venue, chain, phase, hydrating, observed, generation, granted, window, view>>

TimeOut ==
    /\ Waiting /\ patience = 0
    /\ phase' = IF venue \in {"Raydium", "PumpSwap"} THEN "failed" ELSE "observed"
    /\ UNCHANGED <<venue, chain, hydrating, observed, generation, timers, view>>

\* The stream closes, or what it brings is not JSON.
StreamFails ==
    /\ Waiting
    /\ phase' = "failed"
    /\ UNCHANGED <<venue, chain, hydrating, observed, generation, timers, view>>

\* A message that is no notification, or whose account does not decode.
Junk ==
    /\ Waiting
    /\ phase' = "loop"
    /\ UNCHANGED <<venue, chain, hydrating, observed, generation, timers, view>>

-----------------------------------------------------------------------------
\* What starts a hydration.

PoolState(account) ==
    CASE venue = "Raydium" -> RaydiumPoolState(account)
      [] venue = "PumpSwap" -> PumpSwapPoolState(account)
      [] venue = "Orca" -> OrcaPoolState(account)
      [] venue = "Meteora" -> MeteoraPoolState(account)

PoolAt(slot, lookup) ==
    {[pool |-> PoolKey, slot |-> slot, state |-> state, lookup |-> lookup] :
        state \in PoolState(Lookup(chain[slot], PoolKey))}

Hydrates(t) ==
    /\ phase' = IF venue = "Meteora" THEN "base" ELSE "read"
    /\ trigger' = {t} /\ plan' = <<>> /\ retries' = 0

\* An Orca pool without an anchor or with an adaptive fee only counts.
Admitted(t) == venue = "Orca" => HasAnchor(t.state) /\ ~ IsAdaptiveFee(t.state)

\* A Meteora generation is spent for each of the two calls, whatever they say.
Notify ==
    /\ Waiting
    /\ observed' = observed + 1
    /\ \E slot \in DOMAIN chain : \E t \in PoolAt(slot, FALSE) :
          IF Admitted(t) THEN Hydrates(t) ELSE phase' = "loop" /\ UNCHANGED hydrating
    /\ generation' = IF venue = "Meteora" THEN generation + 2 ELSE generation
    /\ UNCHANGED <<venue, chain, timers, view>>

\* prepare_exact_pair and the pair lookups of main.rs, for a pair not yet seen.
\* The two orientations of a pair differ in the request only.
LookUp ==
    /\ phase = "observed" /\ venue # "Orca" /\ view = {}
    /\ \E slot \in DOMAIN chain : \E t \in PoolAt(slot, TRUE) : Hydrates(t)
    /\ generation' = IF venue = "Meteora" THEN 3 ELSE generation
    /\ UNCHANGED <<venue, chain, observed, timers, view>>

-----------------------------------------------------------------------------
\* The calls.

\* Back in the loop, or after a lookup at its end.
Over(t, outcome) ==
    /\ phase' = IF t.lookup THEN outcome ELSE "loop"
    /\ trigger' = {} /\ plan' = <<>> /\ retries' = 0

\* Meteora's lookup of a pair and Stage B's of a Raydium pool end the run with
\* their reason, the other lookups of main.rs go on without the pair.
AfterLookup ==
    CASE venue = "Meteora" -> {"failed"}
      [] venue = "Raydium" -> {"failed", "done"}
      [] OTHER -> {"done"}

Reject(t) == (\E outcome \in AfterLookup : Over(t, outcome)) /\ UNCHANGED view

\* The same request again, after a delay that the client bounds.
RateLimited ==
    /\ Calling /\ retries < MaxRetries
    /\ retries' = retries + 1
    /\ UNCHANGED <<venue, chain, phase, trigger, plan, observed, generation, timers, view>>

\* No answer within the client's timeout, no success, no JSON, an RPC error.
CallFails ==
    /\ Calling
    /\ \E t \in trigger : Reject(t)
    /\ UNCHANGED <<venue, chain, observed, generation, timers>>

\* The first of Meteora's calls.
BaseAnswered ==
    /\ phase = "base"
    /\ \E t \in trigger, slot \in DOMAIN chain :
          LET bases == {b \in Bases(t, Reply(chain[slot], slot, BaseKeys(t))) :
                            CertifiedArrays(b) # <<>>}
          IN  \/ bases = {} /\ Reject(t)
              \/ \E b \in bases :
                    /\ phase' = "quote" /\ plan' = CertifiedArrays(b)
                    /\ retries' = 0
                    /\ UNCHANGED <<trigger, view>>
    /\ UNCHANGED <<venue, chain, observed, generation, timers>>

Positive(snapshot) == \A side \in Sides : snapshot.effective[side] > 0

\* quote_readiness_for_pool
Ready(entry) ==
    /\ entry.normalized.trading_state = "Tradable"
    /\ entry.context.slot >= entry.normalized.slot
    /\ venue \in {"Raydium", "PumpSwap"} => Positive(entry.context)

Hydrated(t, reply, now, quotable) ==
    CASE venue = "Raydium" -> HydrateRaydium(t, reply, now)
      [] venue = "PumpSwap" -> HydratePumpSwap(t, reply)
      [] venue = "Orca" -> HydrateOrca(t, reply, quotable)
      [] venue = "Meteora" -> HydrateMeteora(t, plan, reply, generation - 1)

KeysFor(t) ==
    CASE venue = "Raydium" -> RaydiumKeys(t)
      [] venue = "PumpSwap" -> PumpSwapKeys(t)
      [] venue = "Orca" -> OrcaKeys(t)
      [] venue = "Meteora" -> QuoteKeys(t, plan)

\* Mutant: what was read last is kept.
ReplacesAlways(entry, held) == TRUE

\* should_replace_runtime_state; the maps of the other venues take the last.
Replaces(entry, held) ==
    venue = "Meteora" => \A h \in held : entry.normalized.slot >= h.normalized.slot

Answered ==
    /\ phase \in {"read", "quote"}
    /\ \E t \in trigger, slot \in DOMAIN chain, now \in Times, quotable \in BOOLEAN :
          LET ready == {e \in Hydrated(t, Reply(chain[slot], slot, KeysFor(t)), now, quotable) :
                            Ready(e)}
          IN  \/ ready = {} /\ Reject(t)
              \/ \E e \in ready :
                    /\ view' = IF Replaces(e, view) THEN {e} ELSE view
                    /\ Over(t, "done")
    /\ UNCHANGED <<venue, chain, observed, generation, timers>>

Next ==
    \/ ChainGrows \/ Enough \/ Listen \/ Tick \/ Ping \/ TimeOut \/ StreamFails \/ Junk
    \/ Notify \/ LookUp \/ RateLimited \/ CallFails \/ BaseAnswered \/ Answered

\* The loop runs, its timer fires (tokio's timeout), and a call ends one way or
\* another, for the client has a timeout of its own.  Nobody has to write.
Fairness ==
    /\ WF_vars(Enough) /\ WF_vars(Listen) /\ WF_vars(Tick) /\ WF_vars(TimeOut)
    /\ WF_vars(CallFails \/ BaseAnswered \/ Answered)

Spec == Init /\ [][Next]_vars /\ Fairness

-----------------------------------------------------------------------------
\* What is held stays within what the loop was given, and a bound is a bound.
TypeOK ==
    /\ venue \in DOMAIN Worlds
    /\ chain \in Seq(Worlds[venue]) /\ Len(chain) \in 1 .. MaxSlot
    /\ phase \in {"loop", "waiting", "read", "base", "quote", "observed", "done", "failed"}
    /\ Cardinality(trigger) <= 1 /\ (Calling <=> trigger # {})
    /\ plan # <<>> <=> phase = "quote"
    /\ retries \in 0 .. MaxRetries
    /\ observed \in 0 .. MaxObservations
    /\ generation \in 1 .. 2 * MaxObservations + 1
    /\ patience \in 0 .. granted /\ granted \in 0 .. Timeout /\ window \in 0 .. Timeout
    /\ pings \in 0 .. MaxPings
    /\ Cardinality(view) <= 1

\* What an entry says of the pool.
Says(e) ==
    LET token == e.normalized.token
        c == e.context
    IN  CASE venue = "Raydium" -> [token |-> token, raw |-> c.effective]
          [] venue = "PumpSwap" ->
               [token |-> token, raw |-> c.effective,
                fees |-> <<c.fee_config.flat_fees, c.fee_config.fee_tiers,
                           c.fee_config.stable_fee_tiers>>]
          [] venue = "Orca" ->
               [token |-> token, price |-> c.pool_state.tick_current_index,
                ticks |-> [start \in ToSet(TickArrayStarts(c.pool_state)) |->
                    UNION {IF c.tick_arrays[i] = NoTicks THEN {} ELSE {c.tick_arrays[i]} :
                             i \in {j \in 1 .. 5 : TickArrayStarts(c.pool_state)[j] = start}}],
                transfer_fee |-> c.transfer_fee, timestamp |-> c.timestamp]
          [] venue = "Meteora" ->
               [token |-> token, active_id |-> c.base.pair.active_id,
                bins |-> [i \in DOMAIN c.arrays |-> {c.arrays[i]}]]

Reader == INSTANCE PoolReadings WITH Span <- TickArraySize, MaxPlanned <- MaxArraysPerDirection

Held == {[slot |-> e.context.slot, claims |-> e.normalized.slot,
          pool |-> [venue |-> venue, says |-> Says(e)]] : e \in view}

PoolView == INSTANCE PoolView WITH Reading <- Reader!ReadingOf, view <- Held

\* A reading is all of one slot: the pool that a notification showed, its
\* vaults, mints, fees, tick or bin arrays and the clock, though they come from
\* two calls or a call and a message, and the chain and the server did between
\* them what they liked.
ImplementsPoolView == PoolView!Spec

\* What is held of a Meteora pool is replaced only by a later hydration, and by
\* one that is not of an older slot, in whatever order notifications came.
PreparedNeverGoesBack ==
    [][venue = "Meteora" =>
        \A old \in view, new \in view' : new # old =>
            /\ new.context.slot >= old.context.slot
            /\ new.context.generation > old.context.generation]_vars

\* Meteora's observation ends, however much comes that is not for it: one window
\* is there for all messages, and only a ping starts the wait for one again.  The
\* other loops wait anew for every message and promise no such thing.
ObservationEnds == venue = "Meteora" ~> ~ Observing
=============================================================================

------------------------ MODULE PoolHydration_proofs ------------------------
(***************************************************************************)
(* What is held of a pool was so at one slot and never goes back, for any  *)
(* worlds, any number of observations and any order of answers.            *)
(***************************************************************************)
EXTENDS PoolHydration, IntegerFacts, FiniteSetTheorems, TLAPS

LEMMA AtMostOne ==
    /\ Cardinality({}) <= 1
    /\ \A x : Cardinality({x}) <= 1
BY FS_EmptySet, FS_Singleton

\* Only one entry is held of the pool, and only one thing is hydrated.
OneEntry == (\A a, b \in view : a = b) /\ (\A a, b \in trigger : a = b)

\* The generation of what is held is one that was given out, and while calls
\* are under way it is not theirs.
HeldBefore(bound) ==
    venue = "Meteora" =>
        \A h \in view : /\ h.context.slot = h.normalized.slot
                        /\ h.context.generation \in Int
                        /\ h.context.generation < bound

Generations ==
    /\ OneEntry
    /\ HeldBefore(IF Calling THEN generation - 1 ELSE generation)
    /\ observed < MaxObservations \/ ~ Waiting
    /\ Observing =>
         generation = IF venue = "Meteora" THEN 2 * observed + 1 ELSE 1

Inductive == TypeOK /\ Generations

\* What the last call hydrates is of one slot and of the last generation.
LEMMA HydratedOnce ==
    ASSUME venue = "Meteora", NEW t, NEW reply, NEW now, NEW quotable,
           NEW e \in Hydrated(t, reply, now, quotable)
    PROVE  e.context.slot = e.normalized.slot /\ e.context.generation = generation - 1
<1>1. e \in HydrateMeteora(t, plan, reply, generation - 1)
    BY DEF Hydrated
<1>2. \E base, bins :
         e = [normalized |-> MeteoraNormalized(t, base),
              context |-> [slot |-> base.slot, generation |-> generation - 1, base |-> base,
                           arrays |-> bins]]
    BY <1>1 DEF HydrateMeteora
<1> QED
    BY <1>2 DEF MeteoraNormalized

LEMMA InitEstablishes == Init => Inductive
<1> SUFFICES ASSUME Init PROVE Inductive
    OBVIOUS
<1>1. TypeOK
    <2>1. PICK world \in Worlds[venue] : chain = <<world>>
        BY DEF Init
    <2>2. chain \in Seq(Worlds[venue]) /\ Len(chain) = 1
        <3> DEFINE W == Worlds[venue]
        <3> HIDE DEF W
        <3>1. world \in W /\ chain = <<world>>
            BY <2>1 DEF W
        <3>2. chain \in Seq(W) /\ Len(chain) = 1
            BY <3>1
        <3> QED
            BY <3>2 DEF W
    <2> QED
        BY <2>2, AtMostOne, HydrationAssumption DEF Init, TypeOK, Calling
<1>2. Generations
    BY HydrationAssumption DEF Init, Generations, OneEntry, HeldBefore, Observing, Calling, Waiting
<1> QED
    BY <1>1, <1>2 DEF Inductive

\* Nothing of a step that only waits or ticks is hydrated or held.
LEMMA WaitingKeeps ==
    ASSUME Inductive,
           Enough \/ Listen \/ Tick \/ Ping \/ TimeOut \/ StreamFails \/ Junk \/ UNCHANGED vars
    PROVE  Inductive'
<1> USE HydrationAssumption DEF Inductive
<1>1. CASE Enough
    BY <1>1 DEF Enough, TypeOK, Generations, OneEntry, HeldBefore, Observing, Calling, Waiting, hydrating, timers
<1>2. CASE Listen
    <2>1. Remaining \in 0 .. Timeout
        BY DEF Remaining, TypeOK
    <2> QED
        BY <1>2, <2>1 DEF Listen, SeenEnough, TypeOK, Generations, OneEntry, HeldBefore, Observing,
                          Calling, Waiting, hydrating
<1>3. CASE Tick
    BY <1>3 DEF Tick, Less, TypeOK, Generations, OneEntry, HeldBefore, Observing, Calling, Waiting, hydrating
<1>4. CASE Ping
    BY <1>4 DEF Ping, TypeOK, Generations, OneEntry, HeldBefore, Observing, Calling, Waiting, hydrating
<1>5. CASE TimeOut
    BY <1>5 DEF TimeOut, TypeOK, Generations, OneEntry, HeldBefore, Observing, Calling, Waiting, hydrating, timers
<1>6. CASE StreamFails
    BY <1>6 DEF StreamFails, TypeOK, Generations, OneEntry, HeldBefore, Observing, Calling, Waiting, hydrating, timers
<1>7. CASE Junk
    BY <1>7 DEF Junk, TypeOK, Generations, OneEntry, HeldBefore, Observing, Calling, Waiting, hydrating, timers
<1>8. CASE UNCHANGED vars
    BY <1>8 DEF vars, TypeOK, Generations, OneEntry, HeldBefore, Observing, Calling, Waiting, hydrating, timers
<1> QED
    BY <1>1, <1>2, <1>3, <1>4, <1>5, <1>6, <1>7, <1>8

LEMMA ChainGrowsKeeps ==
    ASSUME Inductive, ChainGrows
    PROVE  Inductive'
<1>1. PICK world \in Worlds[venue] : chain' = Append(chain, world)
    BY DEF ChainGrows
<1>2. chain' \in Seq(Worlds[venue]) /\ Len(chain') \in 1 .. MaxSlot
    <2>1. chain \in Seq(Worlds[venue]) /\ Len(chain) \in Nat /\ Len(chain) < MaxSlot
        BY DEF ChainGrows, Inductive, TypeOK
    <2> QED
        BY <1>1, <2>1, HydrationAssumption
<1> QED
    BY <1>2 DEF ChainGrows, Inductive, TypeOK, Generations, OneEntry, HeldBefore, Observing, Calling, Waiting,
                hydrating, timers

\* A hydration begins with calls whose generation nothing held has.
LEMMA HydratesKeeps ==
    ASSUME Inductive, Notify \/ LookUp
    PROVE  Inductive'
<1> USE HydrationAssumption DEF Inductive
<1> DEFINE Begun(lookup) ==
             /\ phase' \in {"base", "read"} /\ Cardinality(trigger') <= 1 /\ trigger' # {}
             /\ \A a, b \in trigger' : a = b
             /\ \A t \in trigger' : t.lookup = lookup
             /\ plan' = <<>> /\ retries' = 0
<1>1. \A slot, lookup : \A t \in PoolAt(slot, lookup) : Hydrates(t) => Begun(lookup)
    <2>1. ASSUME NEW slot, NEW lookup, NEW t \in PoolAt(slot, lookup), Hydrates(t)
          PROVE  Begun(lookup)
        <3>1. t.lookup = lookup
            BY DEF PoolAt
        <3>2. /\ phase' \in {"base", "read"} /\ trigger' = {t} /\ Cardinality({t}) <= 1
              /\ plan' = <<>> /\ retries' = 0
            BY <2>1, AtMostOne DEF Hydrates
        <3> QED
            BY <3>1, <3>2
    <2> HIDE DEF Begun
    <2> QED
        BY <2>1
<1>2. CASE Notify
    <2>1. \/ phase' = "loop" /\ UNCHANGED hydrating
          \/ Begun(FALSE)
        <3> HIDE DEF Begun
        <3> QED
            BY <1>1, <1>2 DEF Notify
    <2>2. /\ phase = "waiting" /\ observed' = observed + 1 /\ observed < MaxObservations
          /\ generation' = IF venue = "Meteora" THEN generation + 2 ELSE generation
          /\ UNCHANGED <<venue, chain, timers, view>>
        BY <1>2 DEF Notify, Waiting, Generations
    <2>3. generation' = IF venue = "Meteora" THEN 2 * observed' + 1 ELSE 1
        BY <2>2 DEF Generations, Observing, TypeOK
    <2>4. /\ observed' \in 0 .. MaxObservations
          /\ generation' \in 1 .. 2 * MaxObservations + 1
        BY <2>2, <2>3 DEF TypeOK
    <2>5. TypeOK'
        BY <2>1, <2>2, <2>4 DEF TypeOK, Calling, hydrating, timers
    <2>6. Generations'
        <3>1. OneEntry'
            BY <2>1, <2>2 DEF Generations, OneEntry, hydrating
        <3>2. HeldBefore(IF Calling THEN generation - 1 ELSE generation)'
            BY <2>2, <2>4 DEF Generations, HeldBefore, Calling, TypeOK
        <3>3. ~ Waiting'
            BY <2>1 DEF Waiting
        <3> QED
            BY <2>2, <2>3, <3>1, <3>2, <3>3 DEF Generations
    <2> QED
        BY <2>5, <2>6
<1>3. CASE LookUp
    <2>1. Begun(TRUE)
        <3> HIDE DEF Begun
        <3> QED
            BY <1>1, <1>3 DEF LookUp
    <2>2. /\ view = {} /\ UNCHANGED <<venue, chain, observed, timers, view>>
          /\ generation' = IF venue = "Meteora" THEN 3 ELSE generation
        BY <1>3 DEF LookUp
    <2>3. TypeOK'
        BY <2>1, <2>2 DEF TypeOK, Calling, timers
    <2>4. Generations'
        BY <2>1, <2>2 DEF Generations, OneEntry, HeldBefore, Observing, Calling, Waiting
    <2> QED
        BY <2>3, <2>4
<1> QED
    BY <1>2, <1>3

\* However a hydration is refused, what is held stays.
LEMMA RejectKeeps ==
    ASSUME Inductive, NEW t \in trigger, Reject(t),
           UNCHANGED <<venue, chain, observed, generation, timers>>
    PROVE  Inductive'
<1>1. /\ phase' \in {"loop", "failed", "done"} /\ (phase' = "loop" => ~ t.lookup)
      /\ trigger' = {} /\ plan' = <<>> /\ retries' = 0 /\ UNCHANGED view
    <2>1. PICK outcome \in AfterLookup : Over(t, outcome)
        BY DEF Reject
    <2>2. outcome \in {"failed", "done"}
        BY <2>1 DEF AfterLookup
    <2> QED
        BY <2>1, <2>2 DEF Reject, Over
<1>2. Calling
    BY DEF Inductive, TypeOK
<1>3. TypeOK'
    BY <1>1, AtMostOne, HydrationAssumption DEF Inductive, TypeOK, Calling, timers
<1>4. Generations'
    <2>1. OneEntry'
        BY <1>1 DEF Inductive, Generations, OneEntry
    <2>2. HeldBefore(IF Calling THEN generation - 1 ELSE generation)'
        BY <1>1, <1>2 DEF Inductive, Generations, HeldBefore, Calling, TypeOK
    <2>3. Observing' => Observing
        BY <1>1, <1>2 DEF Inductive, Generations, OneEntry, Observing, Calling
    <2>4. ~ Waiting'
        BY <1>1 DEF Waiting
    <2> QED
        BY <2>1, <2>2, <2>3, <2>4 DEF Inductive, Generations
<1> QED
    BY <1>3, <1>4 DEF Inductive

LEMMA CallsKeep ==
    ASSUME Inductive, RateLimited \/ CallFails \/ BaseAnswered
    PROVE  Inductive'
<1>1. CASE RateLimited
    BY <1>1, HydrationAssumption
       DEF RateLimited, Inductive, TypeOK, Generations, OneEntry, HeldBefore, Observing, Calling, Waiting,
           timers
<1>2. CASE CallFails
    BY <1>2, RejectKeeps DEF CallFails
<1>3. CASE BaseAnswered
    <2>1. phase = "base" /\ UNCHANGED <<venue, chain, observed, generation, timers>>
        BY <1>3 DEF BaseAnswered
    <2>2. PICK t \in trigger :
             \/ Reject(t)
             \/ /\ phase' = "quote" /\ plan' # <<>> /\ retries' = 0
                /\ UNCHANGED <<trigger, view>>
        BY <1>3 DEF BaseAnswered
    <2>3. CASE Reject(t)
        BY <2>1, <2>3, RejectKeeps
    <2>4. CASE /\ phase' = "quote" /\ plan' # <<>> /\ retries' = 0
               /\ UNCHANGED <<trigger, view>>
        BY <2>1, <2>4, HydrationAssumption
           DEF Inductive, TypeOK, Generations, OneEntry, HeldBefore, Observing, Calling, Waiting, timers
    <2> QED
        BY <2>2, <2>3, <2>4
<1> QED
    BY <1>1, <1>2, <1>3

NeverBack ==
    venue = "Meteora" =>
        \A old \in view, new \in view' : new # old =>
            /\ new.context.slot >= old.context.slot
            /\ new.context.generation > old.context.generation

LEMMA AnsweredKeeps ==
    ASSUME Inductive, Answered
    PROVE  Inductive' /\ NeverBack
<1>1. /\ phase \in {"read", "quote"}
      /\ UNCHANGED <<venue, chain, observed, generation, timers>>
    BY DEF Answered
<1>2. PICK t \in trigger, slot \in DOMAIN chain, now \in Times, quotable \in BOOLEAN :
         \/ Reject(t)
         \/ \E e \in Hydrated(t, Reply(chain[slot], slot, KeysFor(t)), now, quotable) :
               /\ view' = IF Replaces(e, view) THEN {e} ELSE view
               /\ Over(t, "done")
    BY DEF Answered
<1>3. CASE Reject(t)
    <2>1. Inductive'
        BY <1>1, <1>3, RejectKeeps
    <2>2. Cardinality(view) <= 1 /\ UNCHANGED view
        BY <1>3 DEF Reject, Inductive, TypeOK
    <2>3. NeverBack
        BY <2>2 DEF NeverBack, Inductive, Generations, OneEntry
    <2> QED
        BY <2>1, <2>3
<1>4. ASSUME NEW e \in Hydrated(t, Reply(chain[slot], slot, KeysFor(t)), now, quotable),
             view' = IF Replaces(e, view) THEN {e} ELSE view,
             Over(t, "done")
      PROVE  Inductive' /\ NeverBack
    <2>1. /\ phase' \in {"loop", "done"} /\ (phase' = "loop" => ~ t.lookup)
          /\ trigger' = {} /\ plan' = <<>> /\ retries' = 0
        BY <1>4 DEF Over
    <2>2. Calling /\ Cardinality(view') <= 1
        BY <1>1, <1>4, AtMostOne DEF Calling, Inductive, TypeOK
    <2>3. TypeOK'
        BY <1>1, <2>1, <2>2, AtMostOne, HydrationAssumption
           DEF Inductive, TypeOK, Calling, timers
    <2>4. venue = "Meteora" =>
             e.context.slot = e.normalized.slot /\ e.context.generation = generation - 1
        BY HydratedOnce
    <2>5. generation \in Int
        BY DEF Inductive, TypeOK
    <2>6. venue = "Meteora" =>
             \A h \in view : /\ h.context.slot = h.normalized.slot
                             /\ h.context.generation \in Int
                             /\ h.context.generation < generation - 1
        BY <2>2 DEF Inductive, Generations, OneEntry, HeldBefore
    <2>7. venue = "Meteora" =>
             \A h \in view' : /\ h.context.slot = h.normalized.slot
                              /\ h.context.generation \in Int
                              /\ h.context.generation < generation
        BY <1>4, <2>4, <2>5, <2>6
    <2>8. Generations'
        <3>1. OneEntry'
            BY <1>4, <2>1 DEF Inductive, Generations, OneEntry
        <3>2. HeldBefore(IF Calling THEN generation - 1 ELSE generation)'
            BY <1>1, <2>1, <2>7 DEF HeldBefore, Calling
        <3>3. Observing' => Observing
            BY <2>1, <2>2 DEF Inductive, Generations, OneEntry, Observing, Calling
        <3>4. ~ Waiting'
            BY <2>1 DEF Waiting
        <3> QED
            BY <1>1, <3>1, <3>2, <3>3, <3>4 DEF Inductive, Generations
    <2>9. NeverBack
        <3>1. CASE Replaces(e, view)
            BY <1>4, <2>4, <2>5, <2>6, <3>1 DEF Replaces, NeverBack
        <3>2. CASE ~ Replaces(e, view)
            <4>1. Cardinality(view) <= 1 /\ view' = view
                BY <1>4, <3>2 DEF Inductive, TypeOK
            <4> QED
                BY <4>1 DEF NeverBack, Inductive, Generations, OneEntry
        <3> QED
            BY <3>1, <3>2
    <2> QED
        BY <2>3, <2>8, <2>9 DEF Inductive
<1> QED
    BY <1>2, <1>3, <1>4

LEMMA NextKeeps == Inductive /\ [Next]_vars => Inductive' /\ NeverBack
<1> SUFFICES ASSUME Inductive, [Next]_vars
             PROVE  Inductive' /\ NeverBack
    OBVIOUS
<1>1. ASSUME UNCHANGED view PROVE NeverBack
    BY <1>1 DEF NeverBack, Inductive, Generations, OneEntry
<1>2. CASE Enough \/ Listen \/ Tick \/ Ping \/ TimeOut \/ StreamFails \/ Junk \/ UNCHANGED vars
    <2>1. UNCHANGED view
        BY <1>2 DEF Enough, Listen, Tick, Ping, TimeOut, StreamFails, Junk, vars
    <2> QED
        BY <1>1, <1>2, <2>1, WaitingKeeps
<1>3. CASE ChainGrows
    <2>1. UNCHANGED view
        BY <1>3 DEF ChainGrows
    <2> QED
        BY <1>1, <1>3, <2>1, ChainGrowsKeeps
<1>4. CASE Notify \/ LookUp
    <2>1. UNCHANGED view
        BY <1>4 DEF Notify, LookUp
    <2> QED
        BY <1>1, <1>4, <2>1, HydratesKeeps
<1>5. CASE RateLimited \/ CallFails \/ BaseAnswered
    <2>1. UNCHANGED view
        BY <1>5 DEF RateLimited, CallFails, BaseAnswered, Reject
    <2> QED
        BY <1>1, <1>5, <2>1, CallsKeep
<1>6. CASE Answered
    BY <1>6, AnsweredKeeps
<1> QED
    BY <1>2, <1>3, <1>4, <1>5, <1>6 DEF Next

-----------------------------------------------------------------------------
(***************************************************************************)
(* What is held of a pool was so at one slot: each venue's reader, from    *)
(* the keys it asks for to what its reading is, and then step by step.     *)
(***************************************************************************)
\* Two are a sequence of two.
LEMMA PairIsSeq ==
    ASSUME NEW S, NEW a \in S, NEW b \in S
    PROVE  <<a, b>> \in Seq(S) /\ Len(<<a, b>>) = 2 /\ <<a, b>>[1] = a /\ <<a, b>>[2] = b
OBVIOUS

OfSix(keys, a, b, c, d, e, f) ==
    /\ DOMAIN keys = 1 .. 6 /\ keys[1] = a /\ keys[2] = b
    /\ keys[3] = c /\ keys[4] = d /\ keys[5] = e /\ keys[6] = f

\* ... and the keys of a Raydium call, one by one.
LEMMA TwoMore ==
    ASSUME NEW u, NEW v, NEW s, NEW t, IsPair(s), IsPair(t)
    PROVE  OfSix(<<u, v>> \o s \o t, u, v, s[1], s[2], t[1], t[2])
<1>1. s = <<s[1], s[2]>> /\ t = <<t[1], t[2]>>
    BY DEF IsPair
<1> DEFINE S == {u, v, s[1], s[2], t[1], t[2]}
           p == <<u, v>>
           ps == p \o s
<1>2. /\ p \in Seq(S) /\ Len(p) = 2 /\ p[1] = u /\ p[2] = v
      /\ s \in Seq(S) /\ Len(s) = 2
      /\ t \in Seq(S) /\ Len(t) = 2
    BY <1>1, PairIsSeq
<1> HIDE DEF S, p
<1>3. /\ ps \in Seq(S) /\ Len(ps) = 4 /\ ps[1] = u /\ ps[2] = v /\ ps[3] = s[1] /\ ps[4] = s[2]
    <2>1. ps \in Seq(S) /\ Joins(ps, p, s)
        BY <1>2, Joined
    <2>2. 1 \in 1 .. Len(p) /\ 2 \in 1 .. Len(p) /\ 1 \in 1 .. Len(s) /\ 2 \in 1 .. Len(s)
        BY <1>2
    <2>3. ps[1] = p[1] /\ ps[2] = p[2] /\ ps[Len(p) + 1] = s[1] /\ ps[Len(p) + 2] = s[2]
        BY <2>1, <2>2 DEF Joins
    <2>4. Len(ps) = Len(p) + Len(s)
        BY <2>1 DEF Joins
    <2> HIDE DEF ps
    <2> QED
        BY <1>2, <2>1, <2>3, <2>4
<1> HIDE DEF ps
<1> DEFINE keys == ps \o t
<1>4. /\ keys \in Seq(S) /\ Len(keys) = 6 /\ \A i \in 1 .. 4 : keys[i] = ps[i]
      /\ keys[5] = t[1] /\ keys[6] = t[2]
    <2>1. keys \in Seq(S) /\ Joins(keys, ps, t)
        BY <1>2, <1>3, Joined
    <2>2. 1 \in 1 .. Len(t) /\ 2 \in 1 .. Len(t)
        BY <1>2
    <2>3. keys[Len(ps) + 1] = t[1] /\ keys[Len(ps) + 2] = t[2] /\ Len(keys) = Len(ps) + Len(t)
        BY <2>1, <2>2 DEF Joins
    <2>4. \A i \in 1 .. Len(ps) : keys[i] = ps[i]
        BY <2>1 DEF Joins
    <2> HIDE DEF keys
    <2> QED
        BY <1>2, <1>3, <2>1, <2>3, <2>4
<1> HIDE DEF keys
<1>5. DOMAIN keys = 1 .. 6
    BY <1>4
<1> QED
    BY <1>3, <1>4, <1>5 DEF OfSix, keys, ps, p

\* What a call for these keys finds at the i-th of them.
LEMMA Found ==
    ASSUME NEW world, NEW slot, NEW keys, NEW i \in DOMAIN keys
    PROVE  Reply(world, slot, keys).accounts[i] = Lookup(world, keys[i])
BY DEF Reply

\* Readers and readings look an account up alike.
LEMMA LookupIsReader == \A world, key : Lookup(world, key) = Reader!Lookup(world, key)
BY DEF Lookup, Reader!Lookup

\* What is looked up is the only account at its key, and is well formed.
LEMMA LookedUp ==
    ASSUME NEW world, \A key \in DOMAIN world : WellFormed(world[key]),
           NEW key, NEW a \in Lookup(world, key)
    PROVE  WellFormed(a) /\ Lookup(world, key) = {a}
BY DEF Lookup

\* RaydiumRuntime: what is ready was read whole at the slot of the answer.
LEMMA RaydiumReads ==
    ASSUME NEW world, \A key \in DOMAIN world : WellFormed(world[key]),
           NEW slot \in Int, NEW t, t.pool = PoolKey, t.slot \in Int,
           IsPair(t.state.vault), IsPair(t.state.mint), NEW now \in Int,
           NEW e \in HydrateRaydium(t, Reply(world, slot, RaydiumKeys(t)), now),
           e.normalized.trading_state = "Tradable", Positive(e.context)
    PROVE  /\ e.context.slot = slot /\ e.normalized.slot = t.slot /\ t.slot <= slot
           /\ [token |-> e.normalized.token, raw |-> e.context.effective]
                 \in Reader!RaydiumReadings(world, now)
<1> DEFINE reply == Reply(world, slot, RaydiumKeys(t))
           acc == reply.accounts
<1>1. PICK snapshot \in ParseRaydium(t, reply) :
         e = [normalized |-> RaydiumNormalized(t, snapshot, now), context |-> snapshot]
    BY DEF HydrateRaydium
<1>2. reply.slot = slot /\ DOMAIN acc = DOMAIN RaydiumKeys(t)
    BY DEF Reply
<1>3. ~ (reply.slot < t.slot)
    BY <1>1 DEF ParseRaydium
<1>4. PICK p \in {q \in RaydiumPoolState(acc[1]) :
                    /\ SameRaydiumPool(t.state, q)
                    /\ \A side \in Sides : RaydiumMintAccepted(acc[4 + side], q.program[side])} :
         \E config \in RaydiumAmmConfig(acc[2]),
            a \in EffectiveRaw(acc[3], p, 1), b \in EffectiveRaw(acc[4], p, 2) :
               snapshot = [slot |-> reply.slot, pool_state |-> p, amm_config |-> config,
                           effective |-> <<a, b>>]
    BY <1>1 DEF ParseRaydium
<1>5. PICK config \in RaydiumAmmConfig(acc[2]), a \in EffectiveRaw(acc[3], p, 1),
           b \in EffectiveRaw(acc[4], p, 2) :
         snapshot = [slot |-> reply.slot, pool_state |-> p, amm_config |-> config,
                     effective |-> <<a, b>>]
    BY <1>4
<1>6. /\ acc[1] = Lookup(world, PoolKey)
      /\ acc[3] = Lookup(world, t.state.vault[1]) /\ acc[4] = Lookup(world, t.state.vault[2])
    <2> DEFINE keys == RaydiumKeys(t)
    <2>1. /\ DOMAIN keys = 1 .. 6 /\ keys[1] = PoolKey
          /\ keys[3] = t.state.vault[1] /\ keys[4] = t.state.vault[2]
        <3> DEFINE s == t.state.vault
                   m == t.state.mint
                   c == t.state.amm_config
        <3>1. keys = <<PoolKey, c>> \o s \o m
            BY DEF RaydiumKeys
        <3>2. IsPair(s) /\ IsPair(m)
            OBVIOUS
        <3> HIDE DEF s, m, c, keys
        <3>3. OfSix(keys, PoolKey, c, s[1], s[2], m[1], m[2])
            BY <3>1, <3>2, TwoMore
        <3> QED
            BY <3>3 DEF OfSix, s
    <2> HIDE DEF keys
    <2>2. 1 \in DOMAIN keys /\ 3 \in DOMAIN keys /\ 4 \in DOMAIN keys
        BY <2>1
    <2> QED
        BY <2>1, <2>2, Found DEF keys
<1> HIDE DEF acc, reply
<1>7. /\ p \in Lookup(world, PoolKey) /\ p.layout = "PoolState" /\ WellFormed(p)
      /\ p.mint = t.state.mint /\ p.vault = t.state.vault /\ p.decimals = t.state.decimals
    BY <1>4, <1>6, LookedUp DEF RaydiumPoolState, RaydiumData, Owned, SameRaydiumPool
<1>8. PICK v1 \in Lookup(world, p.vault[1]) :
         /\ v1.layout = "TokenAccount" /\ v1.mint = p.mint[1]
         /\ a = v1.amount - Accrued(p, 1)
    BY <1>5, <1>6, <1>7 DEF EffectiveRaw, VaultRaw, RaydiumData, Owned
<1>9. PICK v2 \in Lookup(world, p.vault[2]) :
         /\ v2.layout = "TokenAccount" /\ v2.mint = p.mint[2]
         /\ b = v2.amount - Accrued(p, 2)
    BY <1>5, <1>6, <1>7 DEF EffectiveRaw, VaultRaw, RaydiumData, Owned
<1>10. /\ v1.amount \in Nat /\ v2.amount \in Nat
       /\ \A i \in Sides : /\ p.protocol_fees[i] \in Nat /\ p.fund_fees[i] \in Nat
                           /\ p.creator_fees[i] \in Nat
       /\ p.open_time \in Int
    BY <1>7, <1>8, <1>9, LookedUp DEF WellFormed
<1>11. a > 0 /\ b > 0
    BY <1>1, <1>5 DEF Positive, Sides
<1>12. ~ p.swap_disabled /\ p.open_time <= now
    BY <1>1, <1>5, <1>10 DEF RaydiumNormalized, RaydiumTradingState
<1>13. p \in Reader!PoolWith(world, "PoolState")
    BY <1>7 DEF Reader!PoolWith, Reader!ThePool, PoolKey, Lookup, Reader!Lookup, Key, Reader!Key
<1>14. <<v1, v2>> \in Reader!Both(world, p.vault)
    BY <1>8, <1>9, LookupIsReader DEF Reader!Both
<1> DEFINE fees(i) == p.protocol_fees[i] + p.fund_fees[i] + p.creator_fees[i]
           v == <<v1, v2>>
<1>15. \A i \in Reader!Sides : v[i].mint = p.mint[i] /\ v[i].amount > fees(i)
    BY <1>8, <1>9, <1>10, <1>11 DEF Accrued, Reader!Sides, Sides
<1>16. e.context.effective = [i \in Reader!Sides |-> v[i].amount - fees(i)]
    BY <1>1, <1>5, <1>8, <1>9 DEF Accrued, Reader!Sides, Sides
<1>17. e.normalized.token = [i \in Reader!Sides |-> Reader!Token(p.mint[i], p.vault[i], p.decimals[i])]
    BY <1>1, <1>7 DEF RaydiumNormalized, Reader!Token, Reader!Sides, Sides
<1>18. [token |-> e.normalized.token, raw |-> e.context.effective]
          \in Reader!RaydiumReadings(world, now)
    <2> DEFINE Kept(q) == {w \in Reader!Both(world, q.vault) : \A i \in Reader!Sides :
                             /\ w[i].mint = q.mint[i]
                             /\ w[i].amount > q.protocol_fees[i] + q.fund_fees[i] + q.creator_fees[i]}
               Said(q, w) ==
                 [token |-> [i \in Reader!Sides |-> Reader!Token(q.mint[i], q.vault[i], q.decimals[i])],
                  raw |-> [i \in Reader!Sides |-> w[i].amount
                              - (q.protocol_fees[i] + q.fund_fees[i] + q.creator_fees[i])]]
               Open == {q \in Reader!PoolWith(world, "PoolState") :
                          ~ q.swap_disabled /\ q.open_time <= now}
    <2>1. Reader!RaydiumReadings(world, now) = UNION {{Said(q, w) : w \in Kept(q)} : q \in Open}
        BY DEF Reader!RaydiumReadings
    <2>2. v \in Kept(p) /\ p \in Open
        BY <1>12, <1>13, <1>14, <1>15
    <2>3. [token |-> e.normalized.token, raw |-> e.context.effective] = Said(p, v)
        BY <1>16, <1>17
    <2> HIDE DEF Kept, Said, Open
    <2> QED
        BY <2>1, <2>2, <2>3
<1> QED
    BY <1>1, <1>2, <1>3, <1>5, <1>18 DEF RaydiumNormalized

OfSeven(keys, a, b, c, d, e, f, g) ==
    /\ DOMAIN keys = 1 .. 7 /\ keys[1] = a /\ keys[2] = b
    /\ keys[3] = c /\ keys[4] = d /\ keys[5] = e /\ keys[6] = f /\ keys[7] = g

\* ... and the keys of a PumpSwap call.
LEMMA TwoBetween ==
    ASSUME NEW u, NEW v, NEW w, NEW s, NEW t, IsPair(s), IsPair(t)
    PROVE  OfSeven(<<u>> \o s \o t \o <<v, w>>, u, s[1], s[2], t[1], t[2], v, w)
<1>1. s = <<s[1], s[2]>> /\ t = <<t[1], t[2]>>
    BY DEF IsPair
<1> DEFINE S == {u, v, w, s[1], s[2], t[1], t[2]}
           p == <<u>>
           q == <<v, w>>
<1>2. /\ p \in Seq(S) /\ Len(p) = 1 /\ p[1] = u
      /\ s \in Seq(S) /\ Len(s) = 2
      /\ t \in Seq(S) /\ Len(t) = 2
      /\ q \in Seq(S) /\ Len(q) = 2 /\ q[1] = v /\ q[2] = w
    <2>1. p \in Seq(S) /\ Len(p) = 1 /\ p[1] = u
        OBVIOUS
    <2>2. q \in Seq(S) /\ Len(q) = 2 /\ q[1] = v /\ q[2] = w
        BY PairIsSeq
    <2>3. s \in Seq(S) /\ Len(s) = 2 /\ t \in Seq(S) /\ Len(t) = 2
        <3>1. s[1] \in S /\ s[2] \in S /\ t[1] \in S /\ t[2] \in S
            OBVIOUS
        <3> HIDE DEF S
        <3> QED
            BY <1>1, <3>1, PairIsSeq
    <2> HIDE DEF S, p, q
    <2> QED
        BY <2>1, <2>2, <2>3
<1> HIDE DEF S, p, q
<1> DEFINE ps == p \o s
<1>3. ps \in Seq(S) /\ Joins(ps, p, s)
    BY <1>2, Joined
<1> DEFINE pst == ps \o t
<1>4. pst \in Seq(S) /\ Joins(pst, ps, t)
    <2> HIDE DEF ps
    <2> QED
        BY <1>2, <1>3, Joined
<1> DEFINE keys == pst \o q
<1>5. keys \in Seq(S) /\ Joins(keys, pst, q)
    <2> HIDE DEF pst
    <2> QED
        BY <1>2, <1>4, Joined
<1> HIDE DEF ps, pst, keys
<1>6. Len(ps) = 3 /\ ps[1] = u /\ ps[2] = s[1] /\ ps[3] = s[2]
    <2>1. 1 \in 1 .. Len(p) /\ 1 \in 1 .. Len(s) /\ 2 \in 1 .. Len(s)
        BY <1>2
    <2>2. ps[1] = p[1] /\ ps[Len(p) + 1] = s[1] /\ ps[Len(p) + 2] = s[2] /\ Len(ps) = Len(p) + Len(s)
        BY <1>3, <2>1 DEF Joins
    <2> QED
        BY <1>2, <2>2
<1>7. Len(pst) = 5 /\ (\A i \in 1 .. 3 : pst[i] = ps[i]) /\ pst[4] = t[1] /\ pst[5] = t[2]
    <2>1. 1 \in 1 .. Len(t) /\ 2 \in 1 .. Len(t)
        BY <1>2
    <2>2. /\ \A i \in 1 .. Len(ps) : pst[i] = ps[i]
          /\ pst[Len(ps) + 1] = t[1] /\ pst[Len(ps) + 2] = t[2] /\ Len(pst) = Len(ps) + Len(t)
        BY <1>4, <2>1 DEF Joins
    <2> QED
        BY <1>2, <1>6, <2>2
<1>8. Len(keys) = 7 /\ (\A i \in 1 .. 5 : keys[i] = pst[i]) /\ keys[6] = v /\ keys[7] = w
    <2>1. 1 \in 1 .. Len(q) /\ 2 \in 1 .. Len(q)
        BY <1>2
    <2>2. /\ \A i \in 1 .. Len(pst) : keys[i] = pst[i]
          /\ keys[Len(pst) + 1] = q[1] /\ keys[Len(pst) + 2] = q[2] /\ Len(keys) = Len(pst) + Len(q)
        BY <1>5, <2>1 DEF Joins
    <2> QED
        BY <1>2, <1>7, <2>2
<1>9. DOMAIN keys = 1 .. 7
    BY <1>5, <1>8
<1> QED
    BY <1>6, <1>7, <1>8, <1>9 DEF OfSeven, keys, pst, ps, p, q

\* ... and so it is of PumpSwap.
LEMMA PumpSwapReads ==
    ASSUME NEW world, \A key \in DOMAIN world : WellFormed(world[key]),
           NEW slot \in Int, NEW t, t.pool = PoolKey, t.slot \in Int,
           IsPair(t.state.vault), IsPair(t.state.mint),
           NEW e \in HydratePumpSwap(t, Reply(world, slot, PumpSwapKeys(t))),
           e.normalized.trading_state = "Tradable", Positive(e.context)
    PROVE  /\ e.context.slot = slot /\ e.normalized.slot = t.slot /\ t.slot <= slot
           /\ [token |-> e.normalized.token, raw |-> e.context.effective,
               fees |-> <<e.context.fee_config.flat_fees, e.context.fee_config.fee_tiers,
                          e.context.fee_config.stable_fee_tiers>>]
                 \in Reader!PumpSwapReadings(world)
<1> DEFINE reply == Reply(world, slot, PumpSwapKeys(t))
           acc == reply.accounts
<1>1. PICK snapshot \in ParsePumpSwap(t, reply) :
         e = [normalized |-> PumpSwapNormalized(t, snapshot), context |-> snapshot]
    BY DEF HydratePumpSwap
<1>2. reply.slot = slot
    BY DEF Reply
<1>3. ~ (reply.slot < t.slot)
    BY <1>1 DEF ParsePumpSwap
<1>4. PICK p \in {q \in PumpSwapPoolState(acc[1]) : SamePumpSwapPool(t.state, q)},
           m1 \in PumpSwapMint(acc[4]), m2 \in PumpSwapMint(acc[5]) :
         \E base \in PumpSwapVaultRaw(acc[2], m1, p.mint[1]),
            effective \in UNION {EffectiveQuote(raw, p) :
                raw \in PumpSwapVaultRaw(acc[3], m2, p.mint[2])},
            flags \in DisableFlags(acc[6]), fees \in PumpSwapFeeConfig(acc[7]) :
               snapshot =
                 [slot |-> reply.slot, pool_state |-> p, effective |-> <<base, effective>>,
                  supply |-> m1.supply, decimals |-> <<m1.decimals, m2.decimals>>,
                  trading_state |-> PumpSwapTradingState(flags), fee_config |-> fees]
    BY <1>1 DEF ParsePumpSwap
<1>5. PICK base \in PumpSwapVaultRaw(acc[2], m1, p.mint[1]),
            effective \in UNION {EffectiveQuote(raw, p) :
                raw \in PumpSwapVaultRaw(acc[3], m2, p.mint[2])},
            flags \in DisableFlags(acc[6]), fees \in PumpSwapFeeConfig(acc[7]) :
               snapshot =
                 [slot |-> reply.slot, pool_state |-> p, effective |-> <<base, effective>>,
                  supply |-> m1.supply, decimals |-> <<m1.decimals, m2.decimals>>,
                  trading_state |-> PumpSwapTradingState(flags), fee_config |-> fees]
    BY <1>4
<1>6. /\ acc[1] = Lookup(world, PoolKey)
      /\ acc[2] = Lookup(world, t.state.vault[1]) /\ acc[3] = Lookup(world, t.state.vault[2])
      /\ acc[4] = Lookup(world, t.state.mint[1]) /\ acc[5] = Lookup(world, t.state.mint[2])
      /\ acc[6] = Lookup(world, GlobalConfig) /\ acc[7] = Lookup(world, FeeConfig)
    <2> DEFINE keys == PumpSwapKeys(t)
               s == t.state.vault
               m == t.state.mint
    <2>1. keys = <<PoolKey>> \o s \o m \o <<GlobalConfig, FeeConfig>>
        BY DEF PumpSwapKeys
    <2>2. IsPair(s) /\ IsPair(m)
        OBVIOUS
    <2> HIDE DEF s, m, keys
    <2>3. OfSeven(keys, PoolKey, s[1], s[2], m[1], m[2], GlobalConfig, FeeConfig)
        BY <2>1, <2>2, TwoBetween
    <2>4. \A i \in 1 .. 7 : acc[i] = Lookup(world, keys[i])
        BY <2>3, Found DEF OfSeven, keys
    <2> HIDE DEF acc
    <2> QED
        BY <2>3, <2>4 DEF OfSeven, s, m
<1> HIDE DEF acc, reply
<1>7. /\ p \in Lookup(world, PoolKey) /\ p.layout = "Pool" /\ WellFormed(p)
      /\ p.mint = t.state.mint /\ p.vault = t.state.vault
    BY <1>4, <1>6, LookedUp DEF PumpSwapPoolState, Decoded, Owned, SamePumpSwapPool
<1>8. PICK v1 \in Lookup(world, p.vault[1]) : v1.mint = p.mint[1] /\ base = v1.amount
    BY <1>5, <1>6, <1>7 DEF PumpSwapVaultRaw, Decoded, Owned
<1>9. PICK v2 \in Lookup(world, p.vault[2]) :
         v2.mint = p.mint[2] /\ effective = v2.amount + p.virtual_quote_reserves
    <2>1. PICK raw \in PumpSwapVaultRaw(acc[3], m2, p.mint[2]) : effective \in EffectiveQuote(raw, p)
        BY <1>5
    <2>2. effective = raw + p.virtual_quote_reserves
        BY <2>1 DEF EffectiveQuote
    <2> QED
        BY <1>6, <1>7, <2>1, <2>2 DEF PumpSwapVaultRaw, Decoded, Owned
<1>10. base > 0 /\ effective > 0
    BY <1>1, <1>5 DEF Positive, Sides
<1>11. m1 \in Lookup(world, p.mint[1]) /\ m2 \in Lookup(world, p.mint[2])
    BY <1>4, <1>6, <1>7 DEF PumpSwapMint
<1>12. fees \in Lookup(world, FeeConfig)
    BY <1>5, <1>6 DEF PumpSwapFeeConfig, Decoded, Owned
<1>13. PICK g \in Lookup(world, GlobalConfig) : flags = g.disable_flags
    BY <1>5, <1>6 DEF DisableFlags, Decoded, Owned
<1>14. g.disable_flags \cap {"buy", "sell"} = {}
    BY <1>1, <1>5, <1>13 DEF PumpSwapNormalized, PumpSwapTradingState
<1>15. p \in Reader!PoolWith(world, "Pool")
    BY <1>7 DEF Reader!PoolWith, Reader!ThePool, PoolKey, Lookup, Reader!Lookup, Key, Reader!Key
<1> DEFINE v == <<v1, v2>>
           m == <<m1, m2>>
<1>16. v \in Reader!Both(world, p.vault) /\ m \in Reader!Both(world, p.mint)
    BY <1>8, <1>9, <1>11, LookupIsReader DEF Reader!Both
<1>17. /\ \A i \in Reader!Sides : v[i].mint = p.mint[i]
       /\ v[1].amount > 0 /\ v[2].amount + p.virtual_quote_reserves > 0
    BY <1>8, <1>9, <1>10 DEF Reader!Sides
<1>18. e.context.effective = <<v[1].amount, v[2].amount + p.virtual_quote_reserves>>
    BY <1>1, <1>5, <1>8, <1>9
<1>19. e.normalized.token = [i \in Reader!Sides |-> Reader!Token(p.mint[i], p.vault[i], m[i].decimals)]
    BY <1>1, <1>5, <1>7 DEF PumpSwapNormalized, Reader!Token, Reader!Sides, Sides
<1>20. e.context.fee_config = fees
    BY <1>1, <1>5
<1>21. /\ fees \in Reader!Lookup(world, Reader!Key("pumpswap_fee_config", 0))
       /\ g \in {f \in Reader!Lookup(world, Reader!Key("pumpswap_global_config", 0)) :
                   f.disable_flags \cap {"buy", "sell"} = {}}
    BY <1>12, <1>13, <1>14 DEF Lookup, Reader!Lookup, Key, Reader!Key, FeeConfig, GlobalConfig
<1> HIDE DEF v, m
<1>22. [token |-> e.normalized.token, raw |-> e.context.effective,
        fees |-> <<e.context.fee_config.flat_fees, e.context.fee_config.fee_tiers,
                   e.context.fee_config.stable_fee_tiers>>]
          \in Reader!PumpSwapReadings(world)
    <2> DEFINE Kept(q) == {w \in Reader!Both(world, q.vault) :
                             /\ \A i \in Reader!Sides : w[i].mint = q.mint[i]
                             /\ w[1].amount > 0
                             /\ w[2].amount + q.virtual_quote_reserves > 0}
               Configs == Reader!Lookup(world, Reader!Key("pumpswap_fee_config", 0))
               Enabled == {f \in Reader!Lookup(world, Reader!Key("pumpswap_global_config", 0)) :
                             f.disable_flags \cap {"buy", "sell"} = {}}
               Said(q, w, n, c) ==
                 [token |-> [i \in Reader!Sides |-> Reader!Token(q.mint[i], q.vault[i], n[i].decimals)],
                  raw |-> <<w[1].amount, w[2].amount + q.virtual_quote_reserves>>,
                  fees |-> <<c.flat_fees, c.fee_tiers, c.stable_fee_tiers>>]
               Inner(q) == {Said(q, w, n, c) : w \in Kept(q), n \in Reader!Both(world, q.mint),
                                              c \in Configs, f \in Enabled}
    <2>1. Reader!PumpSwapReadings(world) =
            UNION {Inner(q) : q \in Reader!PoolWith(world, "Pool")}
        BY DEF Reader!PumpSwapReadings
    <2>2. v \in Kept(p) /\ fees \in Configs /\ g \in Enabled
        BY <1>16, <1>17, <1>21
    <2>3. [token |-> e.normalized.token, raw |-> e.context.effective,
           fees |-> <<e.context.fee_config.flat_fees, e.context.fee_config.fee_tiers,
                      e.context.fee_config.stable_fee_tiers>>] = Said(p, v, m, fees)
        BY <1>18, <1>19, <1>20
    <2> HIDE DEF Kept, Said, Configs, Enabled
    <2>4. Said(p, v, m, fees) \in Inner(p)
        BY <1>16, <2>2
    <2> HIDE DEF Inner
    <2> QED
        BY <1>15, <2>1, <2>3, <2>4
<1> QED
    BY <1>1, <1>2, <1>3, <1>5, <1>22 DEF PumpSwapNormalized

ThreeAnd(r, u, a, b, q) ==
    /\ Len(q) \in Nat /\ Len(r) = 3 + Len(q) /\ DOMAIN r = 1 .. 3 + Len(q)
    /\ r[1] = u /\ r[2] = a /\ r[3] = b
    /\ \A i \in 1 .. Len(q) : r[3 + i] = q[i]

\* A key, a pair of keys and others: where each of them is.
LEMMA AfterPair ==
    ASSUME NEW S, NEW u \in S, NEW s, IsPair(s), s[1] \in S, s[2] \in S, NEW q \in Seq(S)
    PROVE  <<u>> \o s \o q \in Seq(S) /\ ThreeAnd(<<u>> \o s \o q, u, s[1], s[2], q)
<1> DEFINE p == <<u>>
           ps == p \o s
           r == ps \o q
<1>1. p \in Seq(S) /\ Len(p) = 1 /\ p[1] = u
    OBVIOUS
<1>2. s \in Seq(S) /\ Len(s) = 2
    BY PairIsSeq DEF IsPair
<1> HIDE DEF p
<1>3. ps \in Seq(S) /\ Joins(ps, p, s)
    BY <1>1, <1>2, Joined
<1>4. r \in Seq(S) /\ Joins(r, ps, q)
    <2> HIDE DEF ps
    <2> QED
        BY <1>3, Joined
<1> HIDE DEF ps, r
<1>5. Len(ps) = 3 /\ ps[1] = u /\ ps[2] = s[1] /\ ps[3] = s[2]
    <2>1. 1 \in 1 .. Len(p) /\ 1 \in 1 .. Len(s) /\ 2 \in 1 .. Len(s)
        BY <1>1, <1>2
    <2>2. ps[1] = p[1] /\ ps[Len(p) + 1] = s[1] /\ ps[Len(p) + 2] = s[2] /\ Len(ps) = Len(p) + Len(s)
        BY <1>3, <2>1 DEF Joins
    <2> QED
        BY <1>1, <1>2, <2>2
<1>6. /\ Len(q) \in Nat /\ Len(r) = 3 + Len(q) /\ DOMAIN r = 1 .. 3 + Len(q)
      /\ \A i \in 1 .. 3 : r[i] = ps[i]
      /\ \A i \in 1 .. Len(q) : r[3 + i] = q[i]
    BY <1>4, <1>5 DEF Joins
<1>7. r[1] = u /\ r[2] = s[1] /\ r[3] = s[2]
    BY <1>5, <1>6
<1> QED
    BY <1>4, <1>6, <1>7 DEF ThreeAnd, r, ps, p

\* What is left by a division.
LEMMA Remainder == \A n \in Int, d \in Nat \ {0} : n % d = n - d * (n \div d)
BY Z3

\* bounded_tick_array_start_indexes: the array of a tick begins at the only multiple
\* of the width that is no more than a width below it.
LEMMA BeginsAt ==
    ASSUME NEW n \in Int, NEW w \in Nat \ {0}
    PROVE  (CHOOSE m \in n - w + 1 .. n : m % w = 0) = (n \div w) * w
<1> DEFINE q == n \div w
           k == q * w
<1>1. q \in Int /\ w * q <= n /\ n < w * q + w
    BY FloorBounds
<1>2. w * q = k /\ k \in Int
    BY <1>1, Commutes
<1>3. k \in n - w + 1 .. n
    BY <1>1, <1>2
<1>4. ASSUME NEW m \in Int, NEW x \in Int, m = x * w PROVE m % w = 0
    <2> DEFINE y == m \div w
    <2>1. y \in Int /\ w * y <= m /\ m < w * y + w
        BY FloorBounds
    <2> HIDE DEF y
    <2>2. w * y = y * w /\ y * w \in Int /\ (y + 1) * w = y * w + w
        BY <2>1, Z3
    <2>3. m < (y + 1) * w /\ y * w <= m
        BY <2>1, <2>2
    <2>4. x < y + 1
        BY <1>4, <2>1, <2>3, Cancels
    <2>5. ~ (x < y)
        <3>1. (x + 1) * w = x * w + w
            BY Z3
        <3> SUFFICES ASSUME x < y PROVE FALSE
            OBVIOUS
        <3>2. x + 1 <= y
            BY <2>1
        <3>3. x * w < y * w
            BY <2>1, Z3
        <3> QED
            BY <1>4, <2>2, <2>3, <3>3
    <2>6. x = y
        BY <2>1, <2>4, <2>5
    <2>7. m % w = m - w * y
        BY Remainder DEF y
    <2> QED
        BY <1>4, <2>1, <2>2, <2>6, <2>7
<1>5. k % w = 0
    BY <1>1, <1>2, <1>4
<1>6. ASSUME NEW m \in n - w + 1 .. n, m % w = 0 PROVE m = k
    <2> DEFINE y == m \div w
    <2>1. y \in Int /\ m = w * y
        BY <1>6, Remainder, FloorBounds, Z3
    <2> HIDE DEF y
    <2>2. w * y <= n /\ n < w * y + w
        BY <2>1
    <2>3. w * y = y * w /\ w * q = q * w /\ (y + 1) * w = y * w + w /\ (q + 1) * w = q * w + w
        BY <1>1, <2>1, Z3
    <2> HIDE DEF q, k
    <2>4. y * w < (q + 1) * w /\ q * w < (y + 1) * w
        BY <1>1, <2>1, <2>2, <2>3
    <2>5. y < q + 1 /\ q < y + 1
        BY <1>1, <2>1, <2>4, Cancels
    <2>6. y = q
        BY <1>1, <2>1, <2>5
    <2> QED
        BY <1>2, <2>1, <2>6
<1> HIDE DEF k, q
<1>7. (CHOOSE m \in n - w + 1 .. n : m % w = 0) = k
    BY <1>3, <1>5, <1>6
<1> QED
    BY <1>7 DEF k, q

\* The five starts are those of the array of the price and its neighbours.
LEMMA TickArrayStartsAre ==
    ASSUME NEW p, p.tick_spacing \in Nat \ {0}, p.tick_current_index \in Int
    PROVE  /\ DOMAIN TickArrayStarts(p) = 1 .. 5
           /\ ToSet(TickArrayStarts(p)) =
                LET width == p.tick_spacing * TickArraySize
                    middle == CHOOSE n \in p.tick_current_index - width + 1 .. p.tick_current_index :
                                 n % width = 0
                IN  {middle + k * width : k \in -2 .. 2}
<1> DEFINE w == p.tick_spacing * TickArraySize
           n == p.tick_current_index
           c == (n \div w) * w
<1>1. w \in Nat \ {0}
    BY TickArrayAssumption, Z3
<1>2. TickArrayStarts(p) = <<c, c + w, c + 2 * w, c - w, c - 2 * w>>
    BY DEF TickArrayStarts
<1>3. (CHOOSE m \in n - w + 1 .. n : m % w = 0) = c
    <2> HIDE DEF w, n
    <2> QED
        BY <1>1, BeginsAt DEF n
<1>4. c \in Int
    <2>1. n \div w \in Int
        BY <1>1, FloorBounds
    <2> QED
        BY <1>1, <2>1, Z3
<1> HIDE DEF c
<1> DEFINE s == <<c, c + w, c + 2 * w, c - w, c - 2 * w>>
<1>5. DOMAIN s = 1 .. 5 /\ ToSet(s) = {c, c + w, c + 2 * w, c - w, c - 2 * w}
    <2>1. /\ DOMAIN s = 1 .. 5 /\ s[1] = c /\ s[2] = c + w /\ s[3] = c + 2 * w
          /\ s[4] = c - w /\ s[5] = c - 2 * w
        OBVIOUS
    <2> HIDE DEF s, w
    <2> QED
        BY <2>1 DEF ToSet
<1>6. {c + k * w : k \in -2 .. 2} = {c, c + w, c + 2 * w, c - w, c - 2 * w}
    <2>1. \A k \in -2 .. 2 : k = -2 \/ k = -1 \/ k = 0 \/ k = 1 \/ k = 2
        OBVIOUS
    <2> HIDE DEF w
    <2>2. /\ (-2) * w = - (2 * w) /\ (-1) * w = - w /\ 0 * w = 0 /\ 1 * w = w
        BY <1>1
    <2> DEFINE at == [k \in -2 .. 2 |-> c + k * w]
    <2>3. at[-2] = c - 2 * w /\ at[-1] = c - w /\ at[0] = c /\ at[1] = c + w /\ at[2] = c + 2 * w
        BY <1>1, <1>4, <2>2
    <2>4. {c + k * w : k \in -2 .. 2} = {at[k] : k \in -2 .. 2}
        OBVIOUS
    <2> HIDE DEF at
    <2>5. {at[k] : k \in -2 .. 2} = {at[-2], at[-1], at[0], at[1], at[2]}
        BY <2>1
    <2> QED
        BY <2>3, <2>4, <2>5
<1> QED
    BY <1>2, <1>3, <1>5, <1>6

\* Of the accounts of a reply.
OfOrca(acc, world, t) ==
    /\ acc[1] = Lookup(world, PoolKey)
    /\ acc[2] = Lookup(world, t.state.mint[1]) /\ acc[3] = Lookup(world, t.state.mint[2])
    /\ \A i \in 1 .. 5 : acc[3 + i] = Lookup(world, TickArrayKey(TickArrayStarts(t.state)[i]))
    /\ acc[9] = Lookup(world, ClockSysvar)

\* The accounts of an Orca call are what its keys are, one by one.
LEMMA OrcaKeysAre ==
    ASSUME NEW world, NEW slot, NEW t, t.pool = PoolKey, IsPair(t.state.mint)
    PROVE  OfOrca(Reply(world, slot, OrcaKeys(t)).accounts, world, t)
<1> DEFINE acc == Reply(world, slot, OrcaKeys(t)).accounts
           keys == OrcaKeys(t)
           m == t.state.mint
           starts == TickArrayStarts(t.state)
           q == [i \in 1 .. 5 |-> TickArrayKey(starts[i])]
           S == {PoolKey, m[1], m[2], ClockSysvar} \cup {TickArrayKey(starts[i]) : i \in 1 .. 5}
           r == <<PoolKey>> \o m \o q
<1>1. keys = r \o <<ClockSysvar>>
    BY DEF OrcaKeys
<1>2. q \in Seq(S) /\ Len(q) = 5 /\ \A i \in 1 .. 5 : q[i] = TickArrayKey(starts[i])
    <2> DEFINE K == {TickArrayKey(starts[i]) : i \in 1 .. 5}
    <2> HIDE DEF starts
    <2>1. q \in [1 .. 5 -> K]
        OBVIOUS
    <2>2. K \subseteq S
        OBVIOUS
    <2> HIDE DEF K, S
    <2>3. q \in [1 .. 5 -> S] /\ \A i \in 1 .. 5 : q[i] = TickArrayKey(starts[i])
        BY <2>1, <2>2
    <2> DEFINE n == 5
    <2>4. n \in Nat /\ q \in [1 .. n -> S]
        BY <2>3
    <2> HIDE DEF q, n
    <2>5. q \in Seq(S) /\ Len(q) = n
        BY <2>4
    <2>6. q \in Seq(S) /\ Len(q) = 5
        BY <2>5 DEF n
    <2> QED
        BY <2>3, <2>6
<1>3. PoolKey \in S /\ m[1] \in S /\ m[2] \in S /\ ClockSysvar \in S
    OBVIOUS
<1>4. IsPair(m)
    OBVIOUS
<1> HIDE DEF q, S, m, keys, starts
<1>5. /\ r \in Seq(S) /\ Len(r) = 8
      /\ r[1] = PoolKey /\ r[2] = m[1] /\ r[3] = m[2]
      /\ \A i \in 1 .. 5 : r[3 + i] = TickArrayKey(starts[i])
    <2>1. r \in Seq(S) /\ ThreeAnd(r, PoolKey, m[1], m[2], q)
        BY <1>2, <1>3, <1>4, AfterPair
    <2> HIDE DEF r
    <2> QED
        BY <1>2, <2>1 DEF ThreeAnd
<1> HIDE DEF r
<1> DEFINE k == r \o <<ClockSysvar>>
<1>6. <<ClockSysvar>> \in Seq(S) /\ Len(<<ClockSysvar>>) = 1 /\ <<ClockSysvar>>[1] = ClockSysvar
    BY <1>3
<1>7. Joins(k, r, <<ClockSysvar>>)
    BY <1>5, <1>6, Joined
<1> HIDE DEF k
<1>8. /\ DOMAIN k = 1 .. 9 /\ k[9] = ClockSysvar /\ \A i \in 1 .. 8 : k[i] = r[i]
    <2>1. 1 \in 1 .. 1
        OBVIOUS
    <2> QED
        BY <1>5, <1>6, <1>7, <2>1 DEF Joins
<1>9. keys = k
    BY <1>1 DEF k
<1>10. \A i \in 1 .. 9 : acc[i] = Lookup(world, k[i])
    BY <1>8, <1>9, Found DEF keys
<1> HIDE DEF acc
<1>11. \A i \in 1 .. 5 : 3 + i \in 1 .. 8 /\ 3 + i \in 1 .. 9
    OBVIOUS
<1>12. \A i \in 1 .. 5 : acc[3 + i] = Lookup(world, TickArrayKey(starts[i]))
    BY <1>5, <1>8, <1>10, <1>11
<1>13. /\ acc[1] = Lookup(world, PoolKey) /\ acc[2] = Lookup(world, m[1])
       /\ acc[3] = Lookup(world, m[2]) /\ acc[9] = Lookup(world, ClockSysvar)
    BY <1>5, <1>8, <1>10
<1>14. OfOrca(acc, world, t)
    BY <1>12, <1>13 DEF OfOrca, m, starts
<1> QED
    BY <1>14 DEF acc, keys

\* A tick array account, or the lack of one, says what the chain does.
LEMMA TicksAreRead ==
    ASSUME NEW world, \A key \in DOMAIN world : WellFormed(world[key]), NEW key, NEW pool, NEW start,
           NEW ticks \in TickArrayOrZero(Lookup(world, key), pool, start)
    PROVE  (IF ticks = NoTicks THEN {} ELSE {ticks}) = {a.ticks : a \in Lookup(world, key)}
<1>1. CASE Lookup(world, key) = {}
    <2>1. ticks = NoTicks
        BY <1>1 DEF TickArrayOrZero
    <2> QED
        BY <1>1, <2>1
<1>2. CASE Lookup(world, key) # {}
    <2>1. PICK a \in Lookup(world, key) :
             /\ ticks = a.ticks
             /\ a.layout = "FixedTickArray" \/ a.layout = "DynamicTickArray"
        BY <1>2 DEF TickArrayOrZero, FixedTicks, DynamicTicks, Decoded, Owned
    <2>2. Lookup(world, key) = {a} /\ WellFormed(a)
        BY LookedUp
    <2>3. a.ticks # NoTicks
        BY <2>1, <2>2 DEF WellFormed
    <2> QED
        BY <2>1, <2>2, <2>3
<1> QED
    BY <1>1, <1>2

\* transfer_fee_for_epoch is the fee of the epoch that the Clock shows.
LEMMA FeeIsInForce ==
    ASSUME NEW m, WellFormed(m), NEW epoch \in Nat, NEW fee \in TransferFees({m}, epoch)
    PROVE  fee = Reader!TransferFee(m, epoch)
<1>1. m.layout = "Mint"
    BY DEF TransferFees
<1> DEFINE x == m.extensions
<1>2. /\ x \in Seq(STRING) /\ (m.owner = "spl_token" => x = <<>>)
      /\ \A i, j \in DOMAIN x : x[i] = "Uninitialized" /\ i <= j => x[j] = "Uninitialized"
      /\ m.newer_fee.epoch \in Nat
    BY <1>1 DEF WellFormed
<1>3. CASE m.owner = "spl_token"
    <2>1. fee = 0
        BY <1>3 DEF TransferFees
    <2>2. DOMAIN x = {}
        BY <1>2, <1>3
    <2> QED
        BY <2>1, <2>2 DEF Reader!TransferFee
<1>4. CASE m.owner = "token_2022"
    <2>1. fee = IF HasTransferFee(m) THEN FeeInForce(m, epoch) ELSE 0
        BY <1>4 DEF TransferFees
    <2>2. HasTransferFee(m) <=> \E i \in DOMAIN x : x[i] = "TransferFeeConfig"
        <3>1. DOMAIN x = 1 .. Len(x) /\ Len(x) \in Nat
            BY <1>2
        <3>2. ASSUME NEW i \in DOMAIN x, x[i] = "TransferFeeConfig" PROVE i \in ExtensionsRead(m)
            <4>1. \A j \in 1 .. i : j \in DOMAIN x /\ j <= i
                BY <3>1
            <4>2. \A j \in 1 .. i : x[j] # "Uninitialized"
                BY <1>2, <3>2, <4>1
            <4> QED
                BY <4>2 DEF ExtensionsRead
        <3>3. \A i \in ExtensionsRead(m) : i \in DOMAIN x
            BY DEF ExtensionsRead
        <3> QED
            BY <3>2, <3>3 DEF HasTransferFee
    <2>3. epoch >= m.newer_fee.epoch <=> m.newer_fee.epoch <= epoch
        BY <1>2
    <2> QED
        BY <2>1, <2>2, <2>3 DEF FeeInForce, Reader!TransferFee
<1> QED
    BY <1>3, <1>4 DEF TransferFees

\* The ticks of the arrays that were read are those of the arrays around the price.
LEMMA OrcaTicksAre ==
    ASSUME NEW world, \A key \in DOMAIN world : WellFormed(world[key]),
           NEW p, p.tick_spacing \in Nat \ {0}, p.tick_current_index \in Int,
           NEW pool, NEW arrays,
           \A i \in 1 .. 5 : arrays[i] \in
              TickArrayOrZero(Lookup(world, TickArrayKey(TickArrayStarts(p)[i])), pool,
                              TickArrayStarts(p)[i])
    PROVE  [start \in ToSet(TickArrayStarts(p)) |->
              UNION {IF arrays[i] = NoTicks THEN {} ELSE {arrays[i]} :
                       i \in {j \in 1 .. 5 : TickArrayStarts(p)[j] = start}}]
             = Reader!Ticks(world, p)
<1> DEFINE s == TickArrayStarts(p)
           at(start) == UNION {IF arrays[i] = NoTicks THEN {} ELSE {arrays[i]} :
                                 i \in {j \in 1 .. 5 : s[j] = start}}
           is(start) == {a.ticks : a \in Lookup(world, TickArrayKey(start))}
           w == p.tick_spacing * TickArraySize
           middle == CHOOSE n \in p.tick_current_index - w + 1 .. p.tick_current_index : n % w = 0
           Five == {middle + k * w : k \in -2 .. 2}
<1>1. DOMAIN s = 1 .. 5 /\ ToSet(s) = Five
    BY TickArrayStartsAre
<1>2. ASSUME NEW i \in 1 .. 5
      PROVE  (IF arrays[i] = NoTicks THEN {} ELSE {arrays[i]}) = is(s[i])
    BY TicksAreRead
<1>3. Reader!Ticks(world, p) = [start \in Five |-> is(start)]
    BY DEF Reader!Ticks, Lookup, Reader!Lookup, TickArrayKey, Key, Reader!Key
<1> HIDE DEF s, Five, is
<1>4. ASSUME NEW start \in ToSet(s) PROVE at(start) = is(start)
    <2>1. \E j \in 1 .. 5 : s[j] = start
        BY <1>1, <1>4 DEF ToSet
    <2> QED
        BY <1>2, <2>1
<1> HIDE DEF at
<1>5. [start \in ToSet(s) |-> at(start)] = Reader!Ticks(world, p)
    BY <1>1, <1>3, <1>4
<1> QED
    BY <1>5 DEF at, s

\* Each of the arrays read is one that its place in the reply may say.
LEMMA TickArraysAreFound ==
    ASSUME NEW t, NEW reply, NEW arrays \in TickArrays(t, reply)
    PROVE  \A i \in 1 .. 5 : arrays[i] \in
              TickArrayOrZero(reply.accounts[3 + i], t.pool, TickArrayStarts(t.state)[i])
<1> DEFINE found(i) == TickArrayOrZero(reply.accounts[3 + i], t.pool, TickArrayStarts(t.state)[i])
<1>1. /\ \A i \in 1 .. 5 : found(i) # {}
      /\ arrays = [i \in 1 .. 5 |-> CHOOSE ticks \in found(i) : TRUE]
    BY DEF TickArrays
<1> HIDE DEF found
<1>2. \A i \in 1 .. 5 : arrays[i] = CHOOSE ticks \in found(i) : TRUE
    BY <1>1
<1>3. \A i \in 1 .. 5 : arrays[i] \in found(i)
    BY <1>1, <1>2
<1> QED
    BY <1>3 DEF found

OrcaTicks(c) ==
    [start \in ToSet(TickArrayStarts(c.pool_state)) |->
        UNION {IF c.tick_arrays[i] = NoTicks THEN {} ELSE {c.tick_arrays[i]} :
                 i \in {j \in 1 .. 5 : TickArrayStarts(c.pool_state)[j] = start}}]

\* ... and so it is of Orca.
LEMMA OrcaReads ==
    ASSUME NEW world, \A key \in DOMAIN world : WellFormed(world[key]),
           NEW slot \in Int, NEW t, t.pool = PoolKey, t.slot \in Int, IsPair(t.state.mint),
           NEW quotable, NEW e \in HydrateOrca(t, Reply(world, slot, OrcaKeys(t)), quotable)
    PROVE  /\ e.context.slot = slot /\ e.normalized.slot = t.slot /\ t.slot <= slot
           /\ [token |-> e.normalized.token, price |-> e.context.pool_state.tick_current_index,
               ticks |-> OrcaTicks(e.context),
               transfer_fee |-> e.context.transfer_fee, timestamp |-> e.context.timestamp]
                 \in Reader!OrcaReadings(world)
<1> DEFINE reply == Reply(world, slot, OrcaKeys(t))
           acc == reply.accounts
<1>1. PICK snapshot \in ParseOrca(t, reply, quotable) :
         e = [normalized |-> OrcaNormalized(t, snapshot), context |-> snapshot]
    BY DEF HydrateOrca
<1>2. reply.slot = slot
    BY DEF Reply
<1>3. ~ (reply.slot < t.slot) /\ t.state.tick_spacing # 0
    BY <1>1 DEF ParseOrca
<1>4. PICK p \in {q \in OrcaPoolState(acc[1]) :
                    /\ SameWhirlpool(t.state, q)
                    /\ TickArrayStarts(q) = TickArrayStarts(t.state)
                    /\ q.mint[1] # q.mint[2]},
           clock \in OrcaClock(acc[9]) :
         \E fee1 \in TransferFees(acc[2], clock.epoch), fee2 \in TransferFees(acc[3], clock.epoch),
            m1 \in acc[2], m2 \in acc[3], arrays \in TickArrays(t, reply) :
               snapshot =
                 [slot |-> reply.slot, pool_state |-> p, decimals |-> <<m1.decimals, m2.decimals>>,
                  tick_arrays |-> arrays, timestamp |-> clock.unix_timestamp,
                  transfer_fee |-> <<fee1, fee2>>, contention |-> Contention(t, p)]
    BY <1>1 DEF ParseOrca
<1>5. PICK fee1 \in TransferFees(acc[2], clock.epoch), fee2 \in TransferFees(acc[3], clock.epoch),
           m1 \in acc[2], m2 \in acc[3], arrays \in TickArrays(t, reply) :
               snapshot =
                 [slot |-> reply.slot, pool_state |-> p, decimals |-> <<m1.decimals, m2.decimals>>,
                  tick_arrays |-> arrays, timestamp |-> clock.unix_timestamp,
                  transfer_fee |-> <<fee1, fee2>>, contention |-> Contention(t, p)]
    BY <1>4
<1>6. OfOrca(acc, world, t)
    BY OrcaKeysAre
<1>7. \A i \in 1 .. 5 : arrays[i] \in
         TickArrayOrZero(acc[3 + i], t.pool, TickArrayStarts(t.state)[i])
    BY <1>5, TickArraysAreFound
<1> HIDE DEF acc, reply
<1>8. /\ p \in Lookup(world, PoolKey) /\ p.layout = "Whirlpool"
      /\ p.mint = t.state.mint /\ p.vault = t.state.vault
      /\ p.tick_spacing = t.state.tick_spacing /\ TickArrayStarts(p) = TickArrayStarts(t.state)
    BY <1>4, <1>6 DEF OfOrca, OrcaPoolState, Decoded, Owned, SameWhirlpool
<1>9. WellFormed(p)
    BY <1>8, LookedUp
<1>10. p.tick_spacing \in Nat \ {0} /\ p.tick_current_index \in Int
    BY <1>3, <1>8, <1>9 DEF WellFormed
<1>11. /\ m1 \in Lookup(world, p.mint[1]) /\ m2 \in Lookup(world, p.mint[2])
       /\ clock \in Lookup(world, ClockSysvar) /\ clock.layout = "Clock"
    BY <1>4, <1>5, <1>6, <1>8 DEF OfOrca, OrcaClock, Decoded, Owned
<1>12. /\ WellFormed(m1) /\ Lookup(world, p.mint[1]) = {m1}
       /\ WellFormed(m2) /\ Lookup(world, p.mint[2]) = {m2}
       /\ WellFormed(clock)
    BY <1>11, LookedUp
<1>13. clock.epoch \in Nat
    BY <1>11, <1>12 DEF WellFormed
<1>14. fee1 \in TransferFees({m1}, clock.epoch) /\ fee2 \in TransferFees({m2}, clock.epoch)
    BY <1>5, <1>6, <1>8, <1>12 DEF OfOrca
<1>15. fee1 = Reader!TransferFee(m1, clock.epoch) /\ fee2 = Reader!TransferFee(m2, clock.epoch)
    BY <1>12, <1>13, <1>14, FeeIsInForce
<1>16. OrcaTicks(e.context) = Reader!Ticks(world, p)
    <2>1. e.context.pool_state = p /\ e.context.tick_arrays = arrays
        BY <1>1, <1>5
    <2>2. \A i \in 1 .. 5 : arrays[i] \in
             TickArrayOrZero(Lookup(world, TickArrayKey(TickArrayStarts(p)[i])), t.pool,
                             TickArrayStarts(p)[i])
        BY <1>6, <1>7, <1>8 DEF OfOrca
    <2>3. [start \in ToSet(TickArrayStarts(p)) |->
             UNION {IF arrays[i] = NoTicks THEN {} ELSE {arrays[i]} :
                      i \in {j \in 1 .. 5 : TickArrayStarts(p)[j] = start}}]
            = Reader!Ticks(world, p)
        BY <1>10, <2>2, OrcaTicksAre
    <2> QED
        BY <2>1, <2>3 DEF OrcaTicks
<1>17. p \in Reader!PoolWith(world, "Whirlpool")
    BY <1>8 DEF Reader!PoolWith, Reader!ThePool, PoolKey, Lookup, Reader!Lookup, Key, Reader!Key
<1> DEFINE m == <<m1, m2>>
<1>18. m \in Reader!Both(world, p.mint)
    BY <1>11, LookupIsReader DEF Reader!Both
<1>19. clock \in Reader!Lookup(world, Reader!Key("clock", 0))
    BY <1>11 DEF Lookup, Reader!Lookup, Key, Reader!Key, ClockSysvar
<1>20. e.context.transfer_fee = [i \in Reader!Sides |-> Reader!TransferFee(m[i], clock.epoch)]
    BY <1>1, <1>5, <1>15 DEF Reader!Sides
<1>21. e.normalized.token = [i \in Reader!Sides |-> Reader!Token(p.mint[i], p.vault[i], m[i].decimals)]
    BY <1>1, <1>5, <1>8 DEF OrcaNormalized, Reader!Token, Reader!Sides, Sides
<1>22. /\ e.context.pool_state.tick_current_index = p.tick_current_index
       /\ e.context.timestamp = clock.unix_timestamp
    BY <1>1, <1>5
<1> HIDE DEF m
<1>23. [token |-> e.normalized.token, price |-> e.context.pool_state.tick_current_index,
        ticks |-> OrcaTicks(e.context),
        transfer_fee |-> e.context.transfer_fee, timestamp |-> e.context.timestamp]
          \in Reader!OrcaReadings(world)
    <2> DEFINE Clocks == Reader!Lookup(world, Reader!Key("clock", 0))
               Said(q, n, c) ==
                 [token |-> [i \in Reader!Sides |-> Reader!Token(q.mint[i], q.vault[i], n[i].decimals)],
                  price |-> q.tick_current_index, ticks |-> Reader!Ticks(world, q),
                  transfer_fee |-> [i \in Reader!Sides |-> Reader!TransferFee(n[i], c.epoch)],
                  timestamp |-> c.unix_timestamp]
               Inner(q) == {Said(q, n, c) : n \in Reader!Both(world, q.mint), c \in Clocks}
    <2>1. Reader!OrcaReadings(world) =
            UNION {Inner(q) : q \in Reader!PoolWith(world, "Whirlpool")}
        BY DEF Reader!OrcaReadings
    <2>2. [token |-> e.normalized.token, price |-> e.context.pool_state.tick_current_index,
           ticks |-> OrcaTicks(e.context),
           transfer_fee |-> e.context.transfer_fee, timestamp |-> e.context.timestamp]
            = Said(p, m, clock)
        BY <1>16, <1>20, <1>21, <1>22
    <2> HIDE DEF Said, Clocks
    <2>3. Said(p, m, clock) \in Inner(p)
        BY <1>18, <1>19 DEF Clocks
    <2> HIDE DEF Inner
    <2> QED
        BY <1>17, <2>1, <2>2, <2>3
<1> QED
    BY <1>1, <1>2, <1>3, <1>5, <1>23 DEF OrcaNormalized

\* The arrays from the active one up to another, whichever way it lies.
LEMMA AheadIsUntil ==
    ASSUME NEW start \in Indexes, NEW swapForY \in BOOLEAN, NEW i \in Ahead(start, swapForY)
    PROVE  /\ Ahead(start, swapForY) \cap Ahead(i, ~ swapForY) = Reader!Until(start, i)
           /\ i \in Reader!Until(start, i)
           /\ \A j \in Reader!Until(start, i) : j \in Ahead(start, swapForY)
                                               /\ Reader!Until(start, j) \subseteq Reader!Until(start, i)
<1>1. BinArrayMinIndex \in Int /\ BinArrayMaxIndex \in Int
    BY ArrayAssumption
<1>2. CASE swapForY
    BY <1>1, <1>2 DEF Ahead, Indexes, Reader!Until
<1>3. CASE ~ swapForY
    BY <1>1, <1>3 DEF Ahead, Indexes, Reader!Until
<1> QED
    BY <1>2, <1>3

\* A first array is readable, initialized, and has few others before it.
LEMMA FirstArraysAre ==
    ASSUME NEW base, NEW start \in Indexes, NEW swapForY \in BOOLEAN
    PROVE  FirstArrays(base, start, swapForY) =
             {i \in base.bitmap \cap Ahead(start, swapForY) :
                 /\ Reader!Until(start, i) \subseteq Known(base)
                 /\ Cardinality(Reader!Until(start, i) \cap base.bitmap) <= MaxArraysPerDirection}
<1> DEFINE found == Readable(base, start, swapForY) \cap base.bitmap
           A == Ahead(start, swapForY)
           U(i) == Reader!Until(start, i)
<1>1. \A i \in A : A \cap Ahead(i, ~ swapForY) = U(i)
    BY AheadIsUntil
<1>2. \A i \in A : i \in U(i) /\ \A j \in U(i) : j \in A /\ U(j) \subseteq U(i)
    BY AheadIsUntil
<1>3. found = {i \in A : i \in base.bitmap /\ U(i) \subseteq Known(base)}
    BY <1>1 DEF Readable
<1>4. FirstArrays(base, start, swapForY) =
        {i \in found : Cardinality(found \cap Ahead(i, ~ swapForY)) <= MaxArraysPerDirection}
    BY DEF FirstArrays
<1> HIDE DEF found, A, U
<1>5. ASSUME NEW i \in found PROVE found \cap Ahead(i, ~ swapForY) = U(i) \cap base.bitmap
    <2>1. i \in A /\ U(i) \subseteq Known(base)
        BY <1>3
    <2>2. \A j \in U(i) : j \in A /\ U(j) \subseteq Known(base)
        BY <1>2, <2>1
    <2>3. \A j \in A : j \in Ahead(i, ~ swapForY) <=> j \in U(i)
        BY <1>1, <2>1
    <2> QED
        BY <1>3, <2>2, <2>3
<1>6. FirstArrays(base, start, swapForY) =
        {i \in found : Cardinality(U(i) \cap base.bitmap) <= MaxArraysPerDirection}
    BY <1>4, <1>5
<1> QED
    BY <1>3, <1>6 DEF A, U

\* In the order of either direction every array is listed.
LEMMA OrderedListed ==
    ASSUME NEW T, T \subseteq Indexes, NEW swapForY \in BOOLEAN
    PROVE  InOrder(T, swapForY) \in Seq(Indexes) /\ ToSet(InOrder(T, swapForY)) = T
<1> DEFINE w == [i \in T |-> IF swapForY THEN -i ELSE i]
           r == Ranked(T, w)
           n == Cardinality(T)
<1>1. Weighed(T, w)
    <2>1. BinArrayMinIndex \in Int /\ BinArrayMaxIndex \in Int
        BY ArrayAssumption
    <2>2. IsFiniteSet(T)
        BY <2>1, FS_Interval, FS_Subset DEF Indexes
    <2>3. \A i \in T : i \in Int
        BY <2>1 DEF Indexes
    <2> QED
        BY <2>2, <2>3 DEF Weighed
<1> HIDE DEF w
<1>2. /\ n \in Nat /\ r \in [1 .. n -> T]
      /\ \A i \in T : \E k \in 1 .. n : r[k] = i
    BY <1>1, RankedIsOrdered
<1>3. InOrder(T, swapForY) = r
    BY DEF InOrder, w
<1> HIDE DEF r, n
<1>4. r \in Seq(Indexes) /\ DOMAIN r = 1 .. n
    BY <1>2
<1>5. ToSet(r) = T
    BY <1>2, <1>4 DEF ToSet
<1> QED
    BY <1>3, <1>4, <1>5

\* Joining two lists joins what they list.
LEMMA JoinedListed ==
    ASSUME NEW S, NEW s \in Seq(S), NEW t \in Seq(S)
    PROVE  s \o t \in Seq(S) /\ ToSet(s \o t) = ToSet(s) \cup ToSet(t)
<1> DEFINE r == s \o t
<1>1. r \in Seq(S) /\ Joins(r, s, t)
    BY Joined
<1> HIDE DEF r
<1>2. /\ DOMAIN s = 1 .. Len(s) /\ DOMAIN t = 1 .. Len(t) /\ DOMAIN r = 1 .. Len(s) + Len(t)
      /\ Len(s) \in Nat /\ Len(t) \in Nat
    BY <1>1 DEF Joins
<1>3. ASSUME NEW x \in ToSet(r) PROVE x \in ToSet(s) \cup ToSet(t)
    <2>1. PICK i \in DOMAIN r : r[i] = x
        BY DEF ToSet
    <2> QED
        BY <1>1, <1>2, <2>1 DEF Joins, ToSet
<1>4. ASSUME NEW x \in ToSet(s) PROVE x \in ToSet(r)
    <2>1. PICK i \in DOMAIN s : s[i] = x
        BY DEF ToSet
    <2>2. i \in DOMAIN r /\ r[i] = x
        BY <1>1, <1>2, <2>1 DEF Joins
    <2> QED
        BY <2>2 DEF ToSet
<1>5. ASSUME NEW x \in ToSet(t) PROVE x \in ToSet(r)
    <2>1. PICK i \in DOMAIN t : t[i] = x
        BY DEF ToSet
    <2>2. Len(s) + i \in DOMAIN r /\ r[Len(s) + i] = x
        BY <1>1, <1>2, <2>1 DEF Joins
    <2> QED
        BY <2>2 DEF ToSet
<1>6. ToSet(r) = ToSet(s) \cup ToSet(t)
    BY <1>3, <1>4, <1>5
<1> QED
    BY <1>1, <1>6 DEF r

\* Readers and readings count alike.
LEMMA SameCardinality == \A S : Reader!Cardinality(S) = Cardinality(S)
BY DEF Reader!Cardinality, Cardinality

\* What the bitmaps tell of is what has an index.
LEMMA KnownIsIndexed == \A base : Known(base) \subseteq Indexes
BY ArrayAssumption DEF Known, Indexes, InternalIndexes

\* A plan is of indexes.
LEMMA PlanIsIndexed == \A base : CertifiedArrays(base) \in Seq(Indexes)
<1> TAKE base
<1> DEFINE start == BinArrayIndex(base.pair.active_id)
           down == FirstArrays(base, start, TRUE)
           up == FirstArrays(base, start, FALSE)
<1>1. CASE start \in Indexes
    <2>1. CertifiedArrays(base) = InOrder(down, TRUE) \o InOrder(up \ down, FALSE)
        BY <1>1 DEF CertifiedArrays
    <2>2. Ahead(start, TRUE) \subseteq Indexes /\ Ahead(start, FALSE) \subseteq Indexes
        <3> HIDE DEF start
        <3> QED
            BY <1>1, ArrayAssumption DEF Ahead, Indexes
    <2>3. down \subseteq Indexes /\ up \ down \subseteq Indexes
        BY <2>2 DEF FirstArrays, Readable
    <2> HIDE DEF down, up
    <2>4. InOrder(down, TRUE) \in Seq(Indexes) /\ InOrder(up \ down, FALSE) \in Seq(Indexes)
        BY <2>3, OrderedListed
    <2> DEFINE a == InOrder(down, TRUE)
               b == InOrder(up \ down, FALSE)
    <2> HIDE DEF a, b
    <2>5. a \in Seq(Indexes) /\ b \in Seq(Indexes) /\ CertifiedArrays(base) = a \o b
        BY <2>1, <2>4 DEF a, b
    <2> QED
        BY <2>5, JoinedListed
<1>2. CASE start \notin Indexes
    BY <1>2 DEF CertifiedArrays
<1> QED
    BY <1>1, <1>2

\* certified_directional_bin_array_pubkeys: a plan is the arrays that a quote may need.
LEMMA PlanIsNeeded ==
    ASSUME NEW base, base.bitmap \subseteq Int, CertifiedArrays(base) # << >>
    PROVE  /\ CertifiedArrays(base) \in Seq(Indexes)
           /\ ToSet(CertifiedArrays(base)) =
                Reader!Needed(BinArrayIndex(base.pair.active_id), base.bitmap, Known(base))
<1> DEFINE start == BinArrayIndex(base.pair.active_id)
           down == FirstArrays(base, start, TRUE)
           up == FirstArrays(base, start, FALSE)
           Near(i) == /\ Reader!Until(start, i) \subseteq Known(base)
                      /\ Cardinality(Reader!Until(start, i) \cap base.bitmap) <= MaxArraysPerDirection
<1>1. start \in Indexes /\ CertifiedArrays(base) = InOrder(down, TRUE) \o InOrder(up \ down, FALSE)
    BY DEF CertifiedArrays
<1> HIDE DEF start
<1>2. /\ down = {i \in base.bitmap \cap Ahead(start, TRUE) : Near(i)}
      /\ up = {i \in base.bitmap \cap Ahead(start, FALSE) : Near(i)}
    BY <1>1, FirstArraysAre
<1>3. Reader!Needed(start, base.bitmap, Known(base)) = {i \in base.bitmap : Near(i)}
    BY SameCardinality DEF Reader!Needed
<1>4. Ahead(start, TRUE) \subseteq Indexes /\ Ahead(start, FALSE) \subseteq Indexes
    BY <1>1, ArrayAssumption DEF Ahead, Indexes
<1>5. ASSUME NEW i \in base.bitmap, Near(i)
      PROVE  i \in Ahead(start, TRUE) \cup Ahead(start, FALSE)
    <2>1. start \in Indexes /\ i \in Int /\ BinArrayMinIndex \in Int /\ BinArrayMaxIndex \in Int
        BY <1>1, ArrayAssumption
    <2>2. Reader!Until(start, i) \subseteq Indexes
        BY <1>5, KnownIsIndexed
    <2>3. i \in Indexes
        BY <2>1, <2>2 DEF Reader!Until, Indexes
    <2> QED
        BY <2>1, <2>3 DEF Ahead, Indexes
<1> HIDE DEF down, up, Near
<1>6. down \subseteq Indexes /\ up \ down \subseteq Indexes
    BY <1>2, <1>4
<1>7. /\ InOrder(down, TRUE) \in Seq(Indexes) /\ ToSet(InOrder(down, TRUE)) = down
      /\ InOrder(up \ down, FALSE) \in Seq(Indexes) /\ ToSet(InOrder(up \ down, FALSE)) = up \ down
    BY <1>6, OrderedListed
<1>8. /\ CertifiedArrays(base) \in Seq(Indexes)
      /\ ToSet(CertifiedArrays(base)) = down \cup (up \ down)
    <2> DEFINE a == InOrder(down, TRUE)
               b == InOrder(up \ down, FALSE)
    <2>1. a \in Seq(Indexes) /\ b \in Seq(Indexes) /\ ToSet(a) = down /\ ToSet(b) = up \ down
        BY <1>7
    <2>2. CertifiedArrays(base) = a \o b
        BY <1>1
    <2> HIDE DEF a, b
    <2> QED
        BY <2>1, <2>2, JoinedListed
<1>9. down \cup (up \ down) = {i \in base.bitmap : Near(i)}
    BY <1>2, <1>5
<1> QED
    BY <1>3, <1>8, <1>9 DEF start

OfMeteora(acc, world, t, arrays) ==
    /\ acc[1] = Lookup(world, t.pool)
    /\ acc[2] = Lookup(world, t.state.mint[1]) /\ acc[3] = Lookup(world, t.state.mint[2])
    /\ acc[4] = Lookup(world, MeteoraClock) /\ acc[5] = Lookup(world, BitmapExtensionKey)
    /\ \A k \in DOMAIN arrays : acc[5 + k] = Lookup(world, BinArrayKey(arrays[k]))

\* The accounts of a second Meteora call are what its keys are, one by one.
LEMMA MeteoraKeysAre ==
    ASSUME NEW world, NEW slot, NEW t, IsPair(t.state.mint), NEW arrays \in Seq(Indexes)
    PROVE  OfMeteora(Reply(world, slot, QuoteKeys(t, arrays)).accounts, world, t, arrays)
<1> DEFINE mint == t.state.mint
           S == {t.pool, mint[1], mint[2], MeteoraClock, BitmapExtensionKey}
                  \cup {BinArrayKey(i) : i \in Indexes}
           pair == <<MeteoraClock, BitmapExtensionKey>>
           base == BaseKeys(t)
           rest == [i \in DOMAIN arrays |-> BinArrayKey(arrays[i])]
           keys == QuoteKeys(t, arrays)
<1>1. /\ t.pool \in S /\ mint[1] \in S /\ mint[2] \in S /\ MeteoraClock \in S
      /\ BitmapExtensionKey \in S /\ \A i \in Indexes : BinArrayKey(i) \in S
    OBVIOUS
<1>2. base = <<t.pool>> \o mint \o pair /\ keys = base \o rest
    BY DEF BaseKeys, QuoteKeys
<1>3. DOMAIN arrays = 1 .. Len(arrays) /\ Len(arrays) \in Nat /\ \A i \in DOMAIN arrays : arrays[i] \in Indexes
    OBVIOUS
<1>4. /\ \A i \in DOMAIN arrays : rest[i] = BinArrayKey(arrays[i])
      /\ DOMAIN rest = DOMAIN arrays
    OBVIOUS
<1> HIDE DEF S, rest, base, keys
<1>5. rest \in Seq(S) /\ Len(rest) = Len(arrays)
    <2>1. rest \in [1 .. Len(arrays) -> S]
        BY <1>1, <1>3 DEF rest
    <2> QED
        BY <1>3, <2>1
<1>6. /\ base \in Seq(S) /\ Len(base) = 5 /\ base[1] = t.pool /\ base[2] = mint[1]
      /\ base[3] = mint[2] /\ base[4] = MeteoraClock /\ base[5] = BitmapExtensionKey
    <2>1. /\ pair \in Seq(S) /\ Len(pair) = 2
          /\ pair[1] = MeteoraClock /\ pair[2] = BitmapExtensionKey
        BY <1>1, PairIsSeq
    <2> HIDE DEF pair
    <2>2. base \in Seq(S) /\ ThreeAnd(base, t.pool, mint[1], mint[2], pair)
        BY <1>1, <1>2, <2>1, AfterPair
    <2>3. 1 \in 1 .. Len(pair) /\ 2 \in 1 .. Len(pair)
        BY <2>1
    <2>4. base[3 + 1] = MeteoraClock /\ base[3 + 2] = BitmapExtensionKey
        BY <2>1, <2>2, <2>3 DEF ThreeAnd
    <2> QED
        BY <2>1, <2>2, <2>4 DEF ThreeAnd
<1>7. keys \in Seq(S) /\ Joins(keys, base, rest)
    BY <1>2, <1>5, <1>6, Joined
<1>8. /\ \A i \in 1 .. 5 : i \in DOMAIN keys /\ keys[i] = base[i]
      /\ \A k \in DOMAIN arrays : 5 + k \in DOMAIN keys /\ keys[5 + k] = BinArrayKey(arrays[k])
    <2>1. /\ DOMAIN keys = 1 .. 5 + Len(arrays) /\ \A i \in 1 .. 5 : keys[i] = base[i]
          /\ \A k \in 1 .. Len(arrays) : keys[5 + k] = rest[k]
        BY <1>5, <1>6, <1>7 DEF Joins
    <2> QED
        BY <1>3, <1>4, <2>1
<1> DEFINE acc == Reply(world, slot, keys).accounts
<1>9. \A i \in DOMAIN keys : acc[i] = Lookup(world, keys[i])
    BY DEF Reply
<1> HIDE DEF acc
<1>10. /\ acc[1] = Lookup(world, base[1]) /\ acc[2] = Lookup(world, base[2])
       /\ acc[3] = Lookup(world, base[3]) /\ acc[4] = Lookup(world, base[4])
       /\ acc[5] = Lookup(world, base[5])
    BY <1>8, <1>9
<1>11. \A k \in DOMAIN arrays : acc[5 + k] = Lookup(world, BinArrayKey(arrays[k]))
    BY <1>8, <1>9
<1>12. OfMeteora(acc, world, t, arrays)
    BY <1>6, <1>10, <1>11 DEF OfMeteora
<1> QED
    BY <1>12 DEF acc, keys

BinsOf(bins, world, arrays) ==
    /\ DOMAIN bins = ToSet(arrays)
    /\ \A i \in ToSet(arrays) : {bins[i]} = {a.bins : a \in Lookup(world, BinArrayKey(i))}

\* The bins of an array that was planned are those of the account at its address.
LEMMA BinArraysAre ==
    ASSUME NEW world, NEW t, NEW reply, NEW arrays,
           OfMeteora(reply.accounts, world, t, arrays),
           NEW bins \in BinArrays(t, arrays, reply)
    PROVE  BinsOf(bins, world, arrays)
<1> DEFINE found(k) == {a \in Decoded(reply.accounts[5 + k], "meteora", "BinArray") :
                          /\ a.version \in {2, 3}
                          /\ a.index = arrays[k]
                          /\ a.lb_pair = t.pool}
           All == UNION {found(k) : k \in DOMAIN arrays}
<1>1. /\ \A k \in DOMAIN arrays : found(k) # {}
      /\ bins = [i \in ToSet(arrays) |-> (CHOOSE a \in All : a.index = i).bins]
    BY DEF BinArrays
<1>2. \A k \in DOMAIN arrays : \A a \in found(k) :
         a.index = arrays[k] /\ a \in Lookup(world, BinArrayKey(arrays[k]))
    BY DEF OfMeteora, Decoded, Owned
<1> HIDE DEF found
<1>3. ASSUME NEW i \in ToSet(arrays)
      PROVE  {bins[i]} = {a.bins : a \in Lookup(world, BinArrayKey(i))}
    <2> DEFINE b == CHOOSE a \in All : a.index = i
    <2>1. PICK k \in DOMAIN arrays : arrays[k] = i
        BY DEF ToSet
    <2>2. \E a \in All : a.index = i
        BY <1>1, <1>2, <2>1
    <2>3. b \in All /\ b.index = i
        BY <2>2
    <2>4. bins[i] = b.bins
        BY <1>1
    <2> HIDE DEF b
    <2>5. PICK j \in DOMAIN arrays : b \in found(j)
        BY <2>3
    <2>6. b \in Lookup(world, BinArrayKey(i))
        BY <1>2, <2>3, <2>5
    <2>7. Lookup(world, BinArrayKey(i)) = {b}
        BY <2>6 DEF Lookup
    <2> QED
        BY <2>4, <2>7
<1>4. DOMAIN bins = ToSet(arrays)
    BY <1>1
<1> QED
    BY <1>3, <1>4 DEF BinsOf

BaseOf(base, world, t, slot) ==
    /\ base.slot = slot /\ ~ (slot < t.slot)
    /\ base.pair \in Lookup(world, t.pool) /\ base.pair.layout = "LbPair"
    /\ Admissible(base.pair) /\ base.pair.mint = t.state.mint
    /\ base.clock \in Lookup(world, MeteoraClock) /\ base.clock.layout = "Clock"
    /\ \E m1 \in Lookup(world, t.state.mint[1]), m2 \in Lookup(world, t.state.mint[2]) :
          base.decimals = <<m1.decimals, m2.decimals>>
    /\ \E e \in BitmapExtensions(Lookup(world, BitmapExtensionKey), t.pool) :
          /\ base.extension = e.extension
          /\ base.bitmap = e.bits \cup (base.pair.bitmap \cap InternalIndexes)

\* What the first five accounts say, found at a world.
LEMMA BaseIsOf ==
    ASSUME NEW world, NEW t, NEW reply, NEW arrays,
           OfMeteora(reply.accounts, world, t, arrays), NEW base \in Bases(t, reply)
    PROVE  BaseOf(base, world, t, reply.slot)
<1> DEFINE acc == reply.accounts
           Pools == {p \in MeteoraPoolState(acc[1]) : SameLbPair(t.state, p)}
           Clocks(p) == {c \in Decoded(acc[4], "sysvar", "Clock") : ClockFits(p, c)}
           Say(p, m1, m2, c, e) ==
             [slot |-> reply.slot, pair |-> p, clock |-> c, extension |-> e.extension,
              bitmap |-> e.bits \cup (p.bitmap \cap InternalIndexes),
              decimals |-> <<m1.decimals, m2.decimals>>]
           Inner(p) == {Say(p, m1, m2, c, e) :
              m1 \in MeteoraMint(acc[2], p.program[1]),
              m2 \in MeteoraMint(acc[3], p.program[2]),
              c \in Clocks(p), e \in BitmapExtensions(acc[5], t.pool)}
<1>1. ~ (reply.slot < t.slot) /\ base \in UNION {Inner(p) : p \in Pools}
    BY DEF Bases
<1> HIDE DEF Inner, Pools
<1>2. PICK p \in Pools : base \in Inner(p)
    BY <1>1
<1> HIDE DEF Say, Clocks
<1>3. PICK m1 \in MeteoraMint(acc[2], p.program[1]), m2 \in MeteoraMint(acc[3], p.program[2]),
           c \in Clocks(p), e \in BitmapExtensions(acc[5], t.pool) : base = Say(p, m1, m2, c, e)
    BY <1>2 DEF Inner
<1>4. /\ p \in acc[1] /\ p.layout = "LbPair" /\ Admissible(p) /\ p.mint = t.state.mint
    BY <1>2 DEF Pools, MeteoraPoolState, SameLbPair, Decoded, Owned
<1>5. m1 \in acc[2] /\ m2 \in acc[3]
    BY <1>3 DEF MeteoraMint, Decoded, Owned
<1>6. c \in acc[4] /\ c.layout = "Clock"
    BY <1>3 DEF Clocks, Decoded, Owned
<1>7. /\ base.slot = reply.slot /\ base.pair = p /\ base.clock = c /\ base.extension = e.extension
      /\ base.bitmap = e.bits \cup (p.bitmap \cap InternalIndexes)
      /\ base.decimals = <<m1.decimals, m2.decimals>>
    BY <1>3 DEF Say
<1>8. \E n1 \in acc[2], n2 \in acc[3] : base.decimals = <<n1.decimals, n2.decimals>>
    BY <1>5, <1>7
<1>9. \E f \in BitmapExtensions(acc[5], t.pool) :
         /\ base.extension = f.extension
         /\ base.bitmap = f.bits \cup (base.pair.bitmap \cap InternalIndexes)
    BY <1>3, <1>7
<1> QED
    BY <1>1, <1>4, <1>6, <1>7, <1>8, <1>9 DEF OfMeteora, BaseOf

\* The bits that can be read are those of the LbPair and of its extension.
LEMMA BitmapIsOf ==
    ASSUME NEW world, \A key \in DOMAIN world : WellFormed(world[key]),
           NEW pool, NEW base,
           base.pair.bitmap \subseteq Int,
           NEW e \in BitmapExtensions(Lookup(world, BitmapExtensionKey), pool),
           base.extension = e.extension,
           base.bitmap = e.bits \cup (base.pair.bitmap \cap InternalIndexes)
    PROVE  LET x == Lookup(world, BitmapExtensionKey)
           IN  /\ base.bitmap = (base.pair.bitmap \cap InternalIndexes) \cup UNION {f.bits : f \in x}
               /\ Known(base) = IF x = {} THEN InternalIndexes ELSE Indexes
               /\ base.bitmap \subseteq Int
<1> DEFINE x == Lookup(world, BitmapExtensionKey)
<1>1. CASE x = {}
    <2>1. e.bits = {} /\ e.extension = FALSE
        BY <1>1 DEF BitmapExtensions
    <2>2. UNION {f.bits : f \in x} = {}
        BY <1>1
    <2> HIDE DEF x
    <2> QED
        BY <1>1, <2>1, <2>2 DEF Known, x
<1>2. CASE x # {}
    <2>1. PICK f \in x : /\ e = [extension |-> TRUE, bits |-> f.bits] /\ f.layout = "BitmapExtension"
        BY <1>2 DEF BitmapExtensions, Decoded, Owned
    <2>2. x = {f} /\ WellFormed(f)
        BY <2>1, LookedUp
    <2>3. f.bits \subseteq Indexes
        BY <2>1, <2>2 DEF WellFormed
    <2>4. f.bits \subseteq Int
        BY <2>3, ArrayAssumption DEF Indexes
    <2>5. UNION {g.bits : g \in x} = f.bits
        BY <2>2
    <2>6. e.bits = f.bits /\ e.extension = TRUE
        BY <2>1
    <2> HIDE DEF x
    <2> QED
        BY <1>2, <2>4, <2>5, <2>6 DEF Known, x
<1> QED
    BY <1>1, <1>2

\* ... and so it is of Meteora, though the plan was made from another answer.
LEMMA MeteoraReads ==
    ASSUME NEW world, \A key \in DOMAIN world : WellFormed(world[key]),
           NEW slot \in Int, NEW t, t.pool = PoolKey, t.slot \in Int, IsPair(t.state.mint),
           NEW arrays, arrays # << >>, NEW id,
           NEW e \in HydrateMeteora(t, arrays, Reply(world, slot, QuoteKeys(t, arrays)), id)
    PROVE  /\ e.context.slot = slot /\ e.normalized.slot = slot /\ t.slot <= slot
           /\ [token |-> e.normalized.token, active_id |-> e.context.base.pair.active_id,
               bins |-> [i \in DOMAIN e.context.arrays |-> {e.context.arrays[i]}]]
                 \in Reader!MeteoraReadings(world)
<1> DEFINE reply == Reply(world, slot, QuoteKeys(t, arrays))
<1>1. PICK base \in {b \in Bases(t, reply) :
                       /\ Len(reply.accounts) = 5 + Len(arrays)
                       /\ PlanStillFits(arrays, b)
                       /\ MeteoraTradingState(b.pair, b.clock) = "Tradable"} :
         \E bins \in {b \in BinArrays(t, arrays, reply) : FirstTargetsRead(base, b)} :
            e = [normalized |-> MeteoraNormalized(t, base),
                 context |-> [slot |-> base.slot, generation |-> id, base |-> base,
                              arrays |-> bins]]
    BY DEF HydrateMeteora
<1>2. PICK bins \in BinArrays(t, arrays, reply) :
         e = [normalized |-> MeteoraNormalized(t, base),
              context |-> [slot |-> base.slot, generation |-> id, base |-> base, arrays |-> bins]]
    BY <1>1
<1>3. reply.slot = slot
    BY DEF Reply
<1>4. arrays \in Seq(Indexes)
    BY <1>1, PlanIsIndexed DEF PlanStillFits
<1>5. OfMeteora(reply.accounts, world, t, arrays)
    BY <1>4, MeteoraKeysAre
<1> HIDE DEF reply
<1>6. BaseOf(base, world, t, slot)
    BY <1>1, <1>3, <1>5, BaseIsOf
<1>7. BinsOf(bins, world, arrays)
    BY <1>2, <1>5, BinArraysAre
<1> DEFINE p == base.pair
           c == base.clock
<1>8. /\ base.slot = slot /\ ~ (slot < t.slot)
      /\ p \in Lookup(world, PoolKey) /\ p.layout = "LbPair"
      /\ Admissible(p) /\ p.mint = t.state.mint
      /\ c \in Lookup(world, MeteoraClock) /\ c.layout = "Clock"
    BY <1>6 DEF BaseOf
<1>9. PICK m1 \in Lookup(world, p.mint[1]), m2 \in Lookup(world, p.mint[2]) :
         base.decimals = <<m1.decimals, m2.decimals>>
    BY <1>8, <1>6 DEF BaseOf
<1>10. PICK f \in BitmapExtensions(Lookup(world, BitmapExtensionKey), t.pool) :
         /\ base.extension = f.extension
         /\ base.bitmap = f.bits \cup (p.bitmap \cap InternalIndexes)
    BY <1>6 DEF BaseOf
<1>11. /\ WellFormed(p) /\ WellFormed(c)
    BY <1>8, LookedUp
<1>12. /\ p.active_id \in Int /\ p.activation_point \in Nat /\ p.bitmap \subseteq Int
      /\ c.slot \in Nat /\ c.unix_timestamp \in Int
    BY <1>8, <1>11 DEF WellFormed
<1> DEFINE x == Lookup(world, BitmapExtensionKey)
           start == BinArrayIndex(p.active_id)
           bits == (p.bitmap \cap InternalIndexes) \cup UNION {g.bits : g \in x}
           known == IF x = {} THEN InternalIndexes ELSE Indexes
<1>13. base.bitmap = bits /\ Known(base) = known /\ base.bitmap \subseteq Int
    BY <1>10, <1>12, BitmapIsOf
<1>14. CertifiedArrays(base) = arrays
    BY <1>1 DEF PlanStillFits
<1>15. ToSet(arrays) = Reader!Needed(start, bits, known)
    <2> HIDE DEF bits, known
    <2> QED
        BY <1>13, <1>14, PlanIsNeeded
<1>16. /\ DOMAIN bins = ToSet(arrays)
       /\ \A i \in ToSet(arrays) : {bins[i]} = {a.bins : a \in Lookup(world, BinArrayKey(i))}
    BY <1>7 DEF BinsOf
<1>17. p.status = "Enabled"
    BY <1>1, <1>8 DEF Admissible, MeteoraTradingState
<1>18. p.pair_type \in {"Permission", "CustomizablePermissionless"} /\ p.activation_point > 0
         => p.activation_point <= IF p.activation_type = "Slot" THEN c.slot ELSE c.unix_timestamp
    <2>1. ~ OpensLater(p, c)
        BY <1>1, <1>8 DEF MeteoraTradingState
    <2> QED
        BY <1>12, <2>1 DEF OpensLater, ActivationGated
<1>19. p \in {q \in Reader!PoolWith(world, "LbPair") : q.status = "Enabled"}
    BY <1>8, <1>17 DEF Reader!PoolWith, Reader!ThePool, PoolKey, Lookup, Reader!Lookup, Key, Reader!Key
<1> DEFINE m == <<m1, m2>>
<1>20. m \in Reader!Both(world, p.mint)
    BY <1>9, LookupIsReader DEF Reader!Both
<1>21. c \in Reader!Lookup(world, Reader!Key("clock", 0))
    BY <1>8 DEF Lookup, Reader!Lookup, Key, Reader!Key, MeteoraClock
<1>22. e.normalized.token = [i \in Reader!Sides |-> Reader!Token(p.mint[i], p.reserve[i], m[i].decimals)]
    <2>1. \A i \in {1, 2} : base.decimals[i] = m[i].decimals
        BY <1>9
    <2>2. e.normalized.token = [i \in {1, 2} |-> [mint |-> t.state.mint[i], vault |-> p.reserve[i],
                                                 decimals |-> base.decimals[i]]]
        BY <1>2 DEF MeteoraNormalized, Sides
    <2> HIDE DEF m, p
    <2> QED
        BY <1>8, <2>1, <2>2 DEF Reader!Token, Reader!Sides
<1> DEFINE N == Reader!Needed(start, bits, known)
           arraysRead == [i \in N |-> {a.bins : a \in Lookup(world, BinArrayKey(i))}]
           said == [token |-> e.normalized.token, active_id |-> p.active_id, bins |-> arraysRead]
<1>23. [token |-> e.normalized.token, active_id |-> e.context.base.pair.active_id,
        bins |-> [i \in DOMAIN e.context.arrays |-> {e.context.arrays[i]}]] = said
    <2>1. e.context.arrays = bins /\ e.context.base.pair.active_id = p.active_id
        BY <1>2
    <2> HIDE DEF N, p
    <2>2. DOMAIN bins = N /\ \A i \in N : {bins[i]} = {a.bins : a \in Lookup(world, BinArrayKey(i))}
        BY <1>15, <1>16 DEF N
    <2>3. [i \in DOMAIN bins |-> {bins[i]}] = arraysRead
        BY <2>2
    <2> QED
        BY <2>1, <2>3
<1>24. said \in Reader!MeteoraReadings(world)
    <2> DEFINE NeededOf(q, y) ==
                 Reader!Needed(Reader!BinArrayIndex(q.active_id),
                               (q.bitmap \cap Reader!InternalIndexes) \cup UNION {g.bits : g \in y},
                               IF y = {} THEN Reader!InternalIndexes ELSE Reader!Indexes)
               Said(q, n, y) ==
                 [token |-> [i \in Reader!Sides |-> Reader!Token(q.mint[i], q.reserve[i], n[i].decimals)],
                  active_id |-> q.active_id,
                  bins |-> [i \in NeededOf(q, y) |->
                              {a.bins : a \in Reader!Lookup(world, Reader!Key("bin_array", i))}]]
               Gate(q) == {k \in Reader!Lookup(world, Reader!Key("clock", 0)) :
                  /\ q.pair_type \in {"Permission", "CustomizablePermissionless"}
                  /\ q.activation_point > 0
                  => q.activation_point <= IF q.activation_type = "Slot" THEN k.slot ELSE k.unix_timestamp}
               Extensions == {Reader!Lookup(world, Reader!Key("bitmap_extension", 0))}
               Inner(q) == {Said(q, n, y) : n \in Reader!Both(world, q.mint), y \in Extensions,
                                            k \in Gate(q)}
               Enabled == {q \in Reader!PoolWith(world, "LbPair") : q.status = "Enabled"}
    <2>1. Reader!MeteoraReadings(world) = UNION {Inner(q) : q \in Enabled}
        BY DEF Reader!MeteoraReadings
    <2>2. p \in Enabled
        BY <1>19
    <2>3. Reader!Lookup(world, Reader!Key("bitmap_extension", 0)) = x
        BY DEF Reader!Lookup, Lookup, Reader!Key, Key, BitmapExtensionKey
    <2>4. m \in Reader!Both(world, p.mint) /\ c \in Gate(p) /\ x \in Extensions
        BY <1>18, <1>20, <1>21, <2>3
    <2>5. NeededOf(p, x) = N
        BY DEF Reader!Indexes, Indexes, Reader!InternalIndexes, InternalIndexes,
               Reader!BinArrayIndex, BinArrayIndex
    <2>6. \A i : Reader!Lookup(world, Reader!Key("bin_array", i)) = Lookup(world, BinArrayKey(i))
        BY DEF Reader!Lookup, Lookup, Reader!Key, Key, BinArrayKey
    <2> HIDE DEF N, NeededOf, x, m
    <2>7. said = Said(p, m, x)
        BY <1>22, <2>5, <2>6
    <2> HIDE DEF Said, Gate, Extensions, Enabled, said, p, c
    <2>8. Said(p, m, x) \in Inner(p)
        BY <2>4
    <2> HIDE DEF Inner
    <2> QED
        BY <2>1, <2>2, <2>7, <2>8
<1>25. e.context.slot = slot /\ e.normalized.slot = slot /\ t.slot <= slot
    BY <1>2, <1>8 DEF MeteoraNormalized
<1> QED
    BY <1>23, <1>24, <1>25

\* What is hydrated names the pool, from a slot that there was.
TriggerFits ==
    /\ venue = "Meteora" => phase # "read"
    /\ \A t \in trigger :
          /\ t.pool = PoolKey /\ t.slot \in Nat \ {0} /\ IsPair(t.state.mint)
          /\ venue \in {"Raydium", "PumpSwap"} => IsPair(t.state.vault)

\* Every world there was is well formed.
LEMMA WorldsFit ==
    ASSUME venue \in DOMAIN Worlds, chain \in Seq(Worlds[venue])
    PROVE  \A s \in DOMAIN chain : /\ s \in Nat \ {0}
                                   /\ \A key \in DOMAIN chain[s] : WellFormed(chain[s][key])
<1> DEFINE W == Worlds[venue]
<1>1. \A world \in W : \A key \in DOMAIN world : WellFormed(world[key])
    BY WorldsAssumption
<1> HIDE DEF W
<1>2. \A s \in DOMAIN chain : s \in Nat \ {0} /\ chain[s] \in W
    BY DEF W
<1> QED
    BY <1>1, <1>2

\* What starts a hydration is the pool, as the chain had it at some slot.
LEMMA PoolAtFits ==
    ASSUME venue \in DOMAIN Worlds, chain \in Seq(Worlds[venue]),
           NEW slot \in DOMAIN chain, NEW lookup, NEW t \in PoolAt(slot, lookup)
    PROVE  /\ t.pool = PoolKey /\ t.slot \in Nat \ {0} /\ IsPair(t.state.mint)
           /\ venue \in {"Raydium", "PumpSwap"} => IsPair(t.state.vault)
<1> DEFINE account == Lookup(chain[slot], PoolKey)
<1>1. /\ t.pool = PoolKey /\ t.slot = slot /\ t.state \in PoolState(account)
    BY DEF PoolAt
<1>2. slot \in Nat \ {0} /\ \A a \in account : WellFormed(a)
    BY WorldsFit, LookedUp
<1> HIDE DEF account
<1>3. venue \in {"Raydium", "PumpSwap", "Orca", "Meteora"}
    BY HydrationAssumption
<1>4. CASE venue = "Raydium"
    <2>1. t.state \in account /\ t.state.layout = "PoolState"
        BY <1>1, <1>4 DEF PoolState, RaydiumPoolState, RaydiumData, Owned
    <2> QED
        BY <1>1, <1>2, <2>1 DEF WellFormed
<1>5. CASE venue = "PumpSwap"
    <2>1. t.state \in account /\ t.state.layout = "Pool"
        BY <1>1, <1>5 DEF PoolState, PumpSwapPoolState, Decoded, Owned
    <2> QED
        BY <1>1, <1>2, <2>1 DEF WellFormed
<1>6. CASE venue = "Orca"
    <2>1. t.state \in account /\ t.state.layout = "Whirlpool"
        BY <1>1, <1>6 DEF PoolState, OrcaPoolState, Decoded, Owned
    <2> QED
        BY <1>1, <1>2, <1>6, <2>1 DEF WellFormed
<1>7. CASE venue = "Meteora"
    <2>1. t.state \in account /\ t.state.layout = "LbPair"
        BY <1>1, <1>7 DEF PoolState, MeteoraPoolState, Decoded, Owned
    <2> QED
        BY <1>1, <1>2, <1>7, <2>1 DEF WellFormed
<1> QED
    BY <1>3, <1>4, <1>5, <1>6, <1>7

\* Nothing is hydrated at first,
LEMMA InitFits == Init => TriggerFits
BY DEF Init, TriggerFits

\* ... and what is hydrated later started with a pool.
LEMMA TriggerStaysFit ==
    ASSUME Inductive, TriggerFits, [Next]_vars
    PROVE  TriggerFits'
<1>1. CASE UNCHANGED <<venue, trigger>> /\ (phase' = phase \/ phase' # "read")
    BY <1>1 DEF TriggerFits
<1>2. CASE trigger' = {} /\ phase' # "read"
    BY <1>2 DEF TriggerFits
<1>3. CASE Notify \/ LookUp
    <2>1. \/ UNCHANGED <<venue, trigger>> /\ phase' = "loop"
          \/ /\ venue' = venue /\ phase' = IF venue = "Meteora" THEN "base" ELSE "read"
             /\ \E slot \in DOMAIN chain, lookup \in BOOLEAN : \E t \in PoolAt(slot, lookup) : trigger' = {t}
        BY <1>3 DEF Notify, LookUp, Hydrates, hydrating
    <2>2. ASSUME venue' = venue, NEW slot \in DOMAIN chain, NEW lookup \in BOOLEAN,
                 phase' = IF venue = "Meteora" THEN "base" ELSE "read",
                 NEW t \in PoolAt(slot, lookup), trigger' = {t}
          PROVE  TriggerFits'
        BY <2>2, PoolAtFits DEF TriggerFits, Inductive, TypeOK
    <2> QED
        BY <1>1, <2>1, <2>2
<1>4. CASE Enough \/ Listen \/ Tick \/ Ping \/ TimeOut \/ StreamFails \/ Junk \/ ChainGrows
             \/ RateLimited \/ UNCHANGED vars
    <2>1. UNCHANGED <<venue, trigger>> /\ (phase' = phase \/ phase' # "read")
        BY <1>4 DEF Enough, Listen, Tick, Ping, TimeOut, StreamFails, Junk, ChainGrows, RateLimited, vars,
                    hydrating
    <2> QED
        BY <1>1, <2>1
<1>5. CASE CallFails \/ BaseAnswered \/ Answered
    <2>1. /\ phase' # "read"
          /\ trigger' = {} \/ UNCHANGED <<venue, trigger>>
        BY <1>5 DEF CallFails, BaseAnswered, Answered, Reject, AfterLookup, Over
    <2> QED
        BY <1>1, <1>2, <2>1
<1> QED
    BY <1>3, <1>4, <1>5 DEF Next

\* What an entry that is ready says was so at the slot that it was read from.
IsReading(e, slot, now) ==
    /\ e.context.slot = slot /\ e.normalized.slot \in 1 .. slot
    /\ [venue |-> venue, says |-> Says(e)] \in Reader!ReadingOf(chain[slot], now)

\* quote_readiness_for_pool lets through what is a reading of one slot.
LEMMA ReadyIsReading ==
    ASSUME Inductive, TriggerFits, phase \in {"read", "quote"},
           NEW t \in trigger, NEW slot \in DOMAIN chain, NEW now \in Times,
           NEW quotable \in BOOLEAN,
           NEW e \in Hydrated(t, Reply(chain[slot], slot, KeysFor(t)), now, quotable),
           Ready(e)
    PROVE  IsReading(e, slot, now)
<1> DEFINE world == chain[slot]
<1>1. venue \in {"Raydium", "PumpSwap", "Orca", "Meteora"} /\ now \in Int
    BY HydrationAssumption DEF Inductive, TypeOK
<1>2. slot \in Nat \ {0} /\ \A key \in DOMAIN world : WellFormed(world[key])
    BY WorldsFit DEF Inductive, TypeOK
<1>3. /\ t.pool = PoolKey /\ t.slot \in Nat \ {0} /\ IsPair(t.state.mint)
      /\ venue \in {"Raydium", "PumpSwap"} => IsPair(t.state.vault)
    BY DEF TriggerFits
<1>4. e.normalized.trading_state = "Tradable"
    BY DEF Ready
<1> DEFINE reading == [venue |-> venue, says |-> Says(e)]
<1> HIDE DEF world
<1>5. CASE venue = "Raydium"
    <2>1. e \in HydrateRaydium(t, Reply(world, slot, RaydiumKeys(t)), now) /\ Positive(e.context)
        BY <1>5 DEF Hydrated, KeysFor, Ready, world
    <2> DEFINE says == [token |-> e.normalized.token, raw |-> e.context.effective]
    <2>2. /\ e.context.slot = slot /\ e.normalized.slot = t.slot /\ t.slot <= slot
          /\ says \in Reader!RaydiumReadings(world, now)
        BY <1>1, <1>2, <1>3, <1>4, <1>5, <2>1, RaydiumReads
    <2>3. reading = [venue |-> "Raydium", says |-> says]
        BY <1>5 DEF Says
    <2> HIDE DEF reading, says
    <2>4. reading \in Reader!ReadingOf(world, now)
        BY <2>2, <2>3 DEF Reader!ReadingOf
    <2> QED
        BY <1>2, <1>3, <2>2, <2>4 DEF IsReading, reading, world
<1>6. CASE venue = "PumpSwap"
    <2>1. e \in HydratePumpSwap(t, Reply(world, slot, PumpSwapKeys(t))) /\ Positive(e.context)
        BY <1>6 DEF Hydrated, KeysFor, Ready, world
    <2> DEFINE says == [token |-> e.normalized.token, raw |-> e.context.effective,
                 fees |-> <<e.context.fee_config.flat_fees, e.context.fee_config.fee_tiers,
                            e.context.fee_config.stable_fee_tiers>>]
    <2>2. /\ e.context.slot = slot /\ e.normalized.slot = t.slot /\ t.slot <= slot
          /\ says \in Reader!PumpSwapReadings(world)
        BY <1>1, <1>2, <1>3, <1>4, <1>6, <2>1, PumpSwapReads
    <2>3. reading = [venue |-> "PumpSwap", says |-> says]
        BY <1>6 DEF Says
    <2> HIDE DEF reading, says
    <2>4. reading \in Reader!ReadingOf(world, now)
        BY <2>2, <2>3 DEF Reader!ReadingOf
    <2> QED
        BY <1>2, <1>3, <2>2, <2>4 DEF IsReading, reading, world
<1>7. CASE venue = "Orca"
    <2>1. e \in HydrateOrca(t, Reply(world, slot, OrcaKeys(t)), quotable)
        BY <1>7 DEF Hydrated, KeysFor, world
    <2> DEFINE says ==
            [token |-> e.normalized.token, price |-> e.context.pool_state.tick_current_index,
             ticks |-> OrcaTicks(e.context),
             transfer_fee |-> e.context.transfer_fee, timestamp |-> e.context.timestamp]
    <2>2. /\ e.context.slot = slot /\ e.normalized.slot = t.slot /\ t.slot <= slot
          /\ says \in Reader!OrcaReadings(world)
        BY <1>2, <1>3, <2>1, OrcaReads
    <2>3. reading = [venue |-> "Orca", says |-> says]
        BY <1>7 DEF Says, OrcaTicks
    <2> HIDE DEF reading, says
    <2>4. reading \in Reader!ReadingOf(world, now)
        BY <2>2, <2>3 DEF Reader!ReadingOf
    <2> QED
        BY <1>2, <1>3, <2>2, <2>4 DEF IsReading, reading, world
<1>8. CASE venue = "Meteora"
    <2>1. /\ e \in HydrateMeteora(t, plan, Reply(world, slot, QuoteKeys(t, plan)), generation - 1)
          /\ plan # << >>
        <3>1. phase = "quote"
            BY <1>8 DEF TriggerFits
        <3> QED
            BY <1>8, <3>1 DEF Hydrated, KeysFor, world, Inductive, TypeOK
    <2> DEFINE says ==
            [token |-> e.normalized.token, active_id |-> e.context.base.pair.active_id,
             bins |-> [i \in DOMAIN e.context.arrays |-> {e.context.arrays[i]}]]
    <2>2. /\ e.context.slot = slot /\ e.normalized.slot = slot /\ t.slot <= slot
          /\ says \in Reader!MeteoraReadings(world)
        BY <1>2, <1>3, <2>1, MeteoraReads
    <2>3. reading = [venue |-> "Meteora", says |-> says]
        BY <1>8 DEF Says
    <2> HIDE DEF reading, says
    <2>4. reading \in Reader!ReadingOf(world, now)
        BY <2>2, <2>3 DEF Reader!ReadingOf
    <2> QED
        BY <1>2, <1>3, <2>2, <2>4 DEF IsReading, reading, world
<1> QED
    BY <1>1, <1>5, <1>6, <1>7, <1>8

\* Each step is one that PoolView allows: the first state,
LEMMA InitIsView == Init => PoolView!Init
BY DEF Init, PoolView!Init, Held

\* ... steps that change nothing of what is held,
LEMMA SameView == ASSUME UNCHANGED <<venue, chain, view>> PROVE UNCHANGED PoolView!viewVars
BY DEF PoolView!viewVars, Held, Says

\* ... the chain going on,
LEMMA GrowingIsView ==
    ASSUME Inductive, ChainGrows
    PROVE  PoolView!ChainGrows
<1>1. Held' = Held
    BY DEF ChainGrows, Held, Says
<1>2. Len(chain') = Len(chain) + 1 /\ \A s \in DOMAIN chain : chain'[s] = chain[s]
    <2> DEFINE W == Worlds[venue]
    <2>1. PICK world \in W : chain' = Append(chain, world)
        BY DEF ChainGrows
    <2>2. chain \in Seq(W)
        BY DEF Inductive, TypeOK
    <2> HIDE DEF W
    <2> QED
        BY <2>1, <2>2
<1> QED
    BY <1>1, <1>2 DEF PoolView!ChainGrows

\* ... a reading that is held from now on,
LEMMA ReadingIsView ==
    ASSUME UNCHANGED <<venue, chain>>, NEW slot \in DOMAIN chain, NEW now \in Times,
           NEW e, IsReading(e, slot, now), view' = {e}
    PROVE  PoolView!Learn
<1> DEFINE says(x) == [slot |-> x.context.slot, claims |-> x.normalized.slot,
                       pool |-> [venue |-> venue, says |-> Says(x)]]
<1>1. Held' = {says(x) : x \in view'}
    BY DEF Held, Says
<1> HIDE DEF says
<1>2. Held' = {says(e)}
    BY <1>1
<1>3. Held' = {[slot |-> slot, claims |-> e.normalized.slot,
                pool |-> [venue |-> venue, says |-> Says(e)]]}
    BY <1>2 DEF says, IsReading
<1> QED
    BY <1>3 DEF PoolView!Learn, IsReading

\* ... and an answer, whether it is let through or not.
LEMMA AnswerIsView ==
    ASSUME Inductive, TriggerFits, Answered
    PROVE  PoolView!Learn \/ UNCHANGED PoolView!viewVars
<1>1. phase \in {"read", "quote"} /\ UNCHANGED <<venue, chain>>
    BY DEF Answered
<1>2. PICK t \in trigger, slot \in DOMAIN chain, now \in Times, quotable \in BOOLEAN :
         \/ UNCHANGED view
         \/ \E e \in Hydrated(t, Reply(chain[slot], slot, KeysFor(t)), now, quotable) :
               /\ Ready(e)
               /\ view' = IF Replaces(e, view) THEN {e} ELSE view
    BY DEF Answered, Reject
<1>3. CASE UNCHANGED view
    BY <1>1, <1>3, SameView
<1>4. ASSUME NEW e \in Hydrated(t, Reply(chain[slot], slot, KeysFor(t)), now, quotable), Ready(e),
             view' = {e}
      PROVE  PoolView!Learn
    <2>1. IsReading(e, slot, now)
        BY <1>1, <1>4, ReadyIsReading
    <2> QED
        BY <1>1, <1>4, <2>1, ReadingIsView
<1> QED
    BY <1>2, <1>3, <1>4

\* So every step is a step of PoolView or none.
LEMMA StepIsView ==
    ASSUME Inductive, TriggerFits, [Next]_vars
    PROVE  [PoolView!Next]_(PoolView!viewVars)
<1>1. CASE ChainGrows
    BY <1>1, GrowingIsView DEF PoolView!Next
<1>2. CASE Answered
    BY <1>2, AnswerIsView DEF PoolView!Next
<1>3. CASE \/ Enough \/ Listen \/ Tick \/ Ping \/ TimeOut \/ StreamFails \/ Junk
           \/ Notify \/ LookUp \/ RateLimited \/ CallFails \/ BaseAnswered \/ UNCHANGED vars
    <2>1. UNCHANGED <<venue, chain, view>>
        BY <1>3 DEF Enough, Listen, Tick, Ping, TimeOut, StreamFails, Junk, Notify, LookUp, RateLimited,
                    CallFails, BaseAnswered, Reject, vars
    <2> QED
        BY <2>1, SameView
<1> QED
    BY <1>1, <1>2, <1>3 DEF Next

-----------------------------------------------------------------------------
(***************************************************************************)
(* Theorems                                                                *)
(***************************************************************************)
\* The inductive invariant: a held Meteora entry is of an earlier generation
\* than the calls under way, and of the slot it is said to be from.
THEOREM HydrationInvariant == Spec => []Inductive
BY InitEstablishes, NextKeeps, PTL DEF Spec

\* The loops stay within MAX_*_OBSERVATIONS, MAX_RPC_429_RETRIES and their
\* windows, and hold at most one entry of a pool.
THEOREM TypeCorrect == Spec => []TypeOK
BY HydrationInvariant, PTL DEF Inductive

\* should_replace_runtime_state and the generations of hydrate_notification
\* never let an older read of a Meteora pool take the place of a newer one.
THEOREM PreparedNeverGoesBackAlways == Spec => PreparedNeverGoesBack
<1>1. Inductive /\ [Next]_vars => [NeverBack]_vars
    BY NextKeeps
<1> QED
    BY <1>1, HydrationInvariant, PTL DEF Spec, PreparedNeverGoesBack, NeverBack

\* Whatever a loop or a lookup holds of a pool, of any of the four venues, was all
\* of it so at one slot of the chain, and that slot is not older than the one the
\* pool is said to be from: the hydrations implement PoolView.
THEOREM ImplementsPoolViewAlways == Spec => ImplementsPoolView
<1>1. Inductive /\ TriggerFits /\ [Next]_vars => TriggerFits'
    BY TriggerStaysFit
<1>2. Inductive /\ TriggerFits /\ [Next]_vars => [PoolView!Next]_(PoolView!viewVars)
    BY StepIsView
<1> QED
    BY <1>1, <1>2, InitIsView, InitFits, HydrationInvariant, PTL
       DEF Spec, ImplementsPoolView, PoolView!Spec
=============================================================================

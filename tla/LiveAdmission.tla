---------------------------- MODULE LiveAdmission ----------------------------
(***************************************************************************)
(* The live admission pipeline of main.rs: from pool notifications to the  *)
(* routes that are quoted.                                                 *)
(*                                                                         *)
(* Raydium and PumpSwap pools are kept in two places that are written      *)
(* separately: a list of normalized states (with the slot of the           *)
(* notification that triggered the read) and a map of quote contexts (with *)
(* the slot of the read).  Both are merged again with what three later     *)
(* discovery stages read.  Orca and Meteora pools keep state and snapshot  *)
(* in one entry.  The registry is then rebuilt from all of them, and a     *)
(* pool is eligible only if its context is not older than its state.       *)
(*                                                                         *)
(* A slot stands for a whole account: two reads of a pool at the same slot *)
(* agree.  RPC answers come from nodes that may be behind or ahead of the  *)
(* WebSocket and of each other.                                            *)
(***************************************************************************)
EXTENDS Integers, Sequences

CONSTANTS
    Pools,              \* pool ids, unique over all venues
    Venue,              \* Venue[p]: the venue of pool p
    Pair,               \* Pair[p]: the anchor and intermediate mint of pool p
    ExactPair,          \* the pair Stage B insists on, WSOL-USDC
    MaxSlot,            \* bound: slots run over 1..MaxSlot
    MaxObservations,    \* MaxObservations[v]: notifications awaited from venue v
    OrderedStream       \* whether notifications arrive in slot order

Venues == {"Raydium", "PumpSwap", "Orca", "Meteora"}

ASSUME VenueAssumption == Venue \in [Pools -> Venues]
ASSUME SlotAssumption == MaxSlot \in Nat
ASSUME ObservationAssumption == MaxObservations \in [Venues -> Nat]
ASSUME StreamAssumption == OrderedStream \in BOOLEAN

VARIABLES
    phase,          \* where main() is
    observed,       \* notifications taken from the venue being observed
    wsSlot,         \* slot of the last notification, if they come in order
    states,         \* states[v]: raydium_states, pumpswap_states
    contexts,       \* slot of each pool's quote context, 0 if it has none
    prepared,       \* slot of each Orca or Meteora entry, 0 if there is none
    queue,          \* states still to be upserted in the registry being built
    registry,       \* latest_pools, slot 0 if the pool is not registered
    initialRoutes,  \* initial_routes
    lastRead,       \* newest read of each pool, admitted or not
    admitted        \* newest slot of a state of each pool ever admitted

vars == <<phase, observed, wsSlot, states, contexts, prepared, queue, registry,
          initialRoutes, lastRead, admitted>>

Slots == 1..MaxSlot
PoolsOf(v) == {p \in Pools : Venue[p] = v}
Cpmm == {"Raydium", "PumpSwap"}
CpmmPools == PoolsOf("Raydium") \cup PoolsOf("PumpSwap")
PairedPools == PoolsOf("Orca") \cup PoolsOf("Meteora")

PoolState == [pool : Pools, slot : Slots]
Registered == [slot : 0..MaxSlot, ready : BOOLEAN]
Read == [slot : 0..MaxSlot, tradable : BOOLEAN]
Phases == Venues \cup {"counterpart", "initial", "initialRegistry", "overlap",
                       "exactPairRaydium", "exactPairIncomplete", "exactPairMeteora",
                       "prices", "finalRegistry", "quoting", "failed"}

Larger(a, b) == IF a < b THEN b ELSE a

NoRegistry == [p \in Pools |-> [slot |-> 0, ready |-> FALSE]]

Init ==
    /\ phase = "Raydium"
    /\ observed = 0
    /\ wsSlot = 1
    /\ states = [v \in Cpmm |-> <<>>]
    /\ contexts = [p \in CpmmPools |-> 0]
    /\ prepared = [p \in PairedPools |-> 0]
    /\ queue = <<>>
    /\ registry = NoRegistry
    /\ initialRoutes = {}
    /\ lastRead = [p \in CpmmPools |-> [slot |-> 0, tradable |-> TRUE]]
    /\ admitted = [p \in Pools |-> 0]
-----------------------------------------------------------------------------
(***************************************************************************)
(* Observing a venue                                                       *)
(***************************************************************************)
Goto(next) ==
    /\ phase' = next
    /\ UNCHANGED <<states, contexts, prepared, initialRoutes, lastRead, admitted>>

Fail ==
    /\ Goto("failed")
    /\ UNCHANGED <<observed, wsSlot, queue, registry>>

\* Two reads of a pool at one slot agree; older reads do not replace newer ones.
CanRead(p, slot, tradable) == lastRead[p].slot = slot => lastRead[p].tradable = tradable

Remember(p, slot, tradable) ==
    lastRead' = IF lastRead[p].slot < slot
                THEN [lastRead EXCEPT ![p] = [slot |-> slot, tradable |-> tradable]]
                ELSE lastRead

Admit(p, slot) == admitted' = [admitted EXCEPT ![p] = Larger(@, slot)]

\* hydrate_*_observation: a read older than its trigger is an error.
Hydrates(trigger, slot) == slot >= trigger

\* Mutant: a PumpSwap state ends up in the Raydium list.
AddEntryToRaydium(p, slot) ==
    states' = [states EXCEPT !["Raydium"] = Append(@, [pool |-> p, slot |-> slot])]

AddEntry(p, slot) ==
    states' = [states EXCEPT ![Venue[p]] = Append(@, [pool |-> p, slot |-> slot])]

Notified(v, slot) ==
    /\ phase = v
    /\ observed < MaxObservations[v]
    /\ OrderedStream => slot >= wsSlot
    /\ observed' = observed + 1
    /\ wsSlot' = IF OrderedStream THEN slot ELSE wsSlot
    /\ UNCHANGED <<phase, queue, registry, initialRoutes>>

\* The context replaces the one the pool had, the state joins the others.
ObserveReady(p, trigger, slot) ==
    /\ Notified(Venue[p], trigger)
    /\ Hydrates(trigger, slot)
    /\ CanRead(p, slot, TRUE)
    /\ contexts' = [contexts EXCEPT ![p] = slot]
    /\ AddEntry(p, trigger)
    /\ Remember(p, slot, TRUE)
    /\ Admit(p, trigger)
    /\ UNCHANGED prepared

\* quote_readiness_for_pool refuses the pool: neither place is touched.
ObserveUntradable(p, trigger, slot) ==
    /\ Notified(Venue[p], trigger)
    /\ Hydrates(trigger, slot)
    /\ CanRead(p, slot, FALSE)
    /\ Remember(p, slot, FALSE)
    /\ UNCHANGED <<states, contexts, prepared, admitted>>

\* The hydration failed, or no account was prepared.
ObserveRejected(v, trigger) ==
    /\ Notified(v, trigger)
    /\ UNCHANGED <<states, contexts, prepared, lastRead, admitted>>

\* orca_runtime stops at the first pool it prepares.
WantsMore(v) == v = "Orca" => \A p \in PoolsOf("Orca") : prepared[p] = 0

\* should_replace_runtime_state; state and snapshot are one entry.
Replaces(p, slot) == slot >= prepared[p]

ObservePrepared(p, trigger, slot) ==
    /\ Notified(Venue[p], trigger)
    /\ WantsMore(Venue[p])
    /\ Hydrates(trigger, slot)
    /\ prepared' = IF Replaces(p, slot) THEN [prepared EXCEPT ![p] = slot] ELSE prepared
    /\ Admit(p, slot)
    /\ UNCHANGED <<states, contexts, lastRead>>

AfterVenue == [Raydium |-> "PumpSwap", PumpSwap |-> "Orca", Orca |-> "Meteora",
               Meteora |-> "counterpart"]

\* A silent stream ends the Orca and Meteora stages; for the others it is an
\* error, see StreamFails.
VenueDone(v) ==
    /\ phase = v
    /\ \/ observed = MaxObservations[v]
       \/ v \in {"Orca", "Meteora"}
    /\ observed' = 0
    /\ UNCHANGED <<wsSlot, queue, registry>>
    /\ Goto(AfterVenue[v])

StreamFails == phase \in Venues /\ Fail

Observe ==
    \/ \E p \in CpmmPools, trigger, slot \in Slots :
          ObserveReady(p, trigger, slot) \/ ObserveUntradable(p, trigger, slot)
    \/ \E v \in Venues, trigger \in Slots : ObserveRejected(v, trigger)
    \/ \E p \in PairedPools, trigger, slot \in Slots : ObservePrepared(p, trigger, slot)
    \/ \E v \in Venues : VenueDone(v)
    \/ StreamFails
-----------------------------------------------------------------------------
(***************************************************************************)
(* Merging what a discovery stage read                                     *)
(***************************************************************************)
Entries(p) == {i \in DOMAIN states[Venue[p]] : states[Venue[p]][i].pool = p}

\* The list finds the pool's first entry.
IsFirstEntry(p, i) == i \in Entries(p) /\ \A j \in Entries(p) : i <= j

PutEntry(p, i, slot) ==
    states' = [states EXCEPT ![Venue[p]] = [@ EXCEPT ![i] = [pool |-> p, slot |-> slot]]]

\* Mutant: the merged state replaces the one that was there, however old it is.
MergeStateAlways(p, slot) ==
    \/ Entries(p) = {} /\ AddEntry(p, slot)
    \/ \E i \in Entries(p) : IsFirstEntry(p, i) /\ PutEntry(p, i, slot)

\* merge_normalized_states: the first entry of the pool is replaced unless the
\* addition is older; other entries of the pool stay.
MergeState(p, slot) ==
    \/ Entries(p) = {} /\ AddEntry(p, slot)
    \/ \E i \in Entries(p) :
          /\ IsFirstEntry(p, i)
          /\ PutEntry(p, i, Larger(states[Venue[p]][i].slot, slot))

\* merge_quote_contexts: the addition replaces whatever was there.
MergeContext(p, slot) == contexts' = [contexts EXCEPT ![p] = slot]

\* A discovery stage found pool p by an account query answered at slot trigger
\* and hydrated it at a slot its readiness was checked at.
Discover(p, trigger, slot) ==
    /\ Hydrates(trigger, slot)
    /\ CanRead(p, slot, TRUE)
    /\ MergeState(p, trigger)
    /\ MergeContext(p, slot)
    /\ Remember(p, slot, TRUE)
    /\ Admit(p, trigger)
    /\ UNCHANGED <<observed, wsSlot, prepared, queue, registry, initialRoutes>>

\* A candidate that turned out not to be tradable is passed over.
PassOver(p, slot, next) ==
    /\ CanRead(p, slot, FALSE)
    /\ Remember(p, slot, FALSE)
    /\ phase' = next
    /\ UNCHANGED <<observed, wsSlot, states, contexts, prepared, queue, registry,
                   initialRoutes, admitted>>

HasContext(v, pair) ==
    \E i \in DOMAIN states[v] : Pair[states[v][i].pool] = pair /\ contexts[states[v][i].pool] # 0

Skip(next) == Goto(next) /\ UNCHANGED <<observed, wsSlot, queue, registry>>

\* discover_orca_cross_venue_counterpart: the first ready Raydium or PumpSwap
\* pool of the prepared Orca pool's pair; every failure is passed over.
OrcaPairs == {Pair[p] : p \in {q \in PoolsOf("Orca") : prepared[q] # 0}}

OrcaCounterpart ==
    /\ phase = "counterpart"
    /\ \/ \E p \in CpmmPools, trigger, slot \in Slots :
             /\ Pair[p] \in OrcaPairs
             /\ \/ Discover(p, trigger, slot) /\ phase' = "initial"
                \/ PassOver(p, slot, phase)
       \/ Skip("initial")

\* discover_deterministic_cross_venue_overlap, one venue's candidates: a pool
\* for the pair of a live pool of the other venue that has a context.  The live
\* pool's own state and context are handed back with it, and merging them
\* changes nothing.
OverlapWith(v) ==
    \E p \in CpmmPools, trigger, slot \in Slots :
        /\ v # Venue[p]
        /\ HasContext(v, Pair[p])
        /\ \/ Discover(p, trigger, slot) /\ phase' = "exactPairRaydium"
           \/ PassOver(p, slot, phase)

\* The same function as a whole: finding no overlap, or running out of time,
\* ends the program.
Overlap ==
    /\ phase = "overlap"
    /\ \/ \E v \in Cpmm : OverlapWith(v)
       \/ Fail

\* Mutant: Stage B reads a Raydium pool even if it already has one.
RaydiumPairNeverReady == FALSE

RaydiumPairReady == HasContext("Raydium", ExactPair)

HasMeteora(routes) == \E r \in routes : Venue[r[1]] = "Meteora" \/ Venue[r[2]] = "Meteora"

\* ensure_meteora_raydium_ws_sol_usdc_pair, first half.  Once a candidate was
\* passed over, finding none is an error.
ExactPairRaydium ==
    /\ phase \in {"exactPairRaydium", "exactPairIncomplete"}
    /\ \/ phase = "exactPairRaydium" /\ HasMeteora(initialRoutes) /\ Skip("prices")
       \/ /\ ~ HasMeteora(initialRoutes)
          /\ \/ RaydiumPairReady /\ Skip("exactPairMeteora")
             \/ /\ ~ RaydiumPairReady
                /\ \/ \E p \in PoolsOf("Raydium"), trigger, slot \in Slots :
                         /\ Pair[p] = ExactPair
                         /\ \/ Discover(p, trigger, slot) /\ phase' = "exactPairMeteora"
                            \/ PassOver(p, slot, "exactPairIncomplete")
                   \/ phase = "exactPairRaydium" /\ Skip("prices")
                   \/ Fail

\* ensure_meteora_raydium_ws_sol_usdc_pair, second half.
MeteoraPairReady == \E p \in PoolsOf("Meteora") : Pair[p] = ExactPair /\ prepared[p] # 0

ExactPairMeteora ==
    /\ phase = "exactPairMeteora"
    /\ \/ MeteoraPairReady /\ Skip("prices")
       \/ /\ ~ MeteoraPairReady
          /\ \/ \E p \in PoolsOf("Meteora"), slot \in Slots :
                   /\ Pair[p] = ExactPair
                   /\ prepared' = IF Replaces(p, slot) THEN [prepared EXCEPT ![p] = slot]
                                                       ELSE prepared
                   /\ Admit(p, slot)
                   /\ phase' = "prices"
                   /\ UNCHANGED <<observed, wsSlot, states, contexts, queue, registry,
                                  initialRoutes, lastRead>>
             \/ Skip("prices")
             \/ Fail

Discovery == OrcaCounterpart \/ Overlap \/ ExactPairRaydium \/ ExactPairMeteora
-----------------------------------------------------------------------------
(***************************************************************************)
(* The registry                                                            *)
(***************************************************************************)
\* Mutant: a context of any age makes the pool ready, as contains_key does.
ReadyWithAnyContext(state) == contexts[state.pool] # 0

\* readiness_for_pool: the pool has a context not older than the state.
Ready(state) == contexts[state.pool] # 0 /\ contexts[state.pool] >= state.slot

\* Mutant: the last state upserted wins.
UpsertLast(state) ==
    registry' = [registry EXCEPT ![state.pool] = [slot |-> state.slot, ready |-> Ready(state)]]

\* ActiveMintRegistry::upsert: a state older than the registered one is
\* ignored; otherwise it replaces the pool's entry, ready or not.
Upsert(state) ==
    registry' = IF state.slot < registry[state.pool].slot THEN registry
                ELSE [registry EXCEPT ![state.pool] =
                         [slot |-> state.slot, ready |-> Ready(state)]]

StartRegistry(from, building) ==
    /\ phase = from
    /\ phase' = building
    /\ registry' = NoRegistry
    /\ queue' = states["Raydium"] \o states["PumpSwap"]
    /\ UNCHANGED <<observed, wsSlot, states, contexts, prepared, initialRoutes, lastRead,
                   admitted>>

UpsertNext ==
    /\ phase \in {"initialRegistry", "finalRegistry"}
    /\ queue # <<>>
    /\ Upsert(Head(queue))
    /\ queue' = Tail(queue)
    /\ UNCHANGED <<phase, observed, wsSlot, states, contexts, prepared, initialRoutes, lastRead,
                   admitted>>

\* Orca and Meteora entries come last; each carries its own readiness.
WithPrepared ==
    [p \in Pools |-> IF p \in PairedPools /\ prepared[p] # 0
                     THEN [slot |-> prepared[p], ready |-> TRUE]
                     ELSE registry[p]]

Eligible(reg) == {p \in Pools : reg[p].ready}

\* generate_two_leg_routes: both directions of every two eligible pools of
\* different venues that trade the same pair.
Routes(reg) ==
    {r \in Eligible(reg) \X Eligible(reg) : Venue[r[1]] # Venue[r[2]] /\ Pair[r[1]] = Pair[r[2]]}

InitialRoutesFound ==
    /\ phase = "initialRegistry"
    /\ queue = <<>>
    /\ initialRoutes' = Routes(WithPrepared)
    /\ registry' = NoRegistry
    /\ phase' = IF initialRoutes' = {} THEN "overlap" ELSE "exactPairRaydium"
    /\ UNCHANGED <<observed, wsSlot, states, contexts, prepared, queue, lastRead, admitted>>

\* Without a route the program ends in an error.
FinalRoutesFound ==
    /\ phase = "finalRegistry"
    /\ queue = <<>>
    /\ registry' = WithPrepared
    /\ phase' = IF Routes(WithPrepared) = {} THEN "failed" ELSE "quoting"
    /\ UNCHANGED <<observed, wsSlot, states, contexts, prepared, queue, initialRoutes, lastRead,
                   admitted>>

PricesUnavailable == phase = "prices" /\ Fail

Register ==
    \/ StartRegistry("initial", "initialRegistry")
    \/ UpsertNext
    \/ InitialRoutesFound
    \/ StartRegistry("prices", "finalRegistry")
    \/ PricesUnavailable
    \/ FinalRoutesFound

Next == Observe \/ Discovery \/ Register

Spec == Init /\ [][Next]_vars
-----------------------------------------------------------------------------
TypeOK ==
    /\ phase \in Phases
    /\ observed \in Nat
    /\ wsSlot \in Nat
    /\ states \in [Cpmm -> Seq(PoolState)]
    /\ \A v \in Cpmm : \A i \in DOMAIN states[v] : Venue[states[v][i].pool] = v
    /\ contexts \in [CpmmPools -> 0..MaxSlot]
    /\ prepared \in [PairedPools -> 0..MaxSlot]
    /\ queue \in Seq(PoolState)
    /\ \A i \in DOMAIN queue : queue[i].pool \in CpmmPools
    /\ registry \in [Pools -> Registered]
    /\ initialRoutes \subseteq Pools \X Pools
    /\ lastRead \in [CpmmPools -> Read]
    /\ admitted \in [Pools -> 0..MaxSlot]

\* validate_context accepts both legs of every route that will be quoted:
\* registry, state list and context map were written at different times by
\* different stages, yet no route pairs a state with a context older than it.
RoutesAreQuotable ==
    phase = "quoting" =>
        \A r \in Routes(registry), i \in 1..2 :
            LET p == r[i] IN
            IF p \in CpmmPools THEN contexts[p] # 0 /\ contexts[p] >= registry[p].slot
            ELSE prepared[p] = registry[p].slot

\* What is quoted is the newest state that was ever admitted of each pool,
\* whichever stage admitted it, in whatever order, and however often the list
\* names the pool.
NewestStateWins ==
    phase = "quoting" => \A p \in Pools : registry[p].slot = admitted[p]

\* The routes the first registry found are still there when routes are quoted:
\* the stages in between read more, but never at the expense of a route.
InitialRoutesSurvive ==
    phase = "quoting" => initialRoutes \subseteq Routes(registry)

\* Every state was admitted with a context not older than itself, so the pool
\* of the newest admitted state can be quoted.
NewestAdmittedIsEligible ==
    phase = "quoting" => \A p \in Pools : registry[p].slot # 0 => registry[p].ready

\* A pool whose newest read says it does not trade is not quoted.
UntradablePoolIsNotQuoted ==
    phase = "quoting" => \A p \in Eligible(registry) \cap CpmmPools : lastRead[p].tradable
-----------------------------------------------------------------------------
(***************************************************************************)
(* The inductive invariant behind RoutesAreQuotable and NewestStateWins.   *)
(***************************************************************************)
Building == {"initialRegistry", "finalRegistry"}

\* No stage lost the newest state of a pool on its way into a list.
ListsHoldNewest ==
    /\ \A v \in Cpmm : \A i \in DOMAIN states[v] :
          states[v][i].slot <= admitted[states[v][i].pool]
    /\ \A p \in CpmmPools : admitted[p] # 0 =>
          \E i \in Entries(p) : states[Venue[p]][i].slot = admitted[p]
    /\ \A p \in PairedPools : prepared[p] = admitted[p]

\* While a registry is built, every state of the lists is registered, was
\* superseded by a newer one, or is still to come.
QueueIsTheRest ==
    phase \in Building =>
        /\ \A i \in DOMAIN queue : queue[i].slot <= admitted[queue[i].pool]
        /\ \A v \in Cpmm : \A i \in DOMAIN states[v] :
              \/ states[v][i].slot <= registry[states[v][i].pool].slot
              \/ \E j \in DOMAIN queue : queue[j] = states[v][i]

RegistryIsFromLists ==
    /\ phase \in Building =>
          /\ \A p \in CpmmPools : registry[p].slot <= admitted[p]
          /\ \A p \in PairedPools : registry[p] = [slot |-> 0, ready |-> FALSE]
    /\ phase \notin Building \cup {"quoting", "failed"} => registry = NoRegistry

ReadyHasContext ==
    \A p \in CpmmPools :
        registry[p].ready => contexts[p] # 0 /\ contexts[p] >= registry[p].slot

Inductive ==
    /\ TypeOK
    /\ ListsHoldNewest
    /\ QueueIsTheRest
    /\ RegistryIsFromLists
    /\ ReadyHasContext
    /\ RoutesAreQuotable
    /\ NewestStateWins
=============================================================================

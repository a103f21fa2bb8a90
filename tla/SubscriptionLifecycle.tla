------------------------ MODULE SubscriptionLifecycle ------------------------
(***************************************************************************)
(* The subscription state machine of ws_transport.rs: a WebSocket          *)
(* subscription is requested, confirmed by the server, bootstrapped by an  *)
(* authoritative account read, and only then ready.  Every call that       *)
(* carries data also carries the generation of the connection it belongs   *)
(* to, because a task of a connection that was dropped may still deliver   *)
(* what it was waiting for.                                                *)
(*                                                                         *)
(* Nothing in the repository calls this type outside its tests, so the     *)
(* callers are modelled by what the interface lets them do: any connection *)
(* that ever existed may call, in any order, with the generation it was    *)
(* given.                                                                  *)
(***************************************************************************)
EXTENDS Integers, Sequences

CONSTANTS
    FirstGeneration,    \* the argument of SubscriptionLifecycle::new
    MaxGeneration,      \* u64::MAX, where reconnect refuses to go on
    Slots,              \* slots a notification or an account read may carry
    SubscriptionIds,    \* ids the server may confirm
    None                \* Option::None

ASSUME GenerationAssumption ==
    /\ FirstGeneration \in Nat
    /\ MaxGeneration \in Nat
    /\ FirstGeneration <= MaxGeneration

ASSUME SlotAssumption == Slots \subseteq Nat

ASSUME NoneAssumption == None \notin Nat /\ None \notin SubscriptionIds

VARIABLES
    sub,            \* the SubscriptionLifecycle value
    connections,    \* generation given to each connection, the live one last
    notified,       \* notifications taken in since the last reconnect
    authorised      \* account reads taken in since the last reconnect

vars == <<sub, connections, notified, authorised>>

Generations == FirstGeneration .. MaxGeneration

Lifecycle ==
    [generation : Generations,
     requested : BOOLEAN,
     confirmedId : SubscriptionIds \cup {None},
     bootstrapped : BOOLEAN,
     ready : BOOLEAN,
     dirty : Slots \cup {None},
     authoritative : Slots \cup {None}]

Delivery == [from : Nat \ {0}, slot : Slots]

Fresh(generation) ==
    [generation |-> generation, requested |-> FALSE, confirmedId |-> None,
     bootstrapped |-> FALSE, ready |-> FALSE,
     dirty |-> None, authoritative |-> None]

Confirmed == sub.confirmedId # None

\* require_generation: the caller's generation is the current one.
Current(c) == connections[c] = sub.generation

Init ==
    /\ sub = Fresh(FirstGeneration)
    /\ connections = <<FirstGeneration>>
    /\ notified = {}
    /\ authorised = {}

MarkRequested ==
    /\ sub' = [sub EXCEPT !.requested = TRUE, !.ready = FALSE]
    /\ UNCHANGED <<connections, notified, authorised>>

MarkConfirmed(c, id) ==
    /\ Current(c)
    /\ sub.requested
    /\ sub' = [sub EXCEPT !.confirmedId = id, !.ready = FALSE]
    /\ UNCHANGED <<connections, notified, authorised>>

\* Mutant: the watermark is the last notification, not the highest.
LastDirty(slot) == slot

\* The watermark keeps the highest slot a notification carried.
RaiseDirty(slot) ==
    IF sub.dirty = None \/ sub.dirty < slot THEN slot ELSE sub.dirty

\* Mutant: a notification leaves a ready subscription ready.
MarkDirtyKeepingReady(c, slot) ==
    /\ Current(c)
    /\ sub' = [sub EXCEPT !.dirty = RaiseDirty(slot)]
    /\ notified' = notified \cup {[from |-> c, slot |-> slot]}
    /\ UNCHANGED <<connections, authorised>>

MarkDirty(c, slot) ==
    /\ Current(c)
    /\ sub' = [sub EXCEPT !.dirty = RaiseDirty(slot), !.ready = FALSE]
    /\ notified' = notified \cup {[from |-> c, slot |-> slot]}
    /\ UNCHANGED <<connections, authorised>>

\* A read at this slot has not caught up with the notifications.
BehindDirty(slot) == sub.dirty # None /\ slot < sub.dirty

\* The read is recorded whether it is accepted or answered RefreshAgain.
MarkAuthoritativeRefresh(c, slot) ==
    /\ Current(c)
    /\ Confirmed
    /\ sub' = [sub EXCEPT !.authoritative = slot,
                          !.bootstrapped = ~ BehindDirty(slot),
                          !.ready = FALSE]
    /\ authorised' = authorised \cup {[from |-> c, slot |-> slot]}
    /\ UNCHANGED <<connections, notified>>

MarkReady(c) ==
    /\ Current(c)
    /\ sub.requested
    /\ Confirmed
    /\ sub.bootstrapped
    /\ sub.dirty # None => sub.authoritative # None /\ ~ BehindDirty(sub.authoritative)
    /\ sub' = [sub EXCEPT !.ready = TRUE]
    /\ UNCHANGED <<connections, notified, authorised>>

\* Everything starts over under the generation that follows.
StartOver(generation) ==
    /\ sub' = Fresh(generation)
    /\ connections' = Append(connections, generation)
    /\ notified' = {}
    /\ authorised' = {}

\* Mutant: wrapping_add hands the first generations out again.
ReconnectWrapping ==
    StartOver(IF sub.generation = MaxGeneration THEN 0 ELSE sub.generation + 1)

\* Mutant: unchecked addition leaves the u64 range.
ReconnectUnchecked == StartOver(sub.generation + 1)

\* checked_add: at u64::MAX the call fails and changes nothing.
Reconnect ==
    /\ sub.generation < MaxGeneration
    /\ StartOver(sub.generation + 1)

Next ==
    \/ MarkRequested
    \/ \E c \in DOMAIN connections :
          \/ \E id \in SubscriptionIds : MarkConfirmed(c, id)
          \/ \E slot \in Slots : MarkDirty(c, slot) \/ MarkAuthoritativeRefresh(c, slot)
          \/ MarkReady(c)
    \/ Reconnect

Spec == Init /\ [][Next]_vars
-----------------------------------------------------------------------------
TypeOK ==
    /\ sub \in Lifecycle
    /\ connections \in Seq(Generations)
    /\ connections # <<>>
    /\ notified \in SUBSET Delivery
    /\ authorised \in SUBSET Delivery

\* A ready subscription was confirmed by the server, holds an account read,
\* and that read is at least as new as every notification this connection has
\* delivered, in whatever order the notifications, the reads and mark_ready
\* came (mark_dirty and mark_authoritative_refresh race each other).
ReadyIsCaughtUp ==
    sub.ready =>
        /\ sub.requested /\ Confirmed
        /\ sub.authoritative # None
        /\ \A n \in notified : n.slot <= sub.authoritative

\* What a subscription has taken in was delivered by its own connection: no
\* late answer of a dropped connection is mistaken for one of the live one,
\* which rests on reconnect never handing out a generation twice.
OnlyTheLiveConnectionIsHeard ==
    \A d \in notified \cup authorised : d.from = Len(connections)

\* The watermark a refresh is told to reach (minimum_context_slot) is exactly
\* the newest notification of this connection: never lower, or a refresh could
\* be accepted too early, and never higher, or it could be refused for ever.
WatermarkIsNewestNotification ==
    /\ sub.dirty = None <=> notified = {}
    /\ sub.dirty # None =>
          /\ \E n \in notified : n.slot = sub.dirty
          /\ \A n \in notified : n.slot <= sub.dirty

-----------------------------------------------------------------------------
(***************************************************************************)
(* The inductive invariant behind the three properties.                    *)
(***************************************************************************)
\* Generations count the connections up from the first one, so no two
\* connections share a generation and the live one has the current one.
GenerationsCountConnections ==
    /\ \A c \in DOMAIN connections : connections[c] = FirstGeneration + c - 1
    /\ sub.generation = connections[Len(connections)]

StagesAreOrdered ==
    /\ Confirmed => sub.requested
    /\ sub.bootstrapped => sub.authoritative # None

Inductive ==
    /\ TypeOK
    /\ GenerationsCountConnections
    /\ StagesAreOrdered
    /\ OnlyTheLiveConnectionIsHeard
    /\ WatermarkIsNewestNotification
    /\ ReadyIsCaughtUp
=============================================================================

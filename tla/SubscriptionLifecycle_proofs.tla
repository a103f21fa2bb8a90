-------------------- MODULE SubscriptionLifecycle_proofs --------------------
(***************************************************************************)
(* The subscription's properties hold for every set of slots, every first  *)
(* and last generation and every number of reconnects.                     *)
(***************************************************************************)
EXTENDS SubscriptionLifecycle, TLAPS

USE DEF Generations

\* SubscriptionLifecycle::new establishes the invariant.
LEMMA InitInductive == Init => Inductive
<1> SUFFICES ASSUME Init PROVE Inductive
    OBVIOUS
<1> USE GenerationAssumption DEF Init, Fresh
<1>1. TypeOK
    BY DEF TypeOK, Lifecycle
<1>2. GenerationsCountConnections
    BY DEF GenerationsCountConnections
<1>3. StagesAreOrdered /\ ReadyIsCaughtUp
    BY DEF StagesAreOrdered, ReadyIsCaughtUp, Confirmed
<1>4. OnlyTheLiveConnectionIsHeard /\ WatermarkIsNewestNotification
    BY DEF OnlyTheLiveConnectionIsHeard, WatermarkIsNewestNotification
<1> QED
    BY <1>1, <1>2, <1>3, <1>4 DEF Inductive

\* A call that passes require_generation comes from the live connection.
LEMMA CurrentIsLive ==
    ASSUME Inductive, NEW c \in DOMAIN connections, Current(c)
    PROVE  c = Len(connections)
<1>1. connections \in Seq(Int) /\ c \in 1..Len(connections)
    BY GenerationAssumption DEF Inductive, TypeOK
<1>2. connections[c] = FirstGeneration + c - 1
    BY DEF Inductive, GenerationsCountConnections
<1>3. connections[c] = FirstGeneration + Len(connections) - 1
    BY <1>1 DEF Inductive, GenerationsCountConnections, TypeOK, Current
<1> QED
    BY <1>1, <1>2, <1>3, GenerationAssumption

\* Every call, accepted or refused, preserves the invariant.
LEMMA NextInductive == Inductive /\ [Next]_vars => Inductive'
<1> SUFFICES ASSUME Inductive, [Next]_vars PROVE Inductive'
    OBVIOUS
<1> USE GenerationAssumption, SlotAssumption, NoneAssumption
<1>0. TypeOK /\ GenerationsCountConnections /\ StagesAreOrdered
      /\ OnlyTheLiveConnectionIsHeard /\ WatermarkIsNewestNotification /\ ReadyIsCaughtUp
    BY DEF Inductive
<1>1. CASE MarkRequested
    <2> USE <1>1 DEF MarkRequested
    <2>1. TypeOK'
        BY <1>0 DEF TypeOK, Lifecycle
    <2>2. (GenerationsCountConnections /\ StagesAreOrdered)'
        BY <1>0 DEF TypeOK, Lifecycle, GenerationsCountConnections, StagesAreOrdered, Confirmed
    <2>3. (OnlyTheLiveConnectionIsHeard /\ WatermarkIsNewestNotification /\ ReadyIsCaughtUp)'
        BY <1>0 DEF TypeOK, Lifecycle, OnlyTheLiveConnectionIsHeard,
                    WatermarkIsNewestNotification, ReadyIsCaughtUp
    <2> QED
        BY <2>1, <2>2, <2>3 DEF Inductive
<1>2. ASSUME NEW c \in DOMAIN connections, NEW id \in SubscriptionIds, MarkConfirmed(c, id)
      PROVE  Inductive'
    <2> USE <1>2 DEF MarkConfirmed
    <2>1. TypeOK'
        BY <1>0 DEF TypeOK, Lifecycle
    <2>2. (GenerationsCountConnections /\ StagesAreOrdered)'
        BY <1>0 DEF TypeOK, Lifecycle, GenerationsCountConnections, StagesAreOrdered
    <2>3. (OnlyTheLiveConnectionIsHeard /\ WatermarkIsNewestNotification /\ ReadyIsCaughtUp)'
        BY <1>0 DEF TypeOK, Lifecycle, OnlyTheLiveConnectionIsHeard,
                    WatermarkIsNewestNotification, ReadyIsCaughtUp
    <2> QED
        BY <2>1, <2>2, <2>3 DEF Inductive
<1>3. ASSUME NEW c \in DOMAIN connections, NEW slot \in Slots, MarkDirty(c, slot)
      PROVE  Inductive'
    <2> USE <1>3 DEF MarkDirty
    <2>1. RaiseDirty(slot) \in Slots
        BY <1>0 DEF RaiseDirty, TypeOK, Lifecycle
    <2>2. c = Len(connections) /\ [from |-> c, slot |-> slot] \in Delivery
        BY <1>0, CurrentIsLive DEF Delivery, TypeOK
    <2>3. TypeOK'
        BY <1>0, <2>1, <2>2 DEF TypeOK, Lifecycle
    <2>4. (GenerationsCountConnections /\ StagesAreOrdered /\ ReadyIsCaughtUp)'
        BY <1>0 DEF TypeOK, Lifecycle, GenerationsCountConnections, StagesAreOrdered,
                    Confirmed, ReadyIsCaughtUp
    <2>5. OnlyTheLiveConnectionIsHeard'
        BY <1>0, <2>2 DEF OnlyTheLiveConnectionIsHeard
    <2>6. sub'.dirty = RaiseDirty(slot)
        BY <1>0 DEF TypeOK, Lifecycle
    <2>7. WatermarkIsNewestNotification'
        <3>1. sub'.dirty # None
            BY <2>1, <2>6
        <3>2. \E n \in notified' : n.slot = sub'.dirty
            <4>1. CASE RaiseDirty(slot) = slot
                <5>1. [from |-> c, slot |-> slot].slot = sub'.dirty
                    BY <2>6, <4>1
                <5>2. [from |-> c, slot |-> slot] \in notified'
                    OBVIOUS
                <5> QED
                    BY <5>1, <5>2
            <4>2. CASE RaiseDirty(slot) = sub.dirty /\ sub.dirty # None
                BY <1>0, <2>6, <4>2 DEF WatermarkIsNewestNotification
            <4> QED
                BY <4>1, <4>2 DEF RaiseDirty
        <3>3. ASSUME NEW n \in notified' PROVE n.slot <= sub'.dirty
            BY <1>0, <2>1, <2>6 DEF RaiseDirty, WatermarkIsNewestNotification, TypeOK,
                                    Delivery, Lifecycle
        <3> QED
            BY <3>1, <3>2, <3>3 DEF WatermarkIsNewestNotification
    <2> QED
        BY <2>3, <2>4, <2>5, <2>7 DEF Inductive
<1>4. ASSUME NEW c \in DOMAIN connections, NEW slot \in Slots, MarkAuthoritativeRefresh(c, slot)
      PROVE  Inductive'
    <2> USE <1>4 DEF MarkAuthoritativeRefresh
    <2>1. c = Len(connections) /\ [from |-> c, slot |-> slot] \in Delivery
        BY <1>0, CurrentIsLive DEF Delivery, TypeOK
    <2>2. BehindDirty(slot) \in BOOLEAN
        BY DEF BehindDirty
    <2>3. TypeOK'
        BY <1>0, <2>1, <2>2 DEF TypeOK, Lifecycle
    <2>4. (GenerationsCountConnections /\ StagesAreOrdered /\ ReadyIsCaughtUp)'
        BY <1>0 DEF TypeOK, Lifecycle, GenerationsCountConnections, StagesAreOrdered,
                    Confirmed, ReadyIsCaughtUp
    <2>5. OnlyTheLiveConnectionIsHeard'
        BY <1>0, <2>1 DEF OnlyTheLiveConnectionIsHeard
    <2>6. WatermarkIsNewestNotification'
        BY <1>0 DEF WatermarkIsNewestNotification, TypeOK, Lifecycle
    <2> QED
        BY <2>3, <2>4, <2>5, <2>6 DEF Inductive
<1>5. ASSUME NEW c \in DOMAIN connections, MarkReady(c)
      PROVE  Inductive'
    <2> USE <1>5 DEF MarkReady
    <2>1. TypeOK'
        BY <1>0 DEF TypeOK, Lifecycle
    <2>2. (GenerationsCountConnections /\ StagesAreOrdered)'
        BY <1>0 DEF TypeOK, Lifecycle, GenerationsCountConnections, StagesAreOrdered, Confirmed
    <2>3. (OnlyTheLiveConnectionIsHeard /\ WatermarkIsNewestNotification)'
        BY <1>0 DEF TypeOK, Lifecycle, OnlyTheLiveConnectionIsHeard,
                    WatermarkIsNewestNotification
    <2>4. sub.authoritative \in Slots
        BY <1>0 DEF StagesAreOrdered, TypeOK, Lifecycle
    <2>5. ASSUME NEW n \in notified PROVE n.slot <= sub.authoritative
        <3>1. sub.dirty # None /\ sub.dirty \in Slots /\ n.slot <= sub.dirty
            BY <1>0 DEF WatermarkIsNewestNotification, TypeOK, Lifecycle
        <3>2. sub.dirty <= sub.authoritative
            BY <2>4, <3>1 DEF BehindDirty
        <3> QED
            BY <1>0, <2>4, <3>1, <3>2 DEF TypeOK, Delivery
    <2>6. ReadyIsCaughtUp'
        BY <1>0, <2>4, <2>5 DEF ReadyIsCaughtUp, Confirmed, TypeOK, Lifecycle
    <2> QED
        BY <2>1, <2>2, <2>3, <2>6 DEF Inductive
<1>6. CASE Reconnect
    <2> USE <1>6 DEF Reconnect, StartOver, Fresh
    <2>1. sub.generation + 1 \in Generations
        BY <1>0 DEF TypeOK, Lifecycle
    <2>2. Len(connections') = Len(connections) + 1 /\ Len(connections) \in Nat
        BY <1>0 DEF TypeOK
    <2>3. TypeOK'
        BY <1>0, <2>1 DEF TypeOK, Lifecycle
    <2>4. GenerationsCountConnections'
        <3>1. connections'[Len(connections')] = sub.generation + 1
            BY <1>0, <2>2 DEF TypeOK
        <3>2. sub.generation = FirstGeneration + Len(connections) - 1
            BY <1>0, <2>2 DEF TypeOK, GenerationsCountConnections
        <3>3. ASSUME NEW d \in DOMAIN connections' PROVE connections'[d] = FirstGeneration + d - 1
            <4>1. CASE d = Len(connections')
                BY <2>2, <3>1, <3>2, <4>1
            <4>2. CASE d # Len(connections')
                <5>1. d \in DOMAIN connections /\ connections'[d] = connections[d]
                    BY <1>0, <2>2, <4>2 DEF TypeOK
                <5> QED
                    BY <1>0, <5>1 DEF GenerationsCountConnections
            <4> QED
                BY <4>1, <4>2
        <3> QED
            BY <3>1, <3>3 DEF GenerationsCountConnections
    <2>5. (StagesAreOrdered /\ ReadyIsCaughtUp)'
        BY DEF StagesAreOrdered, ReadyIsCaughtUp, Confirmed
    <2>6. (OnlyTheLiveConnectionIsHeard /\ WatermarkIsNewestNotification)'
        BY DEF OnlyTheLiveConnectionIsHeard, WatermarkIsNewestNotification
    <2> QED
        BY <2>3, <2>4, <2>5, <2>6 DEF Inductive
<1>7. CASE UNCHANGED vars
    BY <1>0, <1>7 DEF vars, Inductive, TypeOK, GenerationsCountConnections, StagesAreOrdered,
                      OnlyTheLiveConnectionIsHeard, WatermarkIsNewestNotification,
                      ReadyIsCaughtUp, Confirmed
<1> QED
    BY <1>1, <1>2, <1>3, <1>4, <1>5, <1>6, <1>7 DEF Next

\* The invariant holds in every state of every run.
THEOREM SubscriptionInvariant == Spec => []Inductive
BY InitInductive, NextInductive, PTL DEF Spec

\* Every field of a lifecycle stays in its range, whatever is called in whatever
\* order and however often it reconnects.
THEOREM TypeCorrect == Spec => []TypeOK
<1>1. Inductive => TypeOK
    BY DEF Inductive
<1> QED
    BY <1>1, SubscriptionInvariant, PTL

\* mark_ready never lets a subscription through whose account read is older
\* than a notification of its connection.
THEOREM ReadyIsCaughtUpAlways == Spec => []ReadyIsCaughtUp
<1>1. Inductive => ReadyIsCaughtUp
    BY DEF Inductive
<1> QED
    BY <1>1, SubscriptionInvariant, PTL

\* require_generation keeps the calls of dropped connections out for ever.
THEOREM OnlyTheLiveConnectionIsHeardAlways == Spec => []OnlyTheLiveConnectionIsHeard
<1>1. Inductive => OnlyTheLiveConnectionIsHeard
    BY DEF Inductive
<1> QED
    BY <1>1, SubscriptionInvariant, PTL

\* minimum_context_slot is exactly the newest notification's slot.
THEOREM WatermarkIsNewestAlways == Spec => []WatermarkIsNewestNotification
<1>1. Inductive => WatermarkIsNewestNotification
    BY DEF Inductive
<1> QED
    BY <1>1, SubscriptionInvariant, PTL
=============================================================================

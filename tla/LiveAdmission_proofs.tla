------------------------ MODULE LiveAdmission_proofs ------------------------
(***************************************************************************)
(* What is quoted is quotable and newest, for any pools, venues, pairs,    *)
(* slots and numbers of observations.                                      *)
(***************************************************************************)
EXTENDS LiveAdmission, SequenceTheorems, TLAPS

USE VenueAssumption, SlotAssumption, ObservationAssumption, StreamAssumption

\* Every pool is kept in exactly one of the two ways.
LEMMA PoolsSplit ==
    /\ CpmmPools \cap PairedPools = {}
    /\ CpmmPools \cup PairedPools = Pools
    /\ \A p \in CpmmPools : Venue[p] \in Cpmm
BY DEF CpmmPools, PairedPools, PoolsOf, Cpmm, Venues

LEMMA LargerIsMax ==
    ASSUME NEW a \in Nat, NEW b \in Nat
    PROVE  /\ Larger(a, b) \in Nat /\ a <= Larger(a, b) /\ b <= Larger(a, b)
           /\ Larger(a, b) \in {a, b}
BY DEF Larger

LEMMA InitInductive == Init => Inductive
<1> SUFFICES ASSUME Init PROVE Inductive
    OBVIOUS
<1> USE DEF Init
<1>1. TypeOK
    BY DEF TypeOK, Phases, Venues, Cpmm, PoolState, NoRegistry, Registered, Read
<1>2. ListsHoldNewest
    BY PoolsSplit DEF ListsHoldNewest
<1>3. QueueIsTheRest /\ RegistryIsFromLists /\ RoutesAreQuotable /\ NewestStateWins
    BY DEF QueueIsTheRest, RegistryIsFromLists, Building, RoutesAreQuotable, NewestStateWins
<1>4. ReadyHasContext
    BY PoolsSplit DEF ReadyHasContext, NoRegistry
<1> QED
    BY <1>1, <1>2, <1>3, <1>4 DEF Inductive

\* Outside the registry's construction only the lists matter.
LEMMA StageStep ==
    ASSUME Inductive, TypeOK', ListsHoldNewest', registry' = registry,
           phase \notin Building \cup {"quoting", "failed"},
           phase' \notin Building \cup {"quoting"}
    PROVE  Inductive'
<1>1. registry = NoRegistry
    BY DEF Inductive, RegistryIsFromLists
<1>2. (QueueIsTheRest /\ RegistryIsFromLists /\ RoutesAreQuotable /\ NewestStateWins)'
    BY <1>1 DEF QueueIsTheRest, RegistryIsFromLists, RoutesAreQuotable, NewestStateWins,
                NoRegistry
<1>3. ReadyHasContext'
    BY <1>1, PoolsSplit DEF ReadyHasContext, NoRegistry
<1> QED
    BY <1>2, <1>3 DEF Inductive

ListsTyped ==
    /\ states \in [Cpmm -> Seq(PoolState)]
    /\ \A v \in Cpmm : \A i \in DOMAIN states[v] : Venue[states[v][i].pool] = v

LEMMA AdmitTyped ==
    ASSUME TypeOK, NEW p \in Pools, NEW slot \in Slots, Admit(p, slot)
    PROVE  /\ admitted' \in [Pools -> 0..MaxSlot]
           /\ admitted'[p] = Larger(admitted[p], slot)
           /\ \A q \in Pools \ {p} : admitted'[q] = admitted[q]
BY DEF TypeOK, Admit, Larger, Slots

\* Adding a state at the end of a list keeps the newest one of every pool in it.
LEMMA EntryAdded ==
    ASSUME TypeOK, ListsHoldNewest, NEW p \in CpmmPools, NEW slot \in Slots,
           AddEntry(p, slot), Admit(p, slot), prepared' = prepared
    PROVE  ListsTyped' /\ ListsHoldNewest'
<1> DEFINE v == Venue[p]
           e == [pool |-> p, slot |-> slot]
<1>1. v \in Cpmm /\ e \in PoolState /\ p \in Pools /\ states[v] \in Seq(PoolState)
    BY PoolsSplit DEF TypeOK, PoolState
<1>2. /\ states' \in [Cpmm -> Seq(PoolState)]
      /\ states'[v] = Append(states[v], e)
      /\ \A w \in Cpmm \ {v} : states'[w] = states[w]
    BY <1>1 DEF TypeOK, AddEntry
<1>3. /\ Len(states'[v]) = Len(states[v]) + 1
      /\ states'[v][Len(states[v]) + 1] = e
      /\ \A i \in DOMAIN states[v] : i \in DOMAIN states'[v] /\ states'[v][i] = states[v][i]
      /\ \A i \in DOMAIN states'[v] : i \in DOMAIN states[v] \/ i = Len(states[v]) + 1
      /\ Len(states[v]) + 1 \in DOMAIN states'[v]
    BY <1>1, <1>2
<1>4. ListsTyped'
    <2>1. ASSUME NEW w \in Cpmm, NEW i \in DOMAIN states'[w]
          PROVE  Venue[states'[w][i].pool] = w
        <3>1. CASE w = v /\ i = Len(states[v]) + 1
            <4>1. states'[w][i].pool = p
                BY <1>3, <3>1
            <4> QED
                BY <3>1, <4>1
        <3>2. CASE ~ (w = v /\ i = Len(states[v]) + 1)
            <4>1. i \in DOMAIN states[w] /\ states'[w][i] = states[w][i]
                BY <1>2, <1>3, <3>2
            <4> QED
                BY <4>1 DEF TypeOK
        <3> QED
            BY <3>1, <3>2
    <2> QED
        BY <1>2, <2>1 DEF ListsTyped
<1>5. /\ admitted' \in [Pools -> 0..MaxSlot]
      /\ admitted'[p] = Larger(admitted[p], slot)
      /\ \A q \in Pools \ {p} : admitted'[q] = admitted[q]
    BY <1>1, AdmitTyped
<1>6. /\ admitted[p] \in Nat /\ slot \in Nat
      /\ admitted[p] <= admitted'[p] /\ slot <= admitted'[p]
      /\ admitted'[p] \in {admitted[p], slot}
    <2>1. admitted[p] \in Nat /\ slot \in Nat
        BY <1>1 DEF TypeOK, Slots
    <2> QED
        BY <1>5, <2>1, LargerIsMax
<1>7. ASSUME NEW w \in Cpmm, NEW i \in DOMAIN states'[w]
      PROVE  states'[w][i].slot <= admitted'[states'[w][i].pool]
    <2>1. CASE w = v /\ i = Len(states[v]) + 1
        BY <1>3, <1>6, <2>1
    <2>2. CASE ~ (w = v /\ i = Len(states[v]) + 1)
        <3>1. i \in DOMAIN states[w] /\ states'[w][i] = states[w][i]
            BY <1>2, <1>3, <2>2
        <3>2. states[w][i] \in PoolState
            BY <3>1 DEF TypeOK
        <3>3. states[w][i].slot <= admitted[states[w][i].pool]
            BY <3>1 DEF ListsHoldNewest
        <3>4. /\ states[w][i].slot \in Nat /\ states[w][i].pool \in Pools
              /\ admitted[states[w][i].pool] \in Nat /\ admitted'[states[w][i].pool] \in Nat
            BY <3>2, <1>5 DEF PoolState, Slots, TypeOK
        <3> QED
            BY <1>5, <1>6, <3>1, <3>3, <3>4
    <2> QED
        BY <2>1, <2>2
<1>8. ASSUME NEW q \in CpmmPools, admitted'[q] # 0
      PROVE  \E i \in Entries(q)' : states'[Venue[q]][i].slot = admitted'[q]
    <2>1. Venue[q] \in Cpmm /\ q \in Pools
        BY PoolsSplit
    <2>2. CASE q = p /\ admitted'[p] = slot
        BY <1>3, <2>2 DEF Entries
    <2>3. CASE admitted'[q] = admitted[q]
        <3>1. PICK i \in Entries(q) : states[Venue[q]][i].slot = admitted[q]
            BY <1>8, <2>3 DEF ListsHoldNewest
        <3>2. i \in DOMAIN states'[Venue[q]] /\ states'[Venue[q]][i] = states[Venue[q]][i]
            BY <1>2, <1>3, <2>1, <3>1 DEF Entries
        <3> QED
            BY <2>3, <3>1, <3>2 DEF Entries
    <2> QED
        BY <1>5, <1>6, <2>1, <2>2, <2>3
<1>9. \A q \in PairedPools : prepared'[q] = admitted'[q]
    BY <1>5, PoolsSplit DEF ListsHoldNewest
<1> QED
    BY <1>4, <1>7, <1>8, <1>9 DEF ListsHoldNewest

\* Replacing an entry by one that is not older keeps the newest one of every pool.
LEMMA EntryPut ==
    ASSUME TypeOK, ListsHoldNewest, NEW p \in CpmmPools, NEW slot \in Slots,
           NEW i \in Entries(p), PutEntry(p, i, Larger(states[Venue[p]][i].slot, slot)),
           Admit(p, slot), prepared' = prepared
    PROVE  ListsTyped' /\ ListsHoldNewest'
<1> DEFINE v == Venue[p]
           old == states[v][i].slot
           e == [pool |-> p, slot |-> Larger(old, slot)]
<1>1. v \in Cpmm /\ p \in Pools /\ states[v] \in Seq(PoolState) /\ i \in DOMAIN states[v]
      /\ states[v][i].pool = p
    BY PoolsSplit DEF TypeOK, Entries
<1>2. old \in Slots /\ states[v][i] \in PoolState
    <2>1. states[v][i] \in PoolState
        BY <1>1
    <2> QED
        BY <2>1 DEF PoolState
<1>3. /\ Larger(old, slot) \in Slots /\ old <= Larger(old, slot) /\ slot <= Larger(old, slot)
      /\ Larger(old, slot) \in {old, slot}
    BY <1>2 DEF Larger, Slots
<1>4. e \in PoolState
    BY <1>1, <1>3 DEF PoolState
<1>5. /\ states' \in [Cpmm -> Seq(PoolState)]
      /\ states'[v] = [states[v] EXCEPT ![i] = e]
      /\ \A w \in Cpmm \ {v} : states'[w] = states[w]
    BY <1>1, <1>4 DEF TypeOK, PutEntry
<1>6. /\ DOMAIN states'[v] = DOMAIN states[v]
      /\ states'[v][i] = e
      /\ \A j \in DOMAIN states[v] \ {i} : states'[v][j] = states[v][j]
    BY <1>1, <1>5
<1>7. ListsTyped'
    <2>1. ASSUME NEW w \in Cpmm, NEW j \in DOMAIN states'[w]
          PROVE  Venue[states'[w][j].pool] = w
        <3>1. CASE w = v /\ j = i
            BY <1>6, <3>1
        <3>2. CASE ~ (w = v /\ j = i)
            BY <1>5, <1>6, <3>2 DEF TypeOK
        <3> QED
            BY <3>1, <3>2
    <2> QED
        BY <1>5, <2>1 DEF ListsTyped
<1>8. /\ admitted' \in [Pools -> 0..MaxSlot]
      /\ admitted'[p] = Larger(admitted[p], slot)
      /\ \A q \in Pools \ {p} : admitted'[q] = admitted[q]
    BY <1>1, AdmitTyped
<1>9. /\ admitted[p] \in Nat /\ slot \in Nat /\ old \in Nat
      /\ admitted[p] <= admitted'[p] /\ slot <= admitted'[p]
      /\ admitted'[p] \in {admitted[p], slot}
      /\ old <= admitted[p]
    <2>1. admitted[p] \in Nat /\ slot \in Nat /\ old \in Nat
        BY <1>1, <1>2 DEF TypeOK, Slots
    <2>2. old <= admitted[p]
        BY <1>1 DEF ListsHoldNewest
    <2> QED
        BY <1>8, <2>1, <2>2, LargerIsMax
<1>10. ASSUME NEW w \in Cpmm, NEW j \in DOMAIN states'[w]
       PROVE  states'[w][j].slot <= admitted'[states'[w][j].pool]
    <2>1. CASE w = v /\ j = i
        <3>1. states'[w][j].slot \in {old, slot} /\ states'[w][j].pool = p
            BY <1>3, <1>6, <2>1
        <3> QED
            BY <1>8, <1>9, <3>1, <1>1
    <2>2. CASE ~ (w = v /\ j = i)
        <3>1. j \in DOMAIN states[w] /\ states'[w][j] = states[w][j]
            BY <1>5, <1>6, <2>2
        <3>2. states[w][j] \in PoolState
            BY <3>1 DEF TypeOK
        <3>3. states[w][j].slot <= admitted[states[w][j].pool]
            BY <3>1 DEF ListsHoldNewest
        <3>4. /\ states[w][j].slot \in Nat /\ states[w][j].pool \in Pools
              /\ admitted[states[w][j].pool] \in Nat /\ admitted'[states[w][j].pool] \in Nat
            BY <3>2, <1>8 DEF PoolState, Slots, TypeOK
        <3> QED
            BY <1>8, <1>9, <3>1, <3>3, <3>4
    <2> QED
        BY <2>1, <2>2
<1>11. ASSUME NEW q \in CpmmPools, admitted'[q] # 0
       PROVE  \E j \in Entries(q)' : states'[Venue[q]][j].slot = admitted'[q]
    <2>1. Venue[q] \in Cpmm /\ q \in Pools
        BY PoolsSplit
    <2>2. CASE q = p /\ admitted'[p] = slot
        <3>1. Larger(old, slot) = slot
            BY <1>9, <2>2, <1>8, <1>3
        <3> QED
            BY <1>1, <1>6, <2>2, <3>1 DEF Entries
    <2>3. CASE admitted'[q] = admitted[q]
        <3>1. PICK j \in Entries(q) : states[Venue[q]][j].slot = admitted[q]
            BY <1>11, <2>3 DEF ListsHoldNewest
        <3>2. CASE q = p /\ j = i
            <4>1. Larger(old, slot) = old
                BY <1>3, <1>9, <2>3, <3>1, <3>2
            <4>2. i \in DOMAIN states'[Venue[q]] /\ states'[Venue[q]][i] = e
                BY <1>1, <1>6, <3>2
            <4>3. i \in Entries(q)'
                BY <3>2, <4>2 DEF Entries
            <4> QED
                BY <2>3, <3>1, <3>2, <4>1, <4>2, <4>3
        <3>3. CASE ~ (q = p /\ j = i)
            <4>1. ~ (Venue[q] = v /\ j = i)
                BY <1>1, <3>1, <3>3 DEF Entries
            <4>2. j \in DOMAIN states'[Venue[q]] /\ states'[Venue[q]][j] = states[Venue[q]][j]
                BY <1>5, <1>6, <2>1, <3>1, <4>1 DEF Entries
            <4> QED
                BY <2>3, <3>1, <4>2 DEF Entries
        <3> QED
            BY <3>2, <3>3
    <2> QED
        BY <1>8, <1>9, <2>1, <2>2, <2>3
<1>12. \A q \in PairedPools : prepared'[q] = admitted'[q]
    BY <1>8, PoolsSplit DEF ListsHoldNewest
<1> QED
    BY <1>7, <1>10, <1>11, <1>12 DEF ListsHoldNewest

LEMMA ReadsTyped ==
    ASSUME TypeOK, NEW p \in CpmmPools, NEW slot \in Slots, NEW t \in BOOLEAN,
           Remember(p, slot, t)
    PROVE  lastRead' \in [CpmmPools -> Read]
BY DEF TypeOK, Remember, Read, Slots

\* The merge of a discovered pool.
LEMMA Discovered ==
    ASSUME Inductive, NEW p \in CpmmPools, NEW trigger \in Slots, NEW slot \in Slots,
           Discover(p, trigger, slot), phase' \in Phases,
           phase \notin Building \cup {"quoting", "failed"},
           phase' \notin Building \cup {"quoting"}
    PROVE  Inductive'
<1> USE DEF Discover
<1>1. TypeOK /\ ListsHoldNewest /\ p \in Pools
    BY PoolsSplit DEF Inductive
<1>2. ListsTyped' /\ ListsHoldNewest'
    <2>1. CASE Entries(p) = {} /\ AddEntry(p, trigger)
        BY <1>1, <2>1, EntryAdded
    <2>2. CASE \E i \in Entries(p) :
                  PutEntry(p, i, Larger(states[Venue[p]][i].slot, trigger))
        BY <1>1, <2>2, EntryPut
    <2> QED
        BY <2>1, <2>2 DEF MergeState
<1>3. TypeOK'
    <2>1. contexts' \in [CpmmPools -> 0..MaxSlot]
        BY <1>1 DEF TypeOK, MergeContext, Slots
    <2>2. admitted' \in [Pools -> 0..MaxSlot] /\ lastRead' \in [CpmmPools -> Read]
        BY <1>1, AdmitTyped, ReadsTyped
    <2> QED
        BY <1>1, <1>2, <2>1, <2>2 DEF TypeOK, ListsTyped
<1> QED
    BY <1>2, <1>3, StageStep

\* A step that moves on, or only learns that a pool does not trade.
LEMMA NothingAdmitted ==
    ASSUME Inductive, phase' \in Phases, observed' \in Nat, wsSlot' \in Nat,
           lastRead' \in [CpmmPools -> Read], initialRoutes' = initialRoutes,
           UNCHANGED <<states, contexts, prepared, queue, registry, admitted>>,
           phase \notin Building \cup {"quoting", "failed"},
           phase' \notin Building \cup {"quoting"}
    PROVE  Inductive'
<1>1. TypeOK'
    BY DEF Inductive, TypeOK
<1>2. ListsHoldNewest'
    BY DEF Inductive, ListsHoldNewest, Entries
<1> QED
    BY <1>1, <1>2, StageStep

LEMMA PreparedReplaced ==
    ASSUME TypeOK, ListsHoldNewest, NEW p \in PairedPools, NEW slot \in Slots,
           prepared' = IF Replaces(p, slot) THEN [prepared EXCEPT ![p] = slot] ELSE prepared,
           Admit(p, slot), states' = states
    PROVE  /\ prepared' \in [PairedPools -> 0..MaxSlot]
           /\ admitted' \in [Pools -> 0..MaxSlot]
           /\ ListsHoldNewest'
<1>1. p \in Pools /\ p \notin CpmmPools
    BY PoolsSplit
<1>2. /\ admitted' \in [Pools -> 0..MaxSlot]
      /\ admitted'[p] = Larger(admitted[p], slot)
      /\ \A q \in Pools \ {p} : admitted'[q] = admitted[q]
    BY <1>1, AdmitTyped
<1>3. prepared' \in [PairedPools -> 0..MaxSlot]
    BY DEF TypeOK, Slots
<1>4. \A q \in PairedPools : prepared'[q] = admitted'[q]
    <2>1. prepared[p] = admitted[p] /\ prepared[p] \in 0..MaxSlot
        BY DEF ListsHoldNewest, TypeOK
    <2>2. prepared'[p] = admitted'[p]
        BY <1>2, <2>1 DEF Replaces, Larger, Slots, TypeOK
    <2>3. ASSUME NEW q \in PairedPools, q # p PROVE prepared'[q] = admitted'[q]
        BY <1>2, <2>3, PoolsSplit DEF ListsHoldNewest, TypeOK
    <2> QED
        BY <2>2, <2>3
<1>5. \A v \in Cpmm : \A i \in DOMAIN states[v] : states[v][i].pool \in CpmmPools
    <2> SUFFICES ASSUME NEW v \in Cpmm, NEW i \in DOMAIN states[v]
                 PROVE  states[v][i].pool \in CpmmPools
        OBVIOUS
    <2>1. states[v][i] \in PoolState /\ Venue[states[v][i].pool] = v
        BY DEF TypeOK
    <2> QED
        BY <2>1 DEF PoolState, CpmmPools, PoolsOf, Cpmm
<1>6. \A q \in CpmmPools : admitted'[q] = admitted[q]
    BY <1>1, <1>2, PoolsSplit
<1>7. ListsHoldNewest'
    BY <1>4, <1>5, <1>6 DEF ListsHoldNewest, Entries
<1> QED
    BY <1>2, <1>3, <1>7

LEMMA ObservePreserves == Inductive /\ Observe => Inductive'
<1> SUFFICES ASSUME Inductive, Observe PROVE Inductive'
    OBVIOUS
<1>0. TypeOK /\ ListsHoldNewest
    BY DEF Inductive
<1> USE DEF Building, Phases, Venues
<1>1. ASSUME NEW p \in CpmmPools, NEW trigger \in Slots, NEW slot \in Slots,
             ObserveReady(p, trigger, slot)
      PROVE  Inductive'
    <2> USE <1>1 DEF ObserveReady, Notified
    <2>1. p \in Pools /\ phase \in Cpmm /\ phase' = phase /\ registry' = registry
        BY PoolsSplit
    <2>2. ListsTyped' /\ ListsHoldNewest'
        BY <1>0, EntryAdded
    <2>3. contexts' \in [CpmmPools -> 0..MaxSlot] /\ observed' \in Nat /\ wsSlot' \in Nat
        BY <1>0 DEF TypeOK, Slots
    <2>4. admitted' \in [Pools -> 0..MaxSlot] /\ lastRead' \in [CpmmPools -> Read]
        BY <1>0, <2>1, AdmitTyped, ReadsTyped
    <2>5. TypeOK'
        BY <1>0, <2>2, <2>3, <2>4 DEF TypeOK, ListsTyped
    <2> QED
        BY <2>1, <2>2, <2>5, StageStep DEF Cpmm
<1>2. ASSUME NEW p \in CpmmPools, NEW trigger \in Slots, NEW slot \in Slots,
             ObserveUntradable(p, trigger, slot)
      PROVE  Inductive'
    <2> USE <1>2 DEF ObserveUntradable, Notified
    <2>1. phase \in Venues
        BY PoolsSplit DEF Cpmm
    <2>2. lastRead' \in [CpmmPools -> Read]
        BY <1>0, ReadsTyped
    <2>3. observed' \in Nat /\ wsSlot' \in Nat
        BY <1>0 DEF TypeOK, Slots
    <2> QED
        BY <1>0, <2>1, <2>2, <2>3, NothingAdmitted
<1>3. ASSUME NEW v \in Venues, NEW trigger \in Slots, ObserveRejected(v, trigger)
      PROVE  Inductive'
    <2> USE <1>3 DEF ObserveRejected, Notified
    <2>1. lastRead' \in [CpmmPools -> Read] /\ observed' \in Nat /\ wsSlot' \in Nat
        BY <1>0 DEF TypeOK, Slots
    <2> QED
        BY <2>1, NothingAdmitted
<1>4. ASSUME NEW p \in PairedPools, NEW trigger \in Slots, NEW slot \in Slots,
             ObservePrepared(p, trigger, slot)
      PROVE  Inductive'
    <2> USE <1>4 DEF ObservePrepared, Notified
    <2>1. phase \in Venues /\ phase' = phase /\ registry' = registry
        BY PoolsSplit
    <2>2. prepared' \in [PairedPools -> 0..MaxSlot] /\ admitted' \in [Pools -> 0..MaxSlot]
          /\ ListsHoldNewest'
        BY <1>0, PreparedReplaced
    <2>3. TypeOK'
        BY <1>0, <2>2 DEF TypeOK, Slots
    <2> QED
        BY <2>1, <2>2, <2>3, StageStep
<1>5. ASSUME NEW v \in Venues, VenueDone(v) PROVE Inductive'
    <2> USE <1>5 DEF VenueDone, Goto, AfterVenue
    <2>1. phase' \in Phases /\ phase' \notin Building \cup {"quoting"}
        OBVIOUS
    <2>2. lastRead' \in [CpmmPools -> Read] /\ observed' \in Nat /\ wsSlot' \in Nat
        BY <1>0 DEF TypeOK
    <2> QED
        BY <2>1, <2>2, NothingAdmitted
<1>6. CASE StreamFails
    <2> USE <1>6 DEF StreamFails, Fail, Goto
    <2>1. lastRead' \in [CpmmPools -> Read] /\ observed' \in Nat /\ wsSlot' \in Nat
        BY <1>0 DEF TypeOK
    <2> QED
        BY <2>1, NothingAdmitted
<1> QED
    BY <1>1, <1>2, <1>3, <1>4, <1>5, <1>6 DEF Observe

LEMMA DiscoveryPreserves == Inductive /\ Discovery => Inductive'
<1> SUFFICES ASSUME Inductive, Discovery PROVE Inductive'
    OBVIOUS
<1>0. TypeOK /\ ListsHoldNewest
    BY DEF Inductive
<1> DEFINE stages == {"counterpart", "overlap", "exactPairRaydium", "exactPairIncomplete",
                       "exactPairMeteora"}
           nexts == {"initial", "exactPairRaydium", "exactPairMeteora", "prices"}
<1>1. stages \subseteq Phases \ (Building \cup {"quoting", "failed"})
      /\ nexts \subseteq Phases \ (Building \cup {"quoting"})
    BY DEF Phases, Building
<1>2. phase \in stages
    BY DEF Discovery, OrcaCounterpart, Overlap, OverlapWith, ExactPairRaydium, ExactPairMeteora
<1>3. ASSUME NEW next \in nexts, Skip(next) PROVE Inductive'
    <2>1. lastRead' \in [CpmmPools -> Read] /\ observed' \in Nat /\ wsSlot' \in Nat
        BY <1>0, <1>3 DEF TypeOK, Skip, Goto
    <2> QED
        BY <1>1, <1>2, <1>3, <2>1, NothingAdmitted DEF Skip, Goto
<1>4. ASSUME Fail PROVE Inductive'
    <2>1. lastRead' \in [CpmmPools -> Read] /\ observed' \in Nat /\ wsSlot' \in Nat
        BY <1>0, <1>4 DEF TypeOK, Fail, Goto
    <2>2. "failed" \in Phases \ (Building \cup {"quoting"})
        BY DEF Phases, Building
    <2> QED
        BY <1>1, <1>2, <1>4, <2>1, <2>2, NothingAdmitted DEF Fail, Goto
<1>5. ASSUME NEW p \in CpmmPools, NEW trigger \in Slots, NEW slot \in Slots, NEW next \in nexts,
             Discover(p, trigger, slot), phase' = next
      PROVE  Inductive'
    BY <1>1, <1>2, <1>5, Discovered
<1>6. ASSUME NEW p \in CpmmPools, NEW slot \in Slots, NEW next \in stages,
             PassOver(p, slot, next)
      PROVE  Inductive'
    <2>1. lastRead' \in [CpmmPools -> Read]
        BY <1>0, <1>6, ReadsTyped DEF PassOver
    <2>2. observed' \in Nat /\ wsSlot' \in Nat
        BY <1>0, <1>6 DEF TypeOK, PassOver
    <2>3. phase' \in stages
        BY <1>2, <1>6 DEF PassOver
    <2> QED
        BY <1>1, <1>2, <1>6, <2>1, <2>2, <2>3, NothingAdmitted DEF PassOver
<1>7. ASSUME NEW p \in PairedPools, NEW slot \in Slots, phase' = "prices", Admit(p, slot),
             prepared' = IF Replaces(p, slot) THEN [prepared EXCEPT ![p] = slot] ELSE prepared,
             UNCHANGED <<observed, wsSlot, states, contexts, queue, registry,
                         initialRoutes, lastRead>>
      PROVE  Inductive'
    <2>1. prepared' \in [PairedPools -> 0..MaxSlot] /\ admitted' \in [Pools -> 0..MaxSlot]
          /\ ListsHoldNewest'
        BY <1>0, <1>7, PreparedReplaced
    <2>2. TypeOK'
        BY <1>0, <1>1, <1>7, <2>1 DEF TypeOK
    <2> QED
        BY <1>1, <1>2, <1>7, <2>1, <2>2, StageStep
<1>8. CASE OrcaCounterpart
    BY <1>2, <1>3, <1>5, <1>6, <1>8 DEF OrcaCounterpart
<1>9. CASE Overlap
    BY <1>2, <1>4, <1>5, <1>6, <1>9 DEF Overlap, OverlapWith
<1>10. CASE ExactPairRaydium
    <2>1. PoolsOf("Raydium") \subseteq CpmmPools
        BY DEF CpmmPools
    <2> QED
        BY <1>3, <1>4, <1>5, <1>6, <1>10, <2>1 DEF ExactPairRaydium
<1>11. CASE ExactPairMeteora
    <2>1. PoolsOf("Meteora") \subseteq PairedPools
        BY DEF PairedPools
    <2> QED
        BY <1>3, <1>4, <1>7, <1>11, <2>1 DEF ExactPairMeteora
<1> QED
    BY <1>8, <1>9, <1>10, <1>11 DEF Discovery

\* The queue of a new registry holds exactly the states of both lists.
LEMMA RegistryStarted ==
    ASSUME Inductive, NEW from \in {"initial", "prices"}, NEW building \in Building,
           StartRegistry(from, building)
    PROVE  Inductive'
<1> USE DEF StartRegistry
<1> DEFINE R == states["Raydium"]
           P == states["PumpSwap"]
<1>0. TypeOK /\ ListsHoldNewest
    BY DEF Inductive
<1>1. R \in Seq(PoolState) /\ P \in Seq(PoolState) /\ Cpmm = {"Raydium", "PumpSwap"}
    BY <1>0 DEF TypeOK, Cpmm
<1>2. /\ queue' \in Seq(PoolState)
      /\ Len(queue') = Len(R) + Len(P)
      /\ \A i \in 1..Len(R) : queue'[i] = R[i]
      /\ \A i \in 1..Len(P) : queue'[i + Len(R)] = P[i]
      /\ Len(R) \in Nat /\ Len(P) \in Nat
      /\ DOMAIN R = 1..Len(R) /\ DOMAIN P = 1..Len(P) /\ DOMAIN queue' = 1..Len(queue')
    <2>1. queue' = R \o P
        OBVIOUS
    <2>2. /\ R \o P \in Seq(PoolState)
          /\ Len(R \o P) = Len(R) + Len(P)
          /\ \A i \in 1..(Len(R) + Len(P)) :
                (R \o P)[i] = IF i <= Len(R) THEN R[i] ELSE P[i - Len(R)]
        BY <1>1, ConcatProperties
    <2>3. /\ Len(R) \in Nat /\ Len(P) \in Nat
          /\ DOMAIN R = 1..Len(R) /\ DOMAIN P = 1..Len(P)
        BY <1>1
    <2>4. DOMAIN queue' = 1..Len(queue')
        BY <2>1, <2>2
    <2> HIDE DEF R, P
    <2> QED
        BY <2>1, <2>2, <2>3, <2>4
<1>3. ASSUME NEW j \in DOMAIN queue'
      PROVE  \E v \in Cpmm : \E i \in DOMAIN states[v] : queue'[j] = states[v][i]
    <2>1. j \in 1..(Len(R) + Len(P)) /\ Len(R) \in Nat /\ Len(P) \in Nat
        <3> HIDE DEF R, P
        <3> QED
            BY <1>2
    <2>2. CASE j <= Len(R)
        BY <1>1, <1>2, <2>1, <2>2
    <2>3. CASE ~ (j <= Len(R))
        <3>1. (j - Len(R)) \in 1..Len(P) /\ queue'[j] = P[j - Len(R)]
            <4> HIDE DEF R, P
            <4>1. (j - Len(R)) \in 1..Len(P) /\ (j - Len(R)) + Len(R) = j
                BY <2>1, <2>3
            <4> QED
                BY <1>2, <4>1
        <3> QED
            BY <1>1, <3>1
    <2> QED
        BY <2>2, <2>3
<1>4. ASSUME NEW v \in Cpmm, NEW i \in DOMAIN states[v]
      PROVE  \E j \in DOMAIN queue' : queue'[j] = states[v][i]
    <2>1. CASE v = "Raydium"
        <3>1. i \in DOMAIN queue' /\ queue'[i] = R[i]
            <4>1. i \in DOMAIN R
                BY <2>1
            <4> HIDE DEF R, P
            <4>2. i \in 1..Len(R)
                BY <1>2, <4>1
            <4>3. (i) \in 1..(Len(R) + Len(P))
                BY <1>2, <4>2
            <4> QED
                BY <1>2, <4>2, <4>3
        <3> QED
            BY <2>1, <3>1
    <2>2. CASE v = "PumpSwap"
        <3>1. (i + Len(R)) \in DOMAIN queue' /\ queue'[i + Len(R)] = P[i]
            <4>1. i \in DOMAIN P
                BY <2>2
            <4> HIDE DEF R, P
            <4>2. i \in 1..Len(P)
                BY <1>2, <4>1
            <4>3. (i + Len(R)) \in 1..(Len(R) + Len(P))
                BY <1>2, <4>2
            <4> QED
                BY <1>2, <4>2, <4>3
        <3> QED
            BY <2>2, <3>1
    <2> QED
        BY <1>1, <2>1, <2>2
<1>5. ASSUME NEW v \in Cpmm, NEW i \in DOMAIN states[v]
      PROVE  states[v][i].pool \in CpmmPools
    <2>1. states[v][i] \in PoolState /\ Venue[states[v][i].pool] = v
        BY <1>0 DEF TypeOK
    <2> QED
        BY <2>1 DEF PoolState, CpmmPools, PoolsOf, Cpmm
<1>6. TypeOK'
    <2>1. \A j \in DOMAIN queue' : queue'[j].pool \in CpmmPools
        BY <1>3, <1>5
    <2>2. registry' \in [Pools -> Registered]
        BY DEF NoRegistry, Registered
    <2>3. phase' \in Phases
        BY DEF Building, Phases
    <2> QED
        BY <1>0, <1>2, <2>1, <2>2, <2>3 DEF TypeOK
<1>7. ListsHoldNewest'
    BY <1>0 DEF ListsHoldNewest, Entries
<1>8. QueueIsTheRest'
    <2>1. \A j \in DOMAIN queue' : queue'[j].slot <= admitted[queue'[j].pool]
        BY <1>0, <1>3 DEF ListsHoldNewest
    <2> QED
        BY <1>4, <2>1 DEF QueueIsTheRest
<1>9. RegistryIsFromLists' /\ ReadyHasContext'
    BY <1>0, PoolsSplit DEF RegistryIsFromLists, ReadyHasContext, NoRegistry, Building, TypeOK
<1>10. RoutesAreQuotable' /\ NewestStateWins'
    BY DEF RoutesAreQuotable, NewestStateWins, Building
<1> QED
    BY <1>6, <1>7, <1>8, <1>9, <1>10 DEF Inductive

\* One upsert: the state at the head of the queue is now registered, unless a
\* newer one of its pool is.
LEMMA UpsertPreserves == Inductive /\ UpsertNext => Inductive'
<1> SUFFICES ASSUME Inductive, UpsertNext PROVE Inductive'
    OBVIOUS
<1> USE DEF UpsertNext
<1> DEFINE h == Head(queue)
<1>0. TypeOK /\ ListsHoldNewest /\ QueueIsTheRest /\ RegistryIsFromLists /\ ReadyHasContext
    BY DEF Inductive
<1>1. phase \in Building /\ phase' = phase /\ phase # "quoting"
    BY DEF Building
<1>2. queue \in Seq(PoolState) /\ queue # <<>>
    BY <1>0 DEF TypeOK
<1>3. /\ queue' \in Seq(PoolState)
      /\ 1 \in DOMAIN queue /\ h = queue[1]
      /\ \A j \in DOMAIN queue' : j + 1 \in DOMAIN queue /\ queue'[j] = queue[j + 1]
      /\ \A j \in DOMAIN queue \ {1} : j - 1 \in DOMAIN queue' /\ queue'[j - 1] = queue[j]
    BY <1>2
<1>4. h \in PoolState /\ h.pool \in CpmmPools /\ h.pool \in Pools /\ h.slot \in Nat
      /\ h.slot \in 0..MaxSlot
    <2>1. h \in PoolState
        BY <1>2, <1>3
    <2>2. h.pool \in CpmmPools
        BY <1>0, <1>3 DEF TypeOK
    <2>3. h.pool \in Pools /\ h.slot \in Nat /\ h.slot \in 0..MaxSlot
        BY <2>1 DEF PoolState, Slots
    <2> QED
        BY <2>1, <2>2, <2>3
<1>5. \A p \in Pools : registry[p] \in Registered /\ registry[p].slot \in Nat
    BY <1>0 DEF TypeOK, Registered
<1>6. /\ registry' \in [Pools -> Registered]
      /\ \A p \in Pools \ {h.pool} : registry'[p] = registry[p]
      /\ \/ registry'[h.pool] = registry[h.pool] /\ h.slot < registry[h.pool].slot
         \/ /\ ~ (h.slot < registry[h.pool].slot)
            /\ registry'[h.pool] = [slot |-> h.slot, ready |-> Ready(h)]
    <2>1. CASE h.slot < registry[h.pool].slot
        BY <1>0, <2>1 DEF Upsert, TypeOK
    <2>2. CASE ~ (h.slot < registry[h.pool].slot)
        <3>1. [slot |-> h.slot, ready |-> Ready(h)] \in Registered
            BY <1>4 DEF Registered, Ready
        <3> QED
            BY <1>0, <1>4, <2>2, <3>1 DEF Upsert, TypeOK
    <2> QED
        BY <2>1, <2>2
<1>7. /\ h.slot <= registry'[h.pool].slot
      /\ \A p \in Pools : registry[p].slot <= registry'[p].slot
    <2> HIDE DEF h
    <2>1. registry[h.pool].slot \in Nat /\ h.slot \in Nat
        BY <1>4, <1>5
    <2>2. h.slot <= registry'[h.pool].slot /\ registry[h.pool].slot <= registry'[h.pool].slot
        <3>1. CASE registry'[h.pool] = registry[h.pool] /\ h.slot < registry[h.pool].slot
            BY <2>1, <3>1
        <3>2. CASE /\ ~ (h.slot < registry[h.pool].slot)
                   /\ registry'[h.pool] = [slot |-> h.slot, ready |-> Ready(h)]
            <4>1. registry'[h.pool].slot = h.slot
                BY <3>2
            <4> QED
                BY <2>1, <3>2, <4>1
        <3> QED
            BY <1>6, <3>1, <3>2
    <2>3. ASSUME NEW p \in Pools \ {h.pool} PROVE registry[p].slot <= registry'[p].slot
        BY <1>5, <1>6, <2>3
    <2> QED
        BY <2>2, <2>3
<1>8. TypeOK'
    <2>1. \A j \in DOMAIN queue' : queue'[j].pool \in CpmmPools
        BY <1>0, <1>3 DEF TypeOK
    <2> QED
        BY <1>0, <1>3, <1>6, <2>1 DEF TypeOK
<1>9. ListsHoldNewest'
    BY <1>0 DEF ListsHoldNewest, Entries
<1>10. QueueIsTheRest'
    <2>1. \A j \in DOMAIN queue' : queue'[j].slot <= admitted[queue'[j].pool]
        BY <1>0, <1>1, <1>3 DEF QueueIsTheRest
    <2>2. ASSUME NEW v \in Cpmm, NEW i \in DOMAIN states[v]
          PROVE  \/ states[v][i].slot <= registry'[states[v][i].pool].slot
                 \/ \E j \in DOMAIN queue' : queue'[j] = states[v][i]
        <3>0. states[v][i] \in PoolState
            BY <1>0 DEF TypeOK
        <3>1. states[v][i].pool \in Pools /\ states[v][i].slot \in Nat
            BY <3>0 DEF PoolState, Slots
        <3>2. CASE states[v][i].slot <= registry[states[v][i].pool].slot
            <4>1. registry[states[v][i].pool].slot <= registry'[states[v][i].pool].slot
                BY <1>7, <3>1
            <4>2. registry'[states[v][i].pool].slot \in Nat
                BY <1>6, <3>1 DEF Registered
            <4> QED
                BY <1>5, <3>1, <3>2, <4>1, <4>2
        <3>3. CASE \E j \in DOMAIN queue : queue[j] = states[v][i]
            <4>1. PICK j \in DOMAIN queue : queue[j] = states[v][i]
                BY <3>3
            <4>2. CASE j = 1
                BY <1>3, <1>7, <4>1, <4>2
            <4>3. CASE j # 1
                BY <1>3, <4>1, <4>3
            <4> QED
                BY <4>2, <4>3
        <3> QED
            BY <1>0, <1>1, <3>2, <3>3 DEF QueueIsTheRest
    <2> QED
        BY <2>1, <2>2 DEF QueueIsTheRest
<1>11. RegistryIsFromLists'
    <2>1. h.slot <= admitted[h.pool]
        BY <1>0, <1>1, <1>3 DEF QueueIsTheRest
    <2>2. \A p \in CpmmPools : registry'[p].slot <= admitted[p]
        BY <1>0, <1>1, <1>6, <2>1, PoolsSplit DEF RegistryIsFromLists
    <2>3. \A p \in PairedPools : registry'[p] = registry[p]
        BY <1>4, <1>6, PoolsSplit
    <2> QED
        BY <1>0, <1>1, <2>2, <2>3 DEF RegistryIsFromLists
<1>12. ReadyHasContext'
    <2> SUFFICES ASSUME NEW p \in CpmmPools, registry'[p].ready
                 PROVE  contexts[p] # 0 /\ contexts[p] >= registry'[p].slot
        BY DEF ReadyHasContext
    <2>1. CASE registry'[p] = registry[p]
        BY <1>0, <2>1 DEF ReadyHasContext
    <2>2. CASE registry'[p] # registry[p]
        <3>1. p = h.pool /\ registry'[p] = [slot |-> h.slot, ready |-> Ready(h)]
            BY <1>6, <2>2, PoolsSplit
        <3>2. Ready(h)
            BY <3>1
        <3> QED
            BY <3>1, <3>2 DEF Ready
    <2> QED
        BY <2>1, <2>2
<1>13. RoutesAreQuotable' /\ NewestStateWins'
    BY <1>1 DEF RoutesAreQuotable, NewestStateWins
<1> QED
    BY <1>8, <1>9, <1>10, <1>11, <1>12, <1>13 DEF Inductive

\* The finished registry holds the newest admitted state of every pool.
LEMMA RegistryComplete ==
    ASSUME Inductive, phase \in Building, queue = <<>>
    PROVE  /\ WithPrepared \in [Pools -> Registered]
           /\ \A p \in CpmmPools : WithPrepared[p] = registry[p]
           /\ \A p \in PairedPools : WithPrepared[p].ready => WithPrepared[p].slot = prepared[p]
           /\ \A p \in Pools : WithPrepared[p].slot = admitted[p]
<1>0. TypeOK /\ ListsHoldNewest /\ QueueIsTheRest /\ RegistryIsFromLists
    BY DEF Inductive
<1>1. WithPrepared \in [Pools -> Registered]
    BY <1>0 DEF WithPrepared, TypeOK, Registered
<1>2. \A p \in CpmmPools : WithPrepared[p] = registry[p]
    BY PoolsSplit DEF WithPrepared
<1>3. ASSUME NEW p \in PairedPools
      PROVE  /\ WithPrepared[p].ready => WithPrepared[p].slot = prepared[p]
             /\ WithPrepared[p].slot = admitted[p]
    <2>1. p \in Pools /\ registry[p] = [slot |-> 0, ready |-> FALSE]
          /\ prepared[p] = admitted[p]
        BY <1>0, PoolsSplit DEF RegistryIsFromLists, ListsHoldNewest
    <2>2. CASE prepared[p] # 0
        BY <2>1, <2>2 DEF WithPrepared
    <2>3. CASE prepared[p] = 0
        BY <2>1, <2>3 DEF WithPrepared
    <2> QED
        BY <2>2, <2>3
<1>4. ASSUME NEW p \in CpmmPools PROVE registry[p].slot = admitted[p]
    <2>1. p \in Pools /\ Venue[p] \in Cpmm
        BY PoolsSplit
    <2>2. registry[p].slot \in Nat /\ admitted[p] \in Nat /\ registry[p].slot <= admitted[p]
        BY <1>0, <2>1 DEF TypeOK, Registered, RegistryIsFromLists
    <2>3. CASE admitted[p] = 0
        BY <2>2, <2>3
    <2>4. CASE admitted[p] # 0
        <3>1. PICK i \in Entries(p) : states[Venue[p]][i].slot = admitted[p]
            BY <1>0, <2>4 DEF ListsHoldNewest
        <3>2. states[Venue[p]][i].pool = p /\ i \in DOMAIN states[Venue[p]]
            BY <3>1 DEF Entries
        <3>3. ~ \E j \in DOMAIN queue : queue[j] = states[Venue[p]][i]
            OBVIOUS
        <3>4. admitted[p] <= registry[p].slot
            BY <1>0, <2>1, <3>1, <3>2, <3>3 DEF QueueIsTheRest
        <3> QED
            BY <2>2, <3>4
    <2> QED
        BY <2>3, <2>4
<1> QED
    BY <1>1, <1>2, <1>3, <1>4, PoolsSplit

LEMMA RegisterPreserves == Inductive /\ Register => Inductive'
<1> SUFFICES ASSUME Inductive, Register PROVE Inductive'
    OBVIOUS
<1>0. TypeOK /\ ListsHoldNewest /\ ReadyHasContext
    BY DEF Inductive
<1>1. CASE StartRegistry("initial", "initialRegistry")
    BY <1>1, RegistryStarted DEF Building
<1>2. CASE StartRegistry("prices", "finalRegistry")
    BY <1>2, RegistryStarted DEF Building
<1>3. CASE UpsertNext
    BY <1>3, UpsertPreserves
<1>4. CASE InitialRoutesFound
    <2> USE <1>4 DEF InitialRoutesFound
    <2>1. phase' \in {"overlap", "exactPairRaydium"}
        OBVIOUS
    <2>2. TypeOK'
        <3>1. registry' \in [Pools -> Registered]
            BY DEF NoRegistry, Registered
        <3>2. initialRoutes' \subseteq Pools \X Pools
            BY DEF Routes, Eligible
        <3>3. phase' \in Phases
            BY <2>1 DEF Phases
        <3> QED
            BY <1>0, <3>1, <3>2, <3>3 DEF TypeOK
    <2>3. ListsHoldNewest'
        BY <1>0 DEF ListsHoldNewest, Entries
    <2>4. (QueueIsTheRest /\ RegistryIsFromLists /\ RoutesAreQuotable /\ NewestStateWins)'
        BY <2>1 DEF QueueIsTheRest, RegistryIsFromLists, RoutesAreQuotable, NewestStateWins,
                    Building
    <2>5. ReadyHasContext'
        BY PoolsSplit DEF ReadyHasContext, NoRegistry
    <2> QED
        BY <2>2, <2>3, <2>4, <2>5 DEF Inductive
<1>5. CASE PricesUnavailable
    <2> USE <1>5 DEF PricesUnavailable, Fail, Goto
    <2>1. lastRead' \in [CpmmPools -> Read] /\ observed' \in Nat /\ wsSlot' \in Nat
        BY <1>0 DEF TypeOK
    <2> QED
        BY <2>1, NothingAdmitted DEF Phases, Building
<1>6. CASE FinalRoutesFound
    <2> USE <1>6 DEF FinalRoutesFound
    <2>1. phase' \in {"failed", "quoting"} /\ phase \in Building
        BY DEF Building
    <2>2. /\ registry' \in [Pools -> Registered]
          /\ \A p \in CpmmPools : registry'[p] = registry[p]
          /\ \A p \in PairedPools : registry'[p].ready => registry'[p].slot = prepared[p]
          /\ \A p \in Pools : registry'[p].slot = admitted[p]
        BY <2>1, RegistryComplete
    <2>3. TypeOK'
        BY <1>0, <2>1, <2>2 DEF TypeOK, Phases
    <2>4. ListsHoldNewest'
        BY <1>0 DEF ListsHoldNewest, Entries
    <2>5. (QueueIsTheRest /\ RegistryIsFromLists)'
        BY <2>1 DEF QueueIsTheRest, RegistryIsFromLists, Building
    <2>6. ReadyHasContext'
        BY <1>0, <2>2 DEF ReadyHasContext
    <2>7. NewestStateWins'
        BY <2>2 DEF NewestStateWins
    <2>8. RoutesAreQuotable'
        <3> SUFFICES ASSUME NEW p \in Pools, registry'[p].ready
                     PROVE  IF p \in CpmmPools
                            THEN contexts'[p] # 0 /\ contexts'[p] >= registry'[p].slot
                            ELSE prepared'[p] = registry'[p].slot
            BY DEF RoutesAreQuotable, Routes, Eligible
        <3> QED
            BY <2>2, <2>6, PoolsSplit DEF ReadyHasContext
    <2> QED
        BY <2>3, <2>4, <2>5, <2>6, <2>7, <2>8 DEF Inductive
<1> QED
    BY <1>1, <1>2, <1>3, <1>4, <1>5, <1>6 DEF Register

LEMMA NextInductive == Inductive /\ [Next]_vars => Inductive'
<1>1. Inductive /\ UNCHANGED vars => Inductive'
    BY DEF vars, Inductive, TypeOK, ListsHoldNewest, QueueIsTheRest, RegistryIsFromLists,
           ReadyHasContext, RoutesAreQuotable, NewestStateWins, Entries, Routes, Eligible
<1> QED
    BY <1>1, ObservePreserves, DiscoveryPreserves, RegisterPreserves DEF Next

\* The invariant holds in every state of every run.
THEOREM AdmissionInvariant == Spec => []Inductive
BY InitInductive, NextInductive, PTL DEF Spec

\* Every state of the pipeline is well-typed.
THEOREM TypeCorrect == Spec => []TypeOK
<1>1. Inductive => TypeOK
    BY DEF Inductive
<1> QED
    BY <1>1, AdmissionInvariant, PTL

\* validate_context never refuses a leg of a generated route for its age.
THEOREM RoutesAreQuotableAlways == Spec => []RoutesAreQuotable
<1>1. Inductive => RoutesAreQuotable
    BY DEF Inductive
<1> QED
    BY <1>1, AdmissionInvariant, PTL

\* Neither the merges nor the registry lose the newest admitted state of a pool.
THEOREM NewestStateWinsAlways == Spec => []NewestStateWins
<1>1. Inductive => NewestStateWins
    BY DEF Inductive
<1> QED
    BY <1>1, AdmissionInvariant, PTL
-----------------------------------------------------------------------------
(***************************************************************************)
(* The routes of the first registry.  Its pools had a context not older    *)
(* than their newest state; no later stage reads a Raydium or PumpSwap     *)
(* pool of such a route again, so that is still so when the second         *)
(* registry is built.                                                      *)
(***************************************************************************)
Early == Venues \cup {"counterpart", "initial", "initialRegistry", "overlap"}

StaysReady(p) ==
    /\ admitted[p] # 0
    /\ p \in CpmmPools => contexts[p] # 0 /\ contexts[p] >= admitted[p]

InitialRoutesStayReady ==
    /\ phase \in Early => initialRoutes = {}
    /\ \A r \in initialRoutes :
          /\ r \in Pools \X Pools /\ Venue[r[1]] # Venue[r[2]] /\ Pair[r[1]] = Pair[r[2]]
          /\ StaysReady(r[1]) /\ StaysReady(r[2])

RegistryKnowsReadiness ==
    phase \in Building =>
        \A p \in CpmmPools :
            /\ registry[p].ready => registry[p].slot # 0
            /\ registry[p].slot # 0 /\ contexts[p] # 0 /\ contexts[p] >= registry[p].slot
                 => registry[p].ready

RouteInductive == InitialRoutesStayReady /\ RegistryKnowsReadiness /\ InitialRoutesSurvive

LEMMA InitRouteInductive == Init => RouteInductive
BY DEF Init, RouteInductive, InitialRoutesStayReady, RegistryKnowsReadiness, Building,
       InitialRoutesSurvive

\* A stage that reads nothing of the initial routes' pools.
LEMMA StageKeepsRoutes ==
    ASSUME RouteInductive, initialRoutes' = initialRoutes,
           phase' \notin Building \cup {"quoting"}, phase' \in Early => phase \in Early,
           \A p \in Pools : (\E r \in initialRoutes : p = r[1] \/ p = r[2]) /\ StaysReady(p)
                            => StaysReady(p)'
    PROVE  RouteInductive'
<1>1. RegistryKnowsReadiness' /\ InitialRoutesSurvive'
    BY DEF RegistryKnowsReadiness, InitialRoutesSurvive
<1>2. InitialRoutesStayReady'
    BY DEF RouteInductive, InitialRoutesStayReady
<1> QED
    BY <1>1, <1>2 DEF RouteInductive

\* No route was found before the first registry, so none can be spoilt.
LEMMA EarlyKeepsRoutes ==
    ASSUME RouteInductive, initialRoutes' = initialRoutes, phase \in Early,
           phase' \notin Building \cup {"quoting"}
    PROVE  RouteInductive'
<1>1. initialRoutes = {}
    BY DEF RouteInductive, InitialRoutesStayReady
<1> QED
    BY <1>1, StageKeepsRoutes

LEMMA StillKeepsRoutes ==
    ASSUME RouteInductive, UNCHANGED <<initialRoutes, contexts, admitted>>,
           phase' \notin Building \cup {"quoting"}, phase' \in Early => phase \in Early
    PROVE  RouteInductive'
<1>1. \A p \in Pools : StaysReady(p) => StaysReady(p)'
    BY DEF StaysReady
<1> QED
    BY <1>1, StageKeepsRoutes

\* A Raydium pool of the exact pair in a route makes Stage B leave the pair alone.
LEMMA RoutePoolIsReady ==
    ASSUME Inductive, NEW p \in PoolsOf("Raydium"), StaysReady(p), Pair[p] = ExactPair
    PROVE  RaydiumPairReady
<1>1. p \in CpmmPools /\ Venue[p] = "Raydium"
    BY DEF CpmmPools, PoolsOf
<1>2. PICK i \in Entries(p) : states[Venue[p]][i].slot = admitted[p]
    BY <1>1 DEF Inductive, ListsHoldNewest, StaysReady
<1>3. i \in DOMAIN states["Raydium"] /\ states["Raydium"][i].pool = p
    BY <1>1, <1>2 DEF Entries
<1> QED
    BY <1>1, <1>3 DEF RaydiumPairReady, HasContext, StaysReady

LEMMA ObserveKeepsRoutes == Inductive /\ RouteInductive /\ Observe => RouteInductive'
<1> SUFFICES ASSUME Inductive, RouteInductive, Observe PROVE RouteInductive'
    OBVIOUS
<1> USE DEF Building, Early, Venues
<1>1. ASSUME NEW v \in Venues, NEW slot \in Slots, Notified(v, slot) PROVE RouteInductive'
    BY <1>1, EarlyKeepsRoutes DEF Notified
<1>2. ASSUME NEW p \in Pools PROVE Venue[p] \in Venues
    BY <1>2
<1>3. ASSUME NEW p \in CpmmPools, NEW trigger \in Slots, NEW slot \in Slots,
             ObserveReady(p, trigger, slot) \/ ObserveUntradable(p, trigger, slot)
      PROVE  RouteInductive'
    BY <1>1, <1>2, <1>3, PoolsSplit DEF ObserveReady, ObserveUntradable
<1>4. ASSUME NEW v \in Venues, NEW trigger \in Slots, ObserveRejected(v, trigger)
      PROVE  RouteInductive'
    BY <1>1, <1>4 DEF ObserveRejected
<1>5. ASSUME NEW p \in PairedPools, NEW trigger \in Slots, NEW slot \in Slots,
             ObservePrepared(p, trigger, slot)
      PROVE  RouteInductive'
    BY <1>1, <1>2, <1>5, PoolsSplit DEF ObservePrepared
<1>6. ASSUME NEW v \in Venues, VenueDone(v) PROVE RouteInductive'
    BY <1>6, EarlyKeepsRoutes DEF VenueDone, Goto, AfterVenue
<1>7. CASE StreamFails
    BY <1>7, EarlyKeepsRoutes DEF StreamFails, Fail, Goto
<1> QED
    BY <1>3, <1>4, <1>5, <1>6, <1>7 DEF Observe

LEMMA DiscoveryKeepsRoutes ==
    Inductive /\ RouteInductive /\ Discovery => RouteInductive'
<1> SUFFICES ASSUME Inductive, RouteInductive, Discovery PROVE RouteInductive'
    OBVIOUS
<1>0. TypeOK
    BY DEF Inductive
<1> USE DEF Building, Early, Venues
<1>1. CASE OrcaCounterpart
    BY <1>1, EarlyKeepsRoutes DEF OrcaCounterpart, Discover, PassOver, Skip, Goto
<1>2. CASE Overlap
    BY <1>2, EarlyKeepsRoutes DEF Overlap, OverlapWith, Discover, PassOver, Fail, Goto
<1>3. CASE ExactPairRaydium
    <2>1. phase \in {"exactPairRaydium", "exactPairIncomplete"}
        BY <1>3 DEF ExactPairRaydium
    <2>2. ASSUME NEW next \in {"prices", "exactPairMeteora"}, Skip(next) PROVE RouteInductive'
        BY <2>2, StillKeepsRoutes DEF Skip, Goto
    <2>3. ASSUME Fail PROVE RouteInductive'
        BY <2>3, StillKeepsRoutes DEF Fail, Goto
    <2>4. ASSUME NEW p \in PoolsOf("Raydium"), NEW slot \in Slots,
                 PassOver(p, slot, "exactPairIncomplete")
          PROVE  RouteInductive'
        BY <2>4, StillKeepsRoutes DEF PassOver
    <2>5. ASSUME NEW p \in PoolsOf("Raydium"), NEW trigger \in Slots, NEW slot \in Slots,
                 ~ RaydiumPairReady, Pair[p] = ExactPair,
                 Discover(p, trigger, slot), phase' = "exactPairMeteora"
          PROVE  RouteInductive'
        <3>1. p \in CpmmPools /\ p \in Pools
            BY DEF CpmmPools, PoolsOf
        <3>2. \A q \in Pools \ {p} : admitted'[q] = admitted[q]
            BY <1>0, <2>5, <3>1, AdmitTyped DEF Discover
        <3>3. \A q \in CpmmPools \ {p} : contexts'[q] = contexts[q]
            BY <1>0, <2>5 DEF Discover, MergeContext, TypeOK
        <3>4. ASSUME NEW q \in Pools, StaysReady(q) PROVE StaysReady(q)'
            <4>1. q # p
                BY <2>5, <3>4, RoutePoolIsReady
            <4> QED
                BY <3>2, <3>3, <3>4, <4>1 DEF StaysReady
        <3> QED
            BY <2>5, <3>4, StageKeepsRoutes DEF Discover
    <2> QED
        BY <1>3, <2>2, <2>3, <2>4, <2>5 DEF ExactPairRaydium
<1>4. CASE ExactPairMeteora
    <2>1. phase = "exactPairMeteora"
        BY <1>4 DEF ExactPairMeteora
    <2>2. ASSUME Skip("prices") PROVE RouteInductive'
        BY <2>2, StillKeepsRoutes DEF Skip, Goto
    <2>3. ASSUME Fail PROVE RouteInductive'
        BY <2>3, StillKeepsRoutes DEF Fail, Goto
    <2>4. ASSUME NEW p \in PoolsOf("Meteora"), NEW slot \in Slots, Admit(p, slot),
                 phase' = "prices", UNCHANGED <<contexts, initialRoutes>>
          PROVE  RouteInductive'
        <3>1. p \in Pools /\ p \notin CpmmPools
            BY DEF PoolsOf, CpmmPools
        <3>2. /\ admitted'[p] = Larger(admitted[p], slot)
              /\ \A q \in Pools \ {p} : admitted'[q] = admitted[q]
            BY <1>0, <2>4, <3>1, AdmitTyped
        <3>3. admitted'[p] # 0
            BY <1>0, <3>1, <3>2 DEF TypeOK, Larger, Slots
        <3>4. ASSUME NEW q \in Pools, StaysReady(q) PROVE StaysReady(q)'
            BY <2>4, <3>1, <3>2, <3>3, <3>4 DEF StaysReady
        <3> QED
            BY <2>4, <3>4, StageKeepsRoutes
    <2> QED
        BY <1>4, <2>2, <2>3, <2>4 DEF ExactPairMeteora
<1> QED
    BY <1>1, <1>2, <1>3, <1>4 DEF Discovery

LEMMA RegisterKeepsRoutes == Inductive /\ RouteInductive /\ Register => RouteInductive'
<1> SUFFICES ASSUME Inductive, RouteInductive, Register PROVE RouteInductive'
    OBVIOUS
<1>0. TypeOK /\ InitialRoutesStayReady /\ RegistryKnowsReadiness
    BY DEF Inductive, RouteInductive
<1>1. ASSUME NEW from \in {"initial", "prices"}, NEW building \in Building,
             StartRegistry(from, building), building = "initialRegistry" <=> from = "initial"
      PROVE  RouteInductive'
    <2>1. RegistryKnowsReadiness'
        BY <1>1, PoolsSplit DEF StartRegistry, NoRegistry, RegistryKnowsReadiness
    <2>2. InitialRoutesStayReady' /\ InitialRoutesSurvive'
        BY <1>0, <1>1 DEF StartRegistry, InitialRoutesStayReady, InitialRoutesSurvive,
                          StaysReady, Building, Early, Venues
    <2> QED
        BY <2>1, <2>2 DEF RouteInductive
<1>2. CASE UpsertNext
    <2> DEFINE h == Head(queue)
    <2>1. queue \in Seq(PoolState) /\ queue # <<>> /\ phase \in Building /\ phase' = phase
          /\ UNCHANGED <<contexts, admitted, initialRoutes>>
        BY <1>0, <1>2 DEF UpsertNext, TypeOK, Building
    <2>2. h \in PoolState
        BY <2>1
    <2>3. h.slot \in Nat \ {0} /\ h.pool \in Pools
        BY <2>2 DEF PoolState, Slots
    <2>4. registry' = IF h.slot < registry[h.pool].slot THEN registry
                      ELSE [registry EXCEPT ![h.pool] = [slot |-> h.slot, ready |-> Ready(h)]]
        BY <1>2 DEF UpsertNext, Upsert
    <2> HIDE DEF h
    <2>5. ASSUME NEW p \in CpmmPools
          PROVE  /\ registry'[p].ready => registry'[p].slot # 0
                 /\ registry'[p].slot # 0 /\ contexts'[p] # 0 /\ contexts'[p] >= registry'[p].slot
                      => registry'[p].ready
        <3>1. registry \in [Pools -> Registered] /\ p \in Pools
            BY <1>0, PoolsSplit DEF TypeOK
        <3>2. CASE registry'[p] = registry[p]
            BY <1>0, <2>1, <3>2 DEF RegistryKnowsReadiness
        <3>3. CASE registry'[p] = [slot |-> h.slot, ready |-> Ready(h)] /\ p = h.pool
            <4>1. registry'[p].slot = h.slot /\ (registry'[p].ready = Ready(h))
                BY <3>3
            <4>2. registry'[p].ready <=> contexts[p] # 0 /\ contexts[p] >= h.slot
                BY <3>3, <4>1 DEF Ready
            <4> QED
                BY <2>1, <2>3, <4>1, <4>2
        <3> QED
            BY <2>3, <2>4, <3>1, <3>2, <3>3
    <2>6. RegistryKnowsReadiness'
        BY <2>5 DEF RegistryKnowsReadiness
    <2>7. InitialRoutesStayReady' /\ InitialRoutesSurvive'
        BY <1>0, <2>1 DEF InitialRoutesStayReady, InitialRoutesSurvive, StaysReady, Building
    <2> QED
        BY <2>6, <2>7 DEF RouteInductive
<1>3. CASE InitialRoutesFound
    <2>1. /\ phase = "initialRegistry" /\ queue = <<>> /\ phase \in Building
          /\ initialRoutes' = Routes(WithPrepared)
          /\ phase' = IF initialRoutes' = {} THEN "overlap" ELSE "exactPairRaydium"
          /\ UNCHANGED <<contexts, admitted>>
        BY <1>3 DEF InitialRoutesFound, Building
    <2>2. /\ \A p \in CpmmPools : WithPrepared[p] = registry[p]
          /\ \A p \in Pools : WithPrepared[p].slot = admitted[p]
        BY <2>1, RegistryComplete
    <2>3. ASSUME NEW p \in Pools, WithPrepared[p].ready PROVE StaysReady(p)'
        <3>1. CASE p \in CpmmPools
            BY <1>0, <2>1, <2>2, <2>3, <3>1
               DEF RegistryKnowsReadiness, StaysReady, Inductive, ReadyHasContext
        <3>2. CASE p \in PairedPools
            <4>1. registry[p] = [slot |-> 0, ready |-> FALSE]
                BY <2>1, <3>2 DEF Inductive, RegistryIsFromLists
            <4>2. prepared[p] # 0
                BY <2>3, <3>2, <4>1 DEF WithPrepared
            <4>3. admitted[p] = prepared[p] /\ p \notin CpmmPools
                BY <3>2, PoolsSplit DEF Inductive, ListsHoldNewest
            <4> QED
                BY <2>1, <4>2, <4>3 DEF StaysReady
        <3> QED
            BY <3>1, <3>2, PoolsSplit
    <2>4. InitialRoutesStayReady'
        BY <2>1, <2>3 DEF InitialRoutesStayReady, Routes, Eligible, Early, Venues
    <2>5. RegistryKnowsReadiness' /\ InitialRoutesSurvive'
        BY <2>1 DEF RegistryKnowsReadiness, InitialRoutesSurvive, Building
    <2> QED
        BY <2>4, <2>5 DEF RouteInductive
<1>4. CASE PricesUnavailable
    BY <1>4, StillKeepsRoutes DEF PricesUnavailable, Fail, Goto, Building, Early, Venues
<1>5. CASE FinalRoutesFound
    <2>1. /\ phase = "finalRegistry" /\ queue = <<>> /\ phase \in Building
          /\ registry' = WithPrepared /\ phase' \in {"failed", "quoting"}
          /\ UNCHANGED <<contexts, admitted, initialRoutes>>
        BY <1>5 DEF FinalRoutesFound, Building
    <2>2. /\ \A p \in CpmmPools : WithPrepared[p] = registry[p]
          /\ \A p \in Pools : WithPrepared[p].slot = admitted[p]
        BY <2>1, RegistryComplete
    <2>3. ASSUME NEW p \in Pools, StaysReady(p) PROVE registry'[p].ready
        <3>1. CASE p \in CpmmPools
            BY <1>0, <2>1, <2>2, <2>3, <3>1 DEF RegistryKnowsReadiness, StaysReady
        <3>2. CASE p \in PairedPools
            <4>1. prepared[p] = admitted[p]
                BY <3>2 DEF Inductive, ListsHoldNewest
            <4> QED
                BY <2>1, <2>3, <3>2, <4>1 DEF WithPrepared, StaysReady
        <3> QED
            BY <3>1, <3>2, PoolsSplit
    <2>4. InitialRoutesSurvive'
        BY <1>0, <2>1, <2>3 DEF InitialRoutesSurvive, InitialRoutesStayReady, Routes, Eligible
    <2>5. RegistryKnowsReadiness' /\ InitialRoutesStayReady'
        BY <1>0, <2>1 DEF RegistryKnowsReadiness, InitialRoutesStayReady, StaysReady,
                          Building, Early, Venues
    <2> QED
        BY <2>4, <2>5 DEF RouteInductive
<1> QED
    BY <1>1, <1>2, <1>3, <1>4, <1>5 DEF Register, Building

LEMMA NextKeepsRoutes == Inductive /\ RouteInductive /\ [Next]_vars => RouteInductive'
<1>1. RouteInductive /\ UNCHANGED vars => RouteInductive'
    BY DEF vars, RouteInductive, InitialRoutesStayReady, RegistryKnowsReadiness,
           InitialRoutesSurvive, StaysReady, Routes, Eligible
<1> QED
    BY <1>1, ObserveKeepsRoutes, DiscoveryKeepsRoutes, RegisterKeepsRoutes DEF Next

\* discover_deterministic_cross_venue_overlap and Stage B never take a route
\* away that generate_two_leg_routes had found before them.
THEOREM InitialRoutesSurviveAlways == Spec => []InitialRoutesSurvive
<1>1. Init => RouteInductive
    BY InitRouteInductive
<1>2. Inductive /\ RouteInductive /\ [Next]_vars => RouteInductive'
    BY NextKeepsRoutes
<1>3. RouteInductive => InitialRoutesSurvive
    BY DEF RouteInductive
<1> QED
    BY <1>1, <1>2, <1>3, AdmissionInvariant, PTL DEF Spec
=============================================================================

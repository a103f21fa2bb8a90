---------------------------- MODULE ForensicsPlan ----------------------------
(***************************************************************************)
(* What Rung 13 looks for, and where: the routes of a completed R12 file,  *)
(* the slot window each of them is searched in, and the part of the ledger *)
(* that decides whether somebody traded the route atomically.              *)
(*                                                                         *)
(* A transaction is its slot and its kind: the pools its account list      *)
(* names, its swap instructions in execution order, and whether it         *)
(* succeeded.  A signature is the transaction's position in the ledger.    *)
(***************************************************************************)
EXTENDS Integers, Sequences, FiniteSets

CONSTANTS
    Routes,         \* route ids
    LegsOf,         \* LegsOf[r]: the two legs of route r
    SupportedPools, \* pools of the venues match_leg knows
    Forward,        \* MAX_FORWARD_SLOTS
    Mints,
    Kinds,          \* what transactions of the ledger do
    MaxSlot,        \* bound: slots of the ledger run over 1..MaxSlot
    MaxLedger       \* bound: transactions in the ledger

Slots == 1..MaxSlot
Pools == UNION {{LegsOf[r][1].pool, LegsOf[r][2].pool} : r \in Routes}

Leg == [pool : Pools, input : Mints, slot : Slots]

\* How the mints of a swap are known: from the instruction's own accounts, from
\* the token balances of a legacy Orca swap, or not at all.
Proofs == {"instruction", "balances", "missing"}

ASSUME RouteAssumption ==
    /\ Routes # {} /\ IsFiniteSet(Routes)
    /\ \A r \in Routes :
          /\ DOMAIN LegsOf[r] = {1, 2}
          /\ \A k \in 1..2 : LegsOf[r][k] \in Leg
          /\ LegsOf[r][1].pool # LegsOf[r][2].pool

ASSUME BoundAssumption == Forward \in Nat /\ MaxSlot \in Nat /\ MaxLedger \in Nat

\* A transaction names every pool it swaps in.
ASSUME KindAssumption ==
    \A k \in Kinds :
        /\ k.ok \in BOOLEAN
        /\ k.swaps \in Seq([pool : k.touches, input : Mints, proof : Proofs])

Tx == [slot : Slots, kind : Kinds]

Ledgers ==
    {l \in UNION {[1..n -> Tx] : n \in 0..MaxLedger} :
        \A i, j \in DOMAIN l : i < j => l[i].slot <= l[j].slot}
-----------------------------------------------------------------------------
LegPools(r) == {LegsOf[r][1].pool, LegsOf[r][2].pool}

\* RouteEvidence::start_slot and end_slot.
StartSlot(r) ==
    IF LegsOf[r][1].slot < LegsOf[r][2].slot THEN LegsOf[r][2].slot ELSE LegsOf[r][1].slot

EndSlot(r) == StartSlot(r) + Forward

InWindow(r, slot) == StartSlot(r) <= slot /\ slot <= EndSlot(r)

\* ForensicsPlan::required_end_slot: the tip every window needs.
Mature(tip) == \A r \in Routes : EndSlot(r) <= tip

\* Whether a transaction of this kind trades the route: both legs, in their
\* order and directions, in one transaction that succeeded.
Trades(r, kind) ==
    /\ kind.ok
    /\ \E i, j \in DOMAIN kind.swaps :
          /\ i < j
          /\ kind.swaps[i].pool = LegsOf[r][1].pool /\ kind.swaps[i].input = LegsOf[r][1].input
          /\ kind.swaps[j].pool = LegsOf[r][2].pool /\ kind.swaps[j].input = LegsOf[r][2].input

TradedIn(r, l) == \E i \in DOMAIN l : InWindow(r, l[i].slot) /\ Trades(r, l[i].kind)
=============================================================================

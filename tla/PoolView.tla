------------------------------ MODULE PoolView ------------------------------
(***************************************************************************)
(* What reading a pool promises: whatever is held to be the pool was all   *)
(* of it so at one slot of the chain, and that slot is not older than the  *)
(* one the pool is said to be from.  How the reading is done - from a      *)
(* notification, in one call or in two - does not show.                    *)
(***************************************************************************)
EXTENDS Integers, Sequences

CONSTANTS
    Times,          \* what the machine's clock may show
    Reading(_, _)   \* the pools of a world that trade at a time, as quoted from

VARIABLES
    chain,  \* the worlds, one to a slot
    view    \* {}, or the pool that is held

viewVars == <<chain, view>>

Init ==
    /\ Len(chain) = 1
    /\ view = {}

ChainGrows ==
    /\ Len(chain') = Len(chain) + 1
    /\ \A s \in DOMAIN chain : chain'[s] = chain[s]
    /\ UNCHANGED view

Learn ==
    /\ \E s \in DOMAIN chain, now \in Times : \E claims \in 1 .. s, pool \in Reading(chain[s], now) :
          view' = {[slot |-> s, claims |-> claims, pool |-> pool]}
    /\ UNCHANGED chain

Next == ChainGrows \/ Learn

Spec == Init /\ [][Next]_viewVars
=============================================================================

--------------------------- MODULE MCLiveAdmission ---------------------------
(***************************************************************************)
(* One pool of each venue, all of one pair; three slots.  Two Raydium      *)
(* notifications make a pool appear twice in raydium_states.               *)
(***************************************************************************)
EXTENDS LiveAdmission, TLC

CONSTANTS raydium, pumpswap, orca, meteora, solUsdc

MCPools == {raydium, pumpswap, orca, meteora}
MCVenue == raydium :> "Raydium" @@ pumpswap :> "PumpSwap" @@ orca :> "Orca" @@ meteora :> "Meteora"
MCPair == [p \in MCPools |-> solUsdc]
MCMaxObservations == [Raydium |-> 2, PumpSwap |-> 1, Orca |-> 1, Meteora |-> 1]
=============================================================================

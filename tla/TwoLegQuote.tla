---------------------------- MODULE TwoLegQuote -----------------------------
(***************************************************************************)
(* quote.rs: the venues behind one interface, and a route of two legs that *)
(* starts and ends in the anchor.                                          *)
(*                                                                         *)
(* A context is a snapshot with its venue, pool_id and slot.  What the     *)
(* Orca library answers is not known here: it is any of the results the    *)
(* context lists for an input mint, and the code checks what it gets.      *)
(* A Meteora leg is DlmmSwap's.                                            *)
(***************************************************************************)
EXTENDS RaydiumQuote, PumpSwapQuote

\* validate_orca_exact_input_quote and orca_leg_quote_from_core.
OrcaLegQuote(core, amount) ==
    IF /\ core.token_in > 0 /\ core.token_in <= amount
       /\ core.est_out > 0 /\ core.min_out <= core.est_out
       /\ core.trade_fee <= core.token_in
    THEN {[requested |-> amount, consumed |-> core.token_in,
           unspent |-> amount - core.token_in, out |-> core.est_out]}
    ELSE {}

OrcaQuoteExactInput(c, inputMint, amount) ==
    IF amount = 0 \/ inputMint \notin {c.mint_a, c.mint_b} THEN {}
    ELSE UNION {OrcaLegQuote(core, amount) : core \in c.library[inputMint]}

Pair(c) ==
    CASE c.venue = "raydium" -> {c.mint_0, c.mint_1}
      [] c.venue = "pumpswap" -> {c.base_mint, c.quote_mint}
      [] c.venue = "orca" -> {c.mint_a, c.mint_b}

VenueQuotes(c, inputMint, amount) ==
    CASE c.venue = "raydium" -> RaydiumQuoteExactInput(c, inputMint, amount)
      [] c.venue = "pumpswap" -> PumpSwapQuoteExactInput(c, inputMint, amount)
      [] c.venue = "orca" -> OrcaQuoteExactInput(c, inputMint, amount)

\* validate_context
ContextFits(leg, c) ==
    /\ leg.venue = c.venue
    /\ leg.pool_id = c.pool_id
    /\ c.slot >= leg.source_slot
    /\ Pair(c) = {leg.input, leg.output}

\* Mutant: what the second leg leaves over is forgotten.
SecondLegMayLeaveSome(leg2) == leg2.unspent >= 0

SecondLegIsSpent(leg2) == leg2.unspent = 0

\* What is left of the input on the first leg is still the anchor's.
TwoLegRouteQuote(amount, leg1, leg2) ==
    [requested |-> amount, consumed |-> leg1.consumed, unspent |-> leg1.unspent,
     anchor_output |-> leg2.out + leg1.unspent, leg_1 |-> leg1, leg_2 |-> leg2]

\* More than one quote only if the Orca library leaves a choice.
QuoteTwoLegExactInput(first, second, amount, c1, c2) ==
    IF amount = 0 \/ ~ContextFits(first, c1) \/ ~ContextFits(second, c2) THEN {}
    ELSE UNION {{TwoLegRouteQuote(amount, leg1, leg2) :
                    leg2 \in {q \in VenueQuotes(c2, second.input, leg1.out) :
                                  SecondLegIsSpent(q)}} :
                leg1 \in VenueQuotes(c1, first.input, amount)}
=============================================================================

--------------------------- MODULE ForensicsOracle ---------------------------
(***************************************************************************)
(* What Rung 13 promises.  It looks at the ledger as if in one moment, and *)
(* what it then writes about a route is either that the search was not     *)
(* complete or the truth.  A run passes only if it was complete for every  *)
(* route.                                                                  *)
(***************************************************************************)
EXTENDS ForensicsPlan

VARIABLES
    ledger,     \* the confirmed transactions
    verdict,    \* verdict[r]: the status the artifact gives route r
    outcome     \* how the run ended

oracleVars == <<ledger, verdict, outcome>>

Statuses == {"search_incomplete", "no_atomic_match_complete", "atomic_route_amounts_unresolved"}

Truthful(r, status) ==
    /\ status = "no_atomic_match_complete" => ~ TradedIn(r, ledger)
    /\ status = "atomic_route_amounts_unresolved" => TradedIn(r, ledger)

Init ==
    /\ ledger \in Ledgers
    /\ verdict = [r \in Routes |-> "none"]
    /\ outcome = "running"

Conclude ==
    /\ verdict' \in [Routes -> Statuses]
    /\ \A r \in Routes : Truthful(r, verdict'[r])
    /\ outcome' = IF \E r \in Routes : verdict'[r] = "search_incomplete"
                  THEN "failed" ELSE "passed"

NotMature ==
    /\ verdict' = [r \in Routes |-> "window_not_mature"]
    /\ outcome' = "failed"

\* No artifact could be written.
NoArtifact ==
    /\ outcome' = "failed"
    /\ UNCHANGED verdict

Next ==
    /\ outcome = "running"
    /\ Conclude \/ NotMature \/ NoArtifact
    /\ UNCHANGED ledger

Spec == Init /\ [][Next]_oracleVars
=============================================================================

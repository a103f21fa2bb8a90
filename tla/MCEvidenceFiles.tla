-------------------------- MODULE MCEvidenceFiles --------------------------
(***************************************************************************)
(* Three journals that ended, one that was cut off, one whose last line    *)
(* was, a copy of the first and one with an id that is not its own.        *)
(***************************************************************************)
EXTENDS EvidenceFiles

Line(run, event) == [run_id |-> run, event_type |-> event]

Evaluated(run, route, size, status, at) ==
    [run_id |-> run, event_type |-> "candidate_evaluation", candidate_id |-> <<route, size>>,
     route |-> route, usd_size |-> size, status |-> status, observed_at |-> at]

Numbered(lines) ==
    [i \in DOMAIN lines |-> [record_sequence |-> i] @@ lines[i]]

Journal(lines) == [records |-> Numbered(lines), torn |-> FALSE]

\* The clock of the second run went backwards.
First == <<Line(1, "run_start"), Evaluated(1, "r1", 5, "economics_unresolved", 10),
           Evaluated(1, "r2", 5, "quote_rejected", 11), Line(1, "run_end")>>
Second == <<Line(2, "run_start"), Evaluated(2, "r1", 5, "quote_rejected", 9),
            Line(2, "route_rejection"), Line(2, "run_end")>>
Third == <<Line(3, "run_start"), Evaluated(3, "r1", 5, "economics_resolved_positive", 30),
           Evaluated(3, "r1", 9, "quote_rejected", 31), Evaluated(3, "r1", 5, "quote_rejected", 32),
           Line(3, "run_end")>>
CutOff == <<Line(4, "run_start"), Evaluated(4, "r1", 5, "quote_rejected", 40)>>
Misnamed == <<Line(5, "run_start"),
              [Evaluated(5, "r1", 5, "quote_rejected", 50) EXCEPT !.candidate_id = <<"r2", 5>>],
              Line(5, "run_end")>>

MCSources ==
    "first" :> Journal(First) @@ "second" :> Journal(Second) @@ "third" :> Journal(Third)
    @@ "cut off" :> Journal(CutOff) @@ "copy" :> Journal(First)
    @@ "torn" :> [Journal(Third) EXCEPT !.torn = TRUE]
    @@ "misnamed" :> Journal(Misnamed)

MCRouteEnd == [r \in {"r1", "r2"} |-> IF r = "r1" THEN 8 ELSE 9]

Waited(required, first, last, reached) ==
    [required_end_slot |-> required, initial_confirmed_tip |-> first, final_confirmed_tip |-> last,
     poll_attempts |-> 2, rpc_error_count |-> 1, maturity_reached |-> reached]

MCMaturities ==
    { Waited(9, {4}, {9}, TRUE), Waited(9, {4}, {8}, FALSE), Waited(9, {}, {}, FALSE),
      Waited(8, {4}, {8}, TRUE), Waited(8, {4}, {7}, TRUE), Waited(8, {4}, {7}, FALSE) }

Matched(signature, resolved) == [signature |-> signature, outcome_resolved |-> resolved]

MCAnalyses ==
    { [status |-> "search_incomplete", signatures |-> {"s1"}, matches |-> <<>>],
      [status |-> "no_atomic_match_complete", signatures |-> {}, matches |-> <<>>],
      [status |-> "atomic_route_amounts_unresolved", signatures |-> {"s1", "s2"},
       matches |-> <<Matched("s1", FALSE)>>],
      [status |-> "atomic_route_outcome_resolved", signatures |-> {"s1", "s2"},
       matches |-> <<Matched("s1", TRUE), Matched("s2", TRUE)>>] }
=============================================================================

--------------------------- MODULE SearchArtifact ---------------------------
(***************************************************************************)
(* The R13 artifact: what write_forensics_artifact puts into the file, in  *)
(* which order, and what validate_r13_jsonl reads back (forensics.rs).     *)
(* A plan has its candidates in order, each with the R12 record it comes   *)
(* from and its route, and its routes in the order of their ids.  An       *)
(* analysis is what the search found for a route.                          *)
(***************************************************************************)
EXTENDS Orderings, SequencesExt, FiniteSetsExt

CONSTANT Capacity   \* MAX_RECORDS_PER_RUN of forensics.rs, 512

ASSUME CapacityAssumption == Capacity \in Nat

RouteStatuses ==
    {"search_incomplete", "no_atomic_match_complete", "atomic_route_match",
     "atomic_route_amounts_unresolved", "atomic_route_outcome_resolved"}

CandidateStatuses == RouteStatuses \cup {"window_not_mature"}

\* {} is a tip that was never acquired.
MaturityHolds(m) ==
    /\ m.poll_attempts > 0 /\ m.rpc_error_count <= m.poll_attempts
    /\ m.maturity_reached <=> \E tip \in m.final_confirmed_tip : tip >= m.required_end_slot

\* EvidenceMaturity::validate_for_plan
ValidForPlan(plan, m) ==
    /\ m.required_end_slot = plan.required_end_slot
    /\ m.initial_confirmed_tip = {} => m.final_confirmed_tip = {}
    /\ MaturityHolds(m)

Record(event, payload) == [event_type |-> event, payload |-> payload]

RouteSearchResult(route, analysis) ==
    Record("route_search_result",
           [route |-> route, status |-> analysis.status,
            count |-> Cardinality(analysis.signatures), signatures |-> analysis.signatures])

TransactionMatches(route, analysis) ==
    [i \in DOMAIN analysis.matches |->
        Record("transaction_match",
               [route |-> route, signature |-> analysis.matches[i].signature,
                status |-> IF analysis.matches[i].outcome_resolved
                           THEN "atomic_route_outcome_resolved"
                           ELSE "atomic_route_amounts_unresolved"])]

Searched(plan, analyses) ==
    FlattenSeq([i \in DOMAIN plan.routes |->
        <<RouteSearchResult(plan.routes[i], analyses[plan.routes[i]])>>
            \o TransactionMatches(plan.routes[i], analyses[plan.routes[i]])])

\* Mutant: the candidate gets the status of the route that was searched last.
LastRoutesStatus(plan, m, analyses, candidate) ==
    IF m.maturity_reached THEN analyses[Last(plan.routes)].status ELSE "window_not_mature"

CaptureabilityStatus(plan, m, analyses, candidate) ==
    IF m.maturity_reached THEN analyses[candidate.route].status ELSE "window_not_mature"

Annotated(plan, m, analyses) ==
    [i \in DOMAIN plan.candidates |->
        Record("candidate_annotation",
               [source |-> plan.candidates[i].source, route |-> plan.candidates[i].route,
                status |-> CaptureabilityStatus(plan, m, analyses, plan.candidates[i])])]

WithStatus(plan, analyses, status) ==
    Cardinality({i \in DOMAIN plan.routes : analyses[plan.routes[i]].status = status})

MatchCount(plan, analyses) ==
    SumOf([i \in DOMAIN plan.routes |-> Len(analyses[plan.routes[i]].matches)])

RunEnd(plan, m, analyses) ==
    LET reached == m.maturity_reached
    IN  Record("forensics_run_end",
          [route_count |-> Len(plan.routes),
           route_search_result_count |-> IF reached THEN Len(plan.routes) ELSE 0,
           candidate_annotation_count |-> Len(plan.candidates),
           transaction_match_count |-> IF reached THEN MatchCount(plan, analyses) ELSE 0,
           status_counts |-> [s \in RouteStatuses |->
                                 IF reached THEN WithStatus(plan, analyses, s) ELSE 0],
           window_not_mature_candidate_count |-> IF reached THEN 0 ELSE Len(plan.candidates),
           maturity_reached |-> reached])

\* Everything a run writes, if there is room for it.
Script(plan, m, analyses) ==
    <<Record("forensics_run_start", [candidates |-> Len(plan.candidates)]),
      Record("maturity_result", m)>>
        \o (IF m.maturity_reached THEN Searched(plan, analyses) ELSE <<>>)
        \o Annotated(plan, m, analyses)
        \o <<RunEnd(plan, m, analyses)>>

\* The last record of a file is kept for its run_end.
HasRoom(file, record) ==
    /\ Len(file) < Capacity
    /\ record.event_type # "forensics_run_end" => Len(file) < Capacity - 1

-----------------------------------------------------------------------------
\* Reading back.

Of(file, event) == {i \in DOMAIN file : file[i].event_type = event}

Reached(file) == file[2].payload.maturity_reached

\* Mutant: a run_end is not asked for, only looked at.
EndsIfItEnds(file) == TRUE

EndsWhereItShould(file) == Of(file, "forensics_run_end") = {Len(file)}

\* A run_start, a maturity_result, results and annotations, a run_end.
Lifecycle(file) ==
    /\ Of(file, "forensics_run_start") = {1}
    /\ Of(file, "maturity_result") = {2}
    /\ EndsWhereItShould(file)
    /\ ~ Reached(file) =>
         Of(file, "route_search_result") \cup Of(file, "transaction_match") = {}

ResultsHold(file) ==
    /\ \A i \in Of(file, "route_search_result") :
          /\ file[i].payload.status \in RouteStatuses
          /\ Cardinality(file[i].payload.signatures) = file[i].payload.count
    /\ \A i \in Of(file, "transaction_match") :
          file[i].payload.status \in {"atomic_route_amounts_unresolved",
                                      "atomic_route_outcome_resolved"}

AnnotationsHold(file, candidates) ==
    LET annotations == Of(file, "candidate_annotation")
    IN  /\ \A i \in annotations :
              /\ file[i].payload.status \in CandidateStatuses
              /\ Reached(file) <=> file[i].payload.status # "window_not_mature"
        /\ \A i, j \in annotations :
              file[i].payload.source = file[j].payload.source => i = j
        /\ Cardinality(annotations) = candidates

CountsHold(file, candidates, routes) ==
    \A i \in Of(file, "forensics_run_end") :
        LET end == file[i].payload
            results == Of(file, "route_search_result")
        IN  /\ end.maturity_reached = Reached(file)
            /\ end.route_count = routes
            /\ end.route_search_result_count = Cardinality(results)
            /\ end.candidate_annotation_count = candidates
            /\ end.transaction_match_count = Cardinality(Of(file, "transaction_match"))
            /\ \A s \in RouteStatuses :
                  end.status_counts[s] = Cardinality({r \in results : file[r].payload.status = s})
            /\ end.window_not_mature_candidate_count =
                  IF Reached(file) THEN 0 ELSE Cardinality(Of(file, "candidate_annotation"))

\* `torn` says that the last line has no newline.  Sequence numbers, the run id
\* and the provenance are the writer's own counter and constants.
Validates(file, torn, candidates, routes) ==
    /\ file # <<>> /\ ~ torn
    /\ Len(file) >= 2
    /\ Lifecycle(file)
    /\ MaturityHolds(file[2].payload)
    /\ ResultsHold(file)
    /\ AnnotationsHold(file, candidates)
    /\ CountsHold(file, candidates, routes)
    /\ Reached(file) => Cardinality(Of(file, "route_search_result")) = routes
=============================================================================

-------------------------- MODULE TemporalEvidence --------------------------
(***************************************************************************)
(* Stage F: what three completed R12 journals say together about a         *)
(* candidate (temporal.rs).  A source is the journal at a path: its        *)
(* records, and whether its last line ends.  A candidate is a route and a  *)
(* size; a record carries both, and the id that was made of them.          *)
(***************************************************************************)
EXTENDS Orderings, SequencesExt, FiniteSetsExt

CONSTANT RequiredSourceRuns     \* REQUIRED_SOURCE_RUNS, 3

ASSUME SourceRunsAssumption == RequiredSourceRuns \in Nat \ {0}

EvaluationStatuses ==
    {"quote_rejected", "economics_unresolved", "economics_resolved_nonpositive",
     "economics_resolved_positive"}

EvaluatedAt(source) ==
    {i \in DOMAIN source.records : source.records[i].event_type = "candidate_evaluation"}

Evaluations(source) == Picked(source.records, EvaluatedAt(source))

\* Mutant: a journal that was cut off between two records will do.
StartsAndMayEnd(records) ==
    /\ \A i \in DOMAIN records : records[i].event_type = "run_start" <=> i = 1
    /\ \A i \in DOMAIN records : records[i].event_type = "run_end" => i = Len(records)

StartsAndEnds(records) ==
    /\ \A i \in DOMAIN records : records[i].event_type = "run_start" <=> i = 1
    /\ \A i \in DOMAIN records : records[i].event_type = "run_end" <=> i = Len(records)

\* parse_completed_r12_run
Completed(source) ==
    /\ source.records # <<>> /\ ~ source.torn
    /\ \A i \in DOMAIN source.records :
          /\ source.records[i].record_sequence = i
          /\ source.records[i].run_id = source.records[1].run_id
          /\ source.records[i].event_type \in
                {"run_start", "candidate_evaluation", "route_rejection", "run_end"}
    /\ StartsAndEnds(source.records)
    /\ Evaluations(source) # <<>>
    /\ \A i \in DOMAIN Evaluations(source) :
          LET r == Evaluations(source)[i] IN r.candidate_id = <<r.route, r.usd_size>>

RunId(source) == source.records[1].run_id

\* The candidates seen so far, each with its CandidateAccumulator.
Fresh(observed_at) ==
    [first_seen |-> observed_at, last_seen |-> observed_at, observation_count |-> 0,
     source_run_ids |-> {}, status_counts |-> [s \in EvaluationStatuses |-> 0]]

Observe(state, run_id, r) ==
    [first_seen |-> IF r.observed_at < state.first_seen THEN r.observed_at ELSE state.first_seen,
     last_seen |-> IF r.observed_at > state.last_seen THEN r.observed_at ELSE state.last_seen,
     observation_count |-> state.observation_count + 1,
     source_run_ids |-> state.source_run_ids \cup {run_id},
     status_counts |-> [state.status_counts EXCEPT ![r.status] = @ + 1]]

Accumulate(candidates, r) ==
    LET id == r.candidate_id
        state == IF id \in DOMAIN candidates THEN candidates[id] ELSE Fresh(r.observed_at)
    IN  [c \in DOMAIN candidates \cup {id} |->
            IF c = id THEN Observe(state, r.run_id, r) ELSE candidates[c]]

\* What is known of the candidates after all of these records.
Accumulated(all) ==
    LET known[n \in 0 .. Len(all)] ==
            IF n = 0 THEN << >> ELSE Accumulate(known[n - 1], all[n])
    IN  known[Len(all)]

\* The paths by their run ids.
Sorted(paths, disk) ==
    LET order == Ranked(DOMAIN paths, [i \in DOMAIN paths |-> RunId(disk[paths[i]])])
    IN  [k \in DOMAIN paths |-> paths[order[k]]]

\* aggregate_r12_runs: {} is an Err.
Aggregate(paths, disk) ==
    LET runs == Sorted(paths, disk)
        all == FlattenSeq([i \in DOMAIN runs |-> Evaluations(disk[runs[i]])])
    IN  IF /\ Len(paths) = RequiredSourceRuns
           /\ \A i \in DOMAIN paths : Completed(disk[paths[i]])
           /\ \A i, j \in DOMAIN paths :
                 RunId(disk[paths[i]]) = RunId(disk[paths[j]]) => i = j
           /\ \A i \in DOMAIN all : all[i].status \in EvaluationStatuses
        THEN {[source_paths |-> runs,
               source_run_ids |-> [i \in DOMAIN runs |-> RunId(disk[runs[i]])],
               candidates |-> Accumulated(all)]}
        ELSE {}

-----------------------------------------------------------------------------
\* validate_candidate_value
RowHolds(row) ==
    /\ row.observation_count > 0
    /\ Cardinality(row.source_run_ids) \in 1 .. row.observation_count
    /\ row.last_seen >= row.first_seen
    /\ MapThenSumSet(LAMBDA s : row.status_counts[s], EvaluationStatuses) = row.observation_count

\* validate_evidence_file; a document that was cut off is not JSON, or its last
\* line has no newline.
EvidenceValidates(document, torn) ==
    /\ ~ torn
    /\ Len(document.source_run_ids) = RequiredSourceRuns
    /\ IsInjective(document.source_run_ids)
    /\ DOMAIN document.candidates # {}
    /\ \A c \in DOMAIN document.candidates : RowHolds(document.candidates[c])
=============================================================================

---------------------------- MODULE EvidenceFiles ----------------------------
(***************************************************************************)
(* The two readers of completed R12 journals and the files they leave: the *)
(* search of scout-cli, which writes an artifact for one journal record by *)
(* record, and stage-f-temporal, which replaces its one document by what   *)
(* three journals say.  Either may be killed while it writes.              *)
(***************************************************************************)
EXTENDS SearchArtifact, TemporalEvidence

CONSTANTS
    Sources,    \* Sources[path]: the R12 journals there are
    RouteEnd,    \* RouteEnd[r]: the last slot in which route r is searched
    Maturities, \* what the wait for the window may bring
    Analyses    \* what the search may find for a route

\* A journal is a sequence of records, each of them of a run; times are numbers.
ASSUME SourcesAssumption ==
    \A path \in DOMAIN Sources :
        /\ Sources[path].records \in Seq(ToSet(Sources[path].records))
        /\ \A r \in ToSet(Sources[path].records) :
              /\ r.run_id \in Int
              /\ r.event_type = "candidate_evaluation" => r.observed_at \in Int

ASSUME AnalysesAssumption ==
    \A a \in Analyses : a.status \in RouteStatuses /\ a.matches \in Seq(ToSet(a.matches))

VARIABLES
    stage,      \* of the search: planned, writing, ok, rejected, err or crashed
    plan, maturity, analyses,
    artifact,   \* the records in its file
    torn,       \* whether the last line of that file has no newline
    evidence    \* {}, or the document of Stage F and whether it was cut off

search == <<stage, plan, maturity, analyses, artifact, torn>>
filesVars == <<search, evidence>>

\* load_plan: a completed journal's candidates and their routes.
PlanOf(source) ==
    LET records == source.records
        found == EvaluatedAt(source)
        routes == {records[i].route : i \in found}
    IN  IF records # <<>> /\ ~ source.torn /\ StartsAndEnds(records) /\ found # {}
        THEN {[candidates |-> [k \in 1 .. Cardinality(found) |->
                    LET i == Ranked(found, [j \in found |-> j])[k]
                    IN  [source |-> <<records[i].run_id, i>>, route |-> records[i].route]],
               routes |-> SetToSeq(routes),
               required_end_slot |-> Max({RouteEnd[r] : r \in routes})]}
        ELSE {}

FilesInit ==
    /\ stage = "planned"
    /\ plan \in UNION {PlanOf(Sources[path]) : path \in DOMAIN Sources}
    /\ maturity \in Maturities
    /\ analyses \in [ToSet(plan.routes) -> Analyses]
    /\ artifact = <<>> /\ torn = FALSE
    /\ evidence = {}

\* create_new: the file of another run is never written to.
Create ==
    /\ stage = "planned"
    /\ stage' = IF ValidForPlan(plan, maturity) THEN "writing" ELSE "err"
    /\ UNCHANGED <<plan, maturity, analyses, artifact, torn, evidence>>

Whole == Script(plan, maturity, analyses)

WriteEvent ==
    /\ stage = "writing" /\ Len(artifact) < Len(Whole)
    /\ LET record == Whole[Len(artifact) + 1]
       IN  IF HasRoom(artifact, record)
           THEN artifact' = Append(artifact, record) /\ UNCHANGED stage
           ELSE stage' = "err" /\ UNCHANGED artifact
    /\ UNCHANGED <<plan, maturity, analyses, torn, evidence>>

\* Flushed, synced and read back.
Finish ==
    /\ stage = "writing" /\ Len(artifact) = Len(Whole)
    /\ stage' = IF Validates(artifact, torn, Len(plan.candidates), Len(plan.routes))
                THEN "ok" ELSE "rejected"
    /\ UNCHANGED <<plan, maturity, analyses, artifact, torn, evidence>>

\* Every record is flushed, the next may be there in part.
Crash ==
    /\ stage = "writing"
    /\ stage' = "crashed"
    /\ torn' \in BOOLEAN
    /\ UNCHANGED <<plan, maturity, analyses, artifact, evidence>>

\* fs::write: in place of what was there, all of it or cut off.
WriteEvidence ==
    /\ stage = "planned"
    /\ \E paths \in [1 .. RequiredSourceRuns -> DOMAIN Sources], cut \in BOOLEAN :
          \E document \in Aggregate(paths, Sources) :
              evidence' = {[document |-> document, torn |-> cut]}
    /\ UNCHANGED search

FilesNext == Create \/ WriteEvent \/ Finish \/ Crash \/ WriteEvidence

FilesSpec == FilesInit /\ [][FilesNext]_filesVars

-----------------------------------------------------------------------------
Replays == Validates(artifact, torn, Len(plan.candidates), Len(plan.routes))

\* A file that validate_r13_jsonl accepts is a whole one, whenever the writer
\* was stopped: by a crash, inside of a line or between two, or by the 512
\* records, of which the last is kept for a run_end that is then not written.
OnlyWholeArtifactsValidate ==
    Replays => Len(artifact) = Len(Whole) /\ stage \in {"writing", "crashed", "ok"}

\* What the writer finishes it also accepts, and the file answers for every
\* candidate once, with what the search found for its own route, and for every
\* route once, with each of its matches.
FinishedArtifactsAnswer ==
    /\ stage # "rejected"
    /\ stage = "ok" =>
         /\ \A c \in ToSet(plan.candidates) :
               \E i \in DOMAIN artifact :
                   /\ {j \in Of(artifact, "candidate_annotation") :
                          artifact[j].payload.source = c.source} = {i}
                   /\ artifact[i].payload.status =
                          IF maturity.maturity_reached THEN analyses[c.route].status
                          ELSE "window_not_mature"
         /\ \A r \in DOMAIN analyses :
               LET of(event) == {artifact[i].payload : i \in
                       {j \in Of(artifact, event) : artifact[j].payload.route = r}}
               IN  IF maturity.maturity_reached
                   THEN /\ {p.status : p \in of("route_search_result")} = {analyses[r].status}
                        /\ {p.signature : p \in of("transaction_match")}
                             = {m.signature : m \in ToSet(analyses[r].matches)}
                   ELSE of("route_search_result") \cup of("transaction_match") = {}

\* Where a candidate was evaluated in the journals of a document.
Seen(document, id) ==
    UNION {{<<path, i>> : i \in {j \in DOMAIN Sources[path].records :
                /\ Sources[path].records[j].event_type = "candidate_evaluation"
                /\ Sources[path].records[j].candidate_id = id}} :
           path \in ToSet(document.source_paths)}

RecordAt(where) == Sources[where[1]].records[where[2]]

\* A document that Stage F accepts is of three different runs that ended, and
\* what it says of a candidate is what their records say, each counted once, in
\* whatever order the journals were given.
TemporalEvidenceIsExact ==
    \A e \in evidence : EvidenceValidates(e.document, e.torn) =>
        LET d == e.document
            journals == {Sources[path] : path \in ToSet(d.source_paths)}
        IN  /\ Cardinality({j.records[1].run_id : j \in journals}) = RequiredSourceRuns
            /\ \A j \in journals : ~ j.torn /\ Last(j.records).event_type = "run_end"
            /\ \A i, k \in DOMAIN d.source_run_ids :
                  i < k => d.source_run_ids[i] < d.source_run_ids[k]
            /\ DOMAIN d.candidates = {r.candidate_id : r \in
                  UNION {ToSet(Evaluations(j)) : j \in journals}}
            /\ \A id \in DOMAIN d.candidates :
                  LET row == d.candidates[id]
                      seen == Seen(d, id)
                  IN  /\ row.observation_count = Cardinality(seen)
                      /\ row.first_seen = Min({RecordAt(w).observed_at : w \in seen})
                      /\ row.last_seen = Max({RecordAt(w).observed_at : w \in seen})
                      /\ row.source_run_ids = {RecordAt(w).run_id : w \in seen}
                      /\ \A s \in EvaluationStatuses :
                            row.status_counts[s] =
                              Cardinality({w \in seen : RecordAt(w).status = s})
=============================================================================

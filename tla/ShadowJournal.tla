---------------------------- MODULE ShadowJournal ----------------------------
(***************************************************************************)
(* The R12 journal of one run: main.rs quotes every route at every size,   *)
(* prices the quotes it got, and recorder.rs appends one JSON line per     *)
(* outcome to a file nobody else writes.  The file is read back by the     *)
(* recorder itself (validate_jsonl_replay), by the forensics that follow   *)
(* in the same run (load_plan), and in a later process by the Stage F      *)
(* aggregation (parse_completed_r12_run), which gets the file even if the  *)
(* run failed or was killed.                                               *)
(*                                                                         *)
(* A line is a record of what the readers look at.  What they only check   *)
(* the shape of (mints, fees, cost components, provenance) is left out.    *)
(***************************************************************************)
EXTENDS Integers, Sequences, FiniteSets

CONSTANTS
    Routes,         \* how many routes generate_two_leg_routes returned
    Sizes,          \* how many sizes USD_SIZE_GRID has
    Capacity,       \* MAX_RECORDS_PER_RUN
    MaxTime,        \* bound on what the wall clock shows
    Monotonic,      \* whether the wall clock never steps back during the run
    Outcomes        \* bound on what the evaluation of a funding mode comes to

ASSUME GridAssumption == Routes \in Nat \ {0} /\ Sizes \in Nat \ {0}

ASSUME CapacityAssumption == Capacity \in Nat /\ Capacity >= 2

ASSUME ClockAssumption == MaxTime \in Nat /\ Monotonic \in BOOLEAN

ASSUME OutcomesAssumption == Outcomes \subseteq {"nonpositive", "positive", "error"}

VARIABLES
    phase,          \* where main is, or how it ended
    file,           \* the complete lines of the journal
    torn,           \* the journal goes on with part of a line
    clock,          \* what the wall clock showed last
    found,          \* when the routes were found
    at,             \* the route and the size the quoting loop is at
    quoted,         \* quotes waiting to be priced
    lifecycle,      \* what the recorder has seen of each candidate
    evidence        \* the recorder's count of evidence records

vars == <<phase, file, torn, clock, found, at, quoted, lifecycle, evidence>>

Phases == {"starting", "quoting", "pricing", "sealed", "completed", "planned", "failed"}

Times == 0 .. MaxTime

None == -1                                  \* JSON null, which no u64 is

Candidates == [route : 1 .. Routes, size : 1 .. Sizes]

(***************************************************************************)
(* The lines of the journal                                                *)
(***************************************************************************)
Resolved == {"nonpositive", "positive"}     \* Ok(ExpectedNetEconomics)

Modes == Resolved \cup {"error", "none"}    \* Option<Result<..>> of a funding mode

Statuses == {"quote_rejected", "economics_unresolved",
             "economics_resolved_nonpositive", "economics_resolved_positive"}

Timing ==
    [found : Times, quoted : Times \cup {None},
     priced : Times \cup {None}, ready : Times \cup {None}]

\* first, last: the first and the last time the candidate was recorded.
LifecycleState == [first : Times, last : Times, count : Nat]

Lines ==
    [event : {"run_start"}, sequence : Nat]
    \cup [event : {"route_rejection"}, sequence : Nat, route : 1 .. Routes]
    \cup [event : {"candidate_evaluation"}, sequence : Nat, candidate : Candidates,
          status : Statuses, treasury : Modes, flash : Modes,
          timing : Timing, lifecycle : LifecycleState]
    \cup [event : {"run_end"}, sequence : Nat, evidence : Nat]

IsEvaluation(line) == line.event = "candidate_evaluation"

IsEvidence(line) == line.event \in {"candidate_evaluation", "route_rejection"}

\* Whether a line says what became of a candidate.
IsAbout(line, c) ==
    \/ IsEvaluation(line) /\ line.candidate = c
    \/ line.event = "route_rejection" /\ line.route = c.route

Sealed(f) == \E i \in DOMAIN f : f[i].event = "run_end"

(***************************************************************************)
(* The readers                                                             *)
(***************************************************************************)
Ordered(timing) ==
    /\ timing.quoted # None /\ timing.priced # None
    /\ timing.found <= timing.quoted
    /\ timing.quoted <= timing.priced

\* validate_status_against_modes
StatusFollows(line) ==
    line.status =
        IF ~ {line.treasury, line.flash} \subseteq Resolved THEN "economics_unresolved"
        ELSE IF "positive" \in {line.treasury, line.flash} THEN "economics_resolved_positive"
        ELSE "economics_resolved_nonpositive"

ReadyFollows(line) ==
    IF line.status = "economics_resolved_positive"
    THEN line.timing.ready # None /\ line.timing.priced <= line.timing.ready
    ELSE line.timing.ready = None

\* The lifecycle a line states is the one its candidate's lines so far add up to.
LifecycleFollows(f, i) ==
    LET state == f[i].lifecycle
        sofar == {j \in 1 .. i : IsEvaluation(f[j]) /\ f[j].candidate = f[i].candidate}
    IN  /\ state.first <= state.last
        /\ \A j \in sofar : /\ state.first <= f[j].lifecycle.first
                            /\ f[j].lifecycle.last <= state.last
        /\ state.count = Cardinality(sofar)

\* A line's status, its funding modes and its times fit together.
ContentsFollow(line) ==
    IF line.status = "quote_rejected"
    THEN line.timing.priced = None /\ line.timing.ready = None
    ELSE Ordered(line.timing) /\ StatusFollows(line) /\ ReadyFollows(line)

\* validate_candidate_payload
ValidEvaluation(f, i) == LifecycleFollows(f, i) /\ ContentsFollow(f[i])

\* What all three readers require: whole lines, numbered from 1, with one
\* run_end, and that last.
WholeAndSealed(f, isTorn) ==
    /\ ~ isTorn
    /\ f # <<>>
    /\ \A i \in DOMAIN f : /\ f[i].sequence = i
                           /\ f[i].event = "run_start" => i = 1
                           /\ f[i].event = "run_end" <=> i = Len(f)

\* validate_jsonl_replay, which does not ask for a run_start.
Replays(f, isTorn) ==
    /\ WholeAndSealed(f, isTorn)
    /\ \A i \in DOMAIN f : IsEvaluation(f[i]) => ValidEvaluation(f, i)
    /\ LET evidenceLines == {i \in DOMAIN f : IsEvidence(f[i])}
       IN  evidenceLines # {} /\ f[Len(f)].evidence = Cardinality(evidenceLines)

\* What the other two ask for beyond that, which look at no line's contents.
FromStartWithCandidates(f) ==
    f[1].event = "run_start" /\ \E i \in DOMAIN f : IsEvaluation(f[i])

\* forensics::load_plan
Loads(f, isTorn) == WholeAndSealed(f, isTorn) /\ FromStartWithCandidates(f)

\* The Stage F workflow, which only looks for a run_end, and then
\* temporal::parse_completed_r12_run.
StageFAccepts(f, isTorn) ==
    Sealed(f) /\ WholeAndSealed(f, isTorn) /\ FromStartWithCandidates(f)

-----------------------------------------------------------------------------
(***************************************************************************)
(* Writing                                                                 *)
(***************************************************************************)
Init ==
    /\ phase = "starting"
    /\ file = <<>>
    /\ torn = FALSE
    /\ clock \in Times
    /\ found = None
    /\ at = [route |-> 1, size |-> 1]
    /\ quoted = <<>>
    /\ lifecycle = [c \in Candidates |-> [first |-> 0, last |-> 0, count |-> 0]]
    /\ evidence = 0

\* t is what unix_time_ms_now may return after it returned s.
Follows(s, t) == Monotonic => s <= t

\* Mutant: evidence may take the last place too.
HasRoomUnreserved(line) == Len(file) < Capacity

\* write_event keeps the last place of the journal for run_end.
HasRoom(line) ==
    /\ Len(file) < Capacity
    /\ line.event # "run_end" => Len(file) < Capacity - 1

\* Mutant: without room the line is dropped and the run goes on.
WriteEventOrDrop(line, next) ==
    IF HasRoom(line)
    THEN \/ file' = Append(file, line) /\ torn' = FALSE /\ phase' \in {next, "failed"}
         \/ file' = file /\ torn' = TRUE /\ phase' = "failed"
    ELSE file' = file /\ torn' = FALSE /\ phase' = next

\* write_event.  A line that could not be written, or was being written when
\* the run was killed, is in the file whole, in part or not at all; main gives
\* up, and what it holds in memory no longer matters.
WriteEvent(line, next) ==
    /\ HasRoom(line)
    /\ \/ file' = Append(file, line) /\ torn' = FALSE /\ phase' \in {next, "failed"}
       \/ file' = file /\ torn' = TRUE /\ phase' = "failed"

Start ==
    /\ phase = "starting"
    /\ \E foundAt, t \in Times :
          /\ Follows(clock, foundAt) /\ Follows(foundAt, t)
          /\ found' = foundAt
          /\ clock' = t
    /\ WriteEvent([event |-> "run_start", sequence |-> Len(file) + 1], "quoting")
    /\ UNCHANGED <<at, quoted, lifecycle, evidence>>

\* Mutant: the grid has one size too many.
NextSizeTooFar == IF at.size <= Sizes THEN [at EXCEPT !.size = @ + 1]
                                      ELSE [route |-> at.route + 1, size |-> 1]

\* The quoting loop's next size, or the next route's first.
NextSize == IF at.size < Sizes THEN [at EXCEPT !.size = @ + 1]
                               ELSE [route |-> at.route + 1, size |-> 1]

InQuoting == phase = "quoting" /\ at.route <= Routes

\* Mutant: without the continue, the sizes of a rejected route are quoted too.
RejectRouteAndQuoteIt ==
    /\ InQuoting
    /\ at.size = 1
    /\ clock' \in {t \in Times : Follows(clock, t)}
    /\ WriteEvent([event |-> "route_rejection", sequence |-> Len(file) + 1,
                   route |-> at.route], "quoting")
    /\ at' = at
    /\ evidence' = evidence + 1
    /\ UNCHANGED <<found, quoted, lifecycle>>

\* The decimals of the anchor mint are unknown: the route is passed over.
RejectRoute ==
    /\ InQuoting
    /\ at.size = 1
    /\ clock' \in {t \in Times : Follows(clock, t)}
    /\ WriteEvent([event |-> "route_rejection", sequence |-> Len(file) + 1,
                   route |-> at.route], "quoting")
    /\ at' = [route |-> at.route + 1, size |-> 1]
    /\ evidence' = evidence + 1
    /\ UNCHANGED <<found, quoted, lifecycle>>

\* observe_candidate and LifecycleState::observe
Observe(state, t) ==
    IF state.count = 0
    THEN [first |-> t, last |-> t, count |-> 1]
    ELSE [first |-> IF t < state.first THEN t ELSE state.first,
          last |-> IF state.last < t THEN t ELSE state.last,
          count |-> state.count + 1]

WriteEvaluation(c, status, treasury, flash, timing, t, next) ==
    /\ clock' = t
    /\ lifecycle' = [lifecycle EXCEPT ![c] = Observe(@, t)]
    /\ WriteEvent([event |-> "candidate_evaluation", sequence |-> Len(file) + 1,
                   candidate |-> c, status |-> status,
                   treasury |-> treasury, flash |-> flash,
                   timing |-> timing, lifecycle |-> Observe(lifecycle[c], t)], next)
    /\ evidence' = evidence + 1

\* The size cannot be converted, or a venue gives no quote for it.
RejectQuote ==
    /\ InQuoting
    /\ \E t \in Times :
          /\ Follows(clock, t)
          /\ WriteEvaluation(at, "quote_rejected", "none", "none",
                             [found |-> found, quoted |-> None,
                              priced |-> None, ready |-> None], t, "quoting")
    /\ at' = NextSize
    /\ UNCHANGED <<found, quoted>>

Quote ==
    /\ InQuoting
    /\ \E t \in Times :
          /\ Follows(clock, t)
          /\ clock' = t
          /\ quoted' = Append(quoted, [candidate |-> at, time |-> t])
    /\ at' = NextSize
    /\ UNCHANGED <<phase, file, torn, found, lifecycle, evidence>>

\* Some route was quoted at every size.
GridComplete ==
    \E r \in 1 .. Routes : \A s \in 1 .. Sizes :
        \E i \in DOMAIN quoted : quoted[i].candidate = [route |-> r, size |-> s]

\* Mutant: any evidence will do to go on to pricing.
EndQuotingAnyGrid ==
    /\ phase = "quoting"
    /\ at.route > Routes
    /\ phase' = "pricing"
    /\ UNCHANGED <<file, torn, clock, found, at, quoted, lifecycle, evidence>>

EndQuoting ==
    /\ phase = "quoting"
    /\ at.route > Routes
    /\ phase' = IF GridComplete THEN "pricing" ELSE "failed"
    /\ UNCHANGED <<file, torn, clock, found, at, quoted, lifecycle, evidence>>

\* Mutant: one resolved funding mode is enough.
ClassifyOneMode(treasury, flash) ==
    IF treasury = "positive" \/ flash = "positive" THEN "economics_resolved_positive"
    ELSE IF treasury \in Resolved \/ flash \in Resolved THEN "economics_resolved_nonpositive"
    ELSE "economics_unresolved"

\* classify_economics_status
Classify(treasury, flash) ==
    IF treasury \in Resolved /\ flash \in Resolved
    THEN IF treasury = "positive" \/ flash = "positive"
         THEN "economics_resolved_positive"
         ELSE "economics_resolved_nonpositive"
    ELSE "economics_unresolved"

\* main takes the ready time of a candidate that pays in either mode.
Pays(treasury, flash) == {treasury, flash} \subseteq Resolved /\ "positive" \in {treasury, flash}

\* Without a cost model neither funding mode is evaluated.
Evaluations == (Outcomes \X Outcomes) \cup {<<"none", "none">>}

Price ==
    /\ phase = "pricing"
    /\ quoted # <<>>
    /\ \E outcome \in Evaluations, priced, ready, t \in Times :
          /\ Follows(clock, priced)
          /\ Follows(priced, ready)
          /\ Follows(ready, t)
          /\ ~ Pays(outcome[1], outcome[2]) => ready = priced
          /\ WriteEvaluation(Head(quoted).candidate, Classify(outcome[1], outcome[2]),
                             outcome[1], outcome[2],
                             [found |-> found, quoted |-> Head(quoted).time, priced |-> priced,
                              ready |-> IF Pays(outcome[1], outcome[2]) THEN ready ELSE None],
                             t, "pricing")
    /\ quoted' = Tail(quoted)
    /\ UNCHANGED <<found, at>>

\* Mutant: the journal is sealed before all quotes are priced.
SealEarly ==
    /\ phase = "pricing"
    /\ evidence > 0
    /\ clock' \in {t \in Times : Follows(clock, t)}
    /\ WriteEvent([event |-> "run_end", sequence |-> Len(file) + 1,
                   evidence |-> evidence], "sealed")
    /\ UNCHANGED <<found, at, quoted, lifecycle, evidence>>

\* finish, up to the flush of run_end.
Seal ==
    /\ phase = "pricing"
    /\ quoted = <<>>
    /\ evidence > 0
    /\ clock' \in {t \in Times : Follows(clock, t)}
    /\ WriteEvent([event |-> "run_end", sequence |-> Len(file) + 1,
                   evidence |-> evidence], "sealed")
    /\ UNCHANGED <<found, at, quoted, lifecycle, evidence>>

\* The rest of finish, and main's own replay of the journal.
Replay ==
    /\ phase = "sealed"
    /\ phase' = IF Replays(file, torn) THEN "completed" ELSE "failed"
    /\ UNCHANGED <<file, torn, clock, found, at, quoted, lifecycle, evidence>>

LoadPlan ==
    /\ phase = "completed"
    /\ phase' = IF Loads(file, torn) THEN "planned" ELSE "failed"
    /\ UNCHANGED <<file, torn, clock, found, at, quoted, lifecycle, evidence>>

\* The run is killed between two writes (the workflows' timeout), or gives up:
\* the journal has no room, the clock cannot be read, the file not synced.
Fail ==
    /\ phase \notin {"planned", "failed"}
    /\ phase' = "failed"
    /\ UNCHANGED <<file, torn, clock, found, at, quoted, lifecycle, evidence>>

Next ==
    \/ Start
    \/ RejectRoute \/ RejectQuote \/ Quote \/ EndQuoting
    \/ Price
    \/ Seal \/ Replay \/ LoadPlan
    \/ Fail

Spec == Init /\ [][Next]_vars

-----------------------------------------------------------------------------
(***************************************************************************)
(* Properties                                                              *)
(***************************************************************************)
TypeOK ==
    /\ phase \in Phases
    /\ file \in Seq(Lines)
    /\ torn \in BOOLEAN
    /\ clock \in Times
    /\ found \in Times \cup {None}
    /\ at \in [route : 1 .. Routes + 1, size : 1 .. Sizes]
    /\ quoted \in Seq([candidate : Candidates, time : Times])
    /\ lifecycle \in [Candidates -> LifecycleState]
    /\ evidence \in Nat

LinesAbout(c) == {i \in DOMAIN file : IsAbout(file[i], c)}

\* Whatever moment the run failed or was killed at, a reader accepts its
\* journal only if that accounts for every candidate of the run, and for each
\* one once: a partial journal never passes for a whole one.
AcceptedJournalsAreWhole ==
    \/ Replays(file, torn)
    \/ Loads(file, torn)
    \/ StageFAccepts(file, torn)
    => \A c \in Candidates : Cardinality(LinesAbout(c)) = 1

\* The readers agree on sealed journals: once the run_end line is whole, the
\* recorder's replay accepts what the recorder wrote, so that the run does not
\* fail after its work is done, and Stage F, which does not replay the journal,
\* accepts nothing the replay would not.  Needs a clock that does not step back.
SealedJournalsReplay == Sealed(file) => Replays(file, torn)

\* A journal the recorder completes always has a candidate to investigate, so
\* that the forensics of the same run and Stage F can read it, whatever mix of
\* route and quote rejections it holds and whatever the clock did.
CompletedJournalsLoad ==
    phase \in {"completed", "planned"} => Loads(file, torn) /\ StageFAccepts(file, torn)

\* Evidence never takes the place write_event keeps for run_end: a run that has
\* priced all its quotes can always seal its journal.
RoomToSeal == phase = "pricing" /\ quoted = <<>> => Len(file) < Capacity /\ evidence > 0

-----------------------------------------------------------------------------
(***************************************************************************)
(* The inductive invariant                                                 *)
(***************************************************************************)
InProgress == phase \in {"starting", "quoting", "pricing"}

LinesAreNumbered ==
    \A i \in DOMAIN file : file[i].sequence = i /\ (file[i].event = "run_start" <=> i = 1)

Recorded(c) == \E i \in DOMAIN file : IsAbout(file[i], c)

AtMostOneLineEach ==
    \A c \in Candidates : \A i, j \in DOMAIN file :
        IsAbout(file[i], c) /\ IsAbout(file[j], c) => i = j

HasEvaluation == \E i \in DOMAIN file : IsEvaluation(file[i])

\* run_end comes last, after everything there was to say.
SealSumsUp ==
    \A i \in DOMAIN file : file[i].event = "run_end" =>
        /\ i = Len(file)
        /\ file[i].evidence = Len(file) - 2
        /\ HasEvaluation
        /\ \A c \in Candidates : Recorded(c)

\* A candidate has one line, so the lifecycle on it is that of a first sight.
EvaluationsAreSound ==
    \A i \in DOMAIN file : IsEvaluation(file[i]) =>
        /\ file[i].lifecycle.count = 1
        /\ file[i].lifecycle.first = file[i].lifecycle.last
        /\ Monotonic => ContentsFollow(file[i])

\* The quoting loop has been past c.
Visited(c) == c.route < at.route \/ (c.route = at.route /\ c.size < at.size)

Waiting(c) == \E k \in DOMAIN quoted : quoted[k].candidate = c

\* Every candidate the quoting loop has been past waits to be priced or has its
\* line, and not both.
NoneLost ==
    InProgress =>
        /\ \A c \in Candidates :
              /\ Visited(c) <=> (Waiting(c) \/ Recorded(c))
              /\ ~ (Waiting(c) /\ Recorded(c))
              /\ ~ Recorded(c) => lifecycle[c].count = 0
        /\ \A k, l \in DOMAIN quoted : quoted[k].candidate = quoted[l].candidate => k = l

WritingIsSteady ==
    InProgress =>
        /\ ~ torn
        /\ ~ Sealed(file)
        /\ Len(file) < Capacity
        /\ IF phase = "starting"
           THEN file = <<>> /\ quoted = <<>> /\ evidence = 0 /\ at = [route |-> 1, size |-> 1]
           ELSE file # <<>> /\ evidence = Len(file) - 1 /\ found # None
        /\ phase = "pricing" => at.route > Routes /\ (quoted # <<>> \/ HasEvaluation)

QuotesAreTimely ==
    Monotonic /\ phase \in {"quoting", "pricing"} =>
        /\ found <= clock
        /\ \A k \in DOMAIN quoted : found <= quoted[k].time /\ quoted[k].time <= clock

DoneIsSealed ==
    /\ phase \in {"sealed", "completed", "planned"} => Sealed(file)
    /\ Sealed(file) => ~ torn

Inductive ==
    /\ TypeOK
    /\ LinesAreNumbered
    /\ AtMostOneLineEach
    /\ SealSumsUp
    /\ EvaluationsAreSound
    /\ NoneLost
    /\ WritingIsSteady
    /\ QuotesAreTimely
    /\ DoneIsSealed

=============================================================================

------------------------ MODULE ShadowJournal_proofs ------------------------
(***************************************************************************)
(* The journal's properties hold for every grid of routes and sizes, every *)
(* capacity and every clock.                                               *)
(***************************************************************************)
EXTENDS ShadowJournal, FiniteSetTheorems, TLAPS

USE GridAssumption, CapacityAssumption, ClockAssumption

FileFacts == LinesAreNumbered /\ AtMostOneLineEach /\ SealSumsUp /\ EvaluationsAreSound

\* Nothing is written yet.
LEMMA InitInductive == Init => Inductive
<1> SUFFICES ASSUME Init PROVE Inductive
    OBVIOUS
<1> USE DEF Init
<1>1. TypeOK
    <2>1. 0 \in Times /\ 1 \in 1 .. Routes + 1 /\ 1 \in 1 .. Sizes
        BY DEF Times
    <2>2. [first |-> 0, last |-> 0, count |-> 0] \in LifecycleState
        BY <2>1 DEF LifecycleState
    <2>3. lifecycle \in [Candidates -> LifecycleState]
        BY <2>2
    <2>4. file \in Seq(Lines)
        OBVIOUS
    <2>5. quoted \in Seq([candidate : Candidates, time : Times])
        OBVIOUS
    <2>6. at \in [route : 1 .. Routes + 1, size : 1 .. Sizes]
        BY <2>1
    <2>7. phase \in Phases /\ torn \in BOOLEAN /\ found \in Times \cup {None} /\ evidence \in Nat
        BY DEF Phases
    <2> QED
        BY <2>3, <2>4, <2>5, <2>6, <2>7 DEF TypeOK
<1>2. LinesAreNumbered /\ AtMostOneLineEach /\ SealSumsUp /\ EvaluationsAreSound /\ DoneIsSealed
    BY DEF LinesAreNumbered, AtMostOneLineEach, SealSumsUp, EvaluationsAreSound, DoneIsSealed
<1>3. NoneLost
    BY DEF NoneLost, Visited, Waiting, Recorded, Candidates
<1>4. WritingIsSteady /\ QuotesAreTimely
    BY DEF WritingIsSteady, QuotesAreTimely, Sealed
<1> QED
    BY <1>1, <1>2, <1>3, <1>4 DEF Inductive

\* What appending a line leaves in place.
LEMMA AppendedLine ==
    ASSUME file \in Seq(Lines), NEW line \in Lines, file' = Append(file, line)
    PROVE  /\ file' \in Seq(Lines)
           /\ Len(file') = Len(file) + 1
           /\ DOMAIN file = 1 .. Len(file)
           /\ DOMAIN file' = 1 .. Len(file) + 1
           /\ \A i \in DOMAIN file : file'[i] = file[i]
           /\ file'[Len(file) + 1] = line
OBVIOUS

\* The two lines that are not evidence are about no candidate.
LEMMA AboutEvidence ==
    ASSUME NEW line \in Lines, NEW c \in Candidates, IsAbout(line, c)
    PROVE  IsEvidence(line) /\ line.event # "run_end" /\ line.event # "run_start"
BY DEF IsAbout, IsEvidence, IsEvaluation

\* The files' part of the invariant reads nothing but the file.
LEMMA SameFile ==
    ASSUME FileFacts, file' = file
    PROVE  FileFacts' /\ (HasEvaluation' <=> HasEvaluation) /\ (Sealed(file)' <=> Sealed(file))
           /\ \A c \in Candidates : Recorded(c)' <=> Recorded(c)
BY DEF FileFacts, LinesAreNumbered, AtMostOneLineEach, SealSumsUp, EvaluationsAreSound,
       HasEvaluation, Recorded, Sealed

\* Evidence about candidates the journal did not yet have keeps its order, its
\* uniqueness and the room for run_end, and adds just those candidates to it.
LEMMA EvidenceWritten ==
    ASSUME Inductive, phase \in {"quoting", "pricing"},
           NEW line \in Lines, IsEvidence(line), line.sequence = Len(file) + 1,
           \A c \in Candidates : IsAbout(line, c) => ~ Recorded(c),
           IsEvaluation(line) => /\ line.lifecycle.count = 1
                                 /\ line.lifecycle.first = line.lifecycle.last
                                 /\ Monotonic => ContentsFollow(line),
           WriteEvent(line, phase)
    PROVE  /\ FileFacts' /\ DoneIsSealed'
           /\ file' \in Seq(Lines) /\ torn' \in BOOLEAN /\ phase' \in {phase, "failed"}
           /\ InProgress' =>
                /\ ~ torn' /\ ~ Sealed(file)' /\ file' # <<>>
                /\ Len(file') = Len(file) + 1 /\ Len(file') < Capacity
                /\ \A c \in Candidates : Recorded(c)' <=> (Recorded(c) \/ IsAbout(line, c))
                /\ HasEvaluation \/ IsEvaluation(line) => HasEvaluation'
<1> USE DEF Inductive
<1>1. /\ file \in Seq(Lines) /\ FileFacts /\ ~ Sealed(file) /\ file # <<>>
    BY DEF FileFacts, TypeOK, WritingIsSteady, InProgress
<1>2. phase' \in {phase, "failed"} /\ torn' \in BOOLEAN
    BY DEF WriteEvent
<1>3. CASE file' = file /\ torn' = TRUE /\ phase' = "failed"
    BY <1>1, <1>2, <1>3, SameFile DEF InProgress, DoneIsSealed
<1>4. CASE file' = Append(file, line) /\ torn' = FALSE /\ phase' \in {phase, "failed"}
    <2>1. /\ file' \in Seq(Lines) /\ Len(file') = Len(file) + 1
          /\ DOMAIN file = 1 .. Len(file)
          /\ DOMAIN file' = 1 .. Len(file) + 1
          /\ \A i \in DOMAIN file : file'[i] = file[i]
          /\ file'[Len(file) + 1] = line
        BY <1>1, <1>4, AppendedLine
    <2>2. Len(file) \in Nat /\ Len(file) >= 1
        BY <1>1
    <2>3. line.event # "run_end" /\ line.event # "run_start"
        BY DEF IsEvidence
    <2>4. \A i \in DOMAIN file' : i \in DOMAIN file \/ i = Len(file) + 1
        BY <2>1, <2>2
    <2>5. LinesAreNumbered'
        BY <1>1, <2>1, <2>2, <2>3, <2>4 DEF FileFacts, LinesAreNumbered
    <2>6. ~ Sealed(file)'
        BY <1>1, <2>1, <2>3, <2>4 DEF Sealed
    <2>7. SealSumsUp'
        BY <2>6 DEF SealSumsUp, Sealed
    <2>8. EvaluationsAreSound'
        BY <1>1, <2>1, <2>4 DEF FileFacts, EvaluationsAreSound
    <2>9. AtMostOneLineEach'
        BY <1>1, <2>1, <2>4 DEF FileFacts, AtMostOneLineEach, Recorded
    <2>10. \A c \in Candidates : Recorded(c)' <=> (Recorded(c) \/ IsAbout(line, c))
        BY <2>1, <2>2, <2>4 DEF Recorded
    <2>11. HasEvaluation \/ IsEvaluation(line) => HasEvaluation'
        BY <2>1, <2>2, <2>4 DEF HasEvaluation
    <2>12. Len(file') < Capacity
        BY <2>1, <2>2, <2>3 DEF WriteEvent, HasRoom
    <2> QED
        BY <1>2, <1>4, <2>1, <2>2, <2>5, <2>6, <2>7, <2>8, <2>9, <2>10, <2>11, <2>12
           DEF FileFacts, DoneIsSealed
<1> QED
    BY <1>3, <1>4 DEF WriteEvent

\* The quoting loop visits the grid one candidate at a time and leaves none out.
LEMMA NextVisits ==
    ASSUME TypeOK, at.route <= Routes, at' = NextSize
    PROVE  /\ at \in Candidates
           /\ at' \in [route : 1 .. Routes + 1, size : 1 .. Sizes]
           /\ ~ Visited(at)
           /\ \A c \in Candidates : Visited(c)' <=> (Visited(c) \/ c = at)
<1> USE DEF TypeOK, Candidates
<1>1. at \in Candidates /\ ~ Visited(at)
    BY DEF Visited
<1>0. \A c \in Candidates : c = at <=> c.route = at.route /\ c.size = at.size
    OBVIOUS
<1>2. CASE at.size < Sizes
    <2>1. at' = [route |-> at.route, size |-> at.size + 1]
        BY <1>2 DEF NextSize
    <2> QED
        BY <1>1, <1>0, <1>2, <2>1 DEF Visited
<1>3. CASE ~ at.size < Sizes
    <2>1. at' = [route |-> at.route + 1, size |-> 1] /\ at.size = Sizes
        BY <1>3 DEF NextSize
    <2> QED
        <3>1. at' \in [route : 1 .. Routes + 1, size : 1 .. Sizes]
            BY <2>1
        <3>2. ASSUME NEW c \in Candidates PROVE Visited(c)' <=> (Visited(c) \/ c = at)
            <4>1. c.route \in 1 .. Routes /\ c.size \in 1 .. Sizes
                OBVIOUS
            <4>2. Visited(c)' <=> c.route < at.route + 1
                BY <2>1, <4>1 DEF Visited
            <4> QED
                BY <1>0, <2>1, <4>1, <4>2 DEF Visited
        <3> QED
            BY <1>1, <3>1, <3>2
<1> QED
    BY <1>2, <1>3

LEMMA RejectVisits ==
    ASSUME TypeOK, at.route <= Routes, at.size = 1,
           at' = [route |-> at.route + 1, size |-> 1]
    PROVE  /\ at' \in [route : 1 .. Routes + 1, size : 1 .. Sizes]
           /\ \A c \in Candidates : c.route = at.route => ~ Visited(c)
           /\ \A c \in Candidates : Visited(c)' <=> (Visited(c) \/ c.route = at.route)
BY DEF TypeOK, Candidates, Visited

\* A candidate the journal did not have gets the lifecycle of a first sight.
LEMMA EvaluationWritten ==
    ASSUME Inductive, phase \in {"quoting", "pricing"},
           NEW c \in Candidates, ~ Recorded(c),
           NEW status \in Statuses, NEW treasury \in Modes, NEW flash \in Modes,
           NEW timing \in Timing, NEW t \in Times,
           \A line : /\ line.status = status /\ line.timing = timing
                     /\ line.treasury = treasury /\ line.flash = flash
                     /\ Monotonic
                     => ContentsFollow(line),
           WriteEvaluation(c, status, treasury, flash, timing, t, phase)
    PROVE  /\ FileFacts' /\ DoneIsSealed'
           /\ file' \in Seq(Lines) /\ torn' \in BOOLEAN /\ phase' \in {phase, "failed"}
           /\ lifecycle' \in [Candidates -> LifecycleState]
           /\ clock' = t /\ evidence' = evidence + 1
           /\ InProgress' =>
                /\ ~ torn' /\ ~ Sealed(file)' /\ file' # <<>>
                /\ Len(file') = Len(file) + 1 /\ Len(file') < Capacity
                /\ \A d \in Candidates : Recorded(d)' <=> (Recorded(d) \/ d = c)
                /\ HasEvaluation'
                /\ \A d \in Candidates : d # c => lifecycle'[d] = lifecycle[d]
<1> DEFINE line == [event |-> "candidate_evaluation", sequence |-> Len(file) + 1,
                    candidate |-> c, status |-> status,
                    treasury |-> treasury, flash |-> flash,
                    timing |-> timing, lifecycle |-> Observe(lifecycle[c], t)]
<1>1. TypeOK /\ NoneLost /\ file \in Seq(Lines) /\ Len(file) + 1 \in Nat
    BY DEF Inductive, TypeOK
<1>2. lifecycle[c].count = 0
    BY <1>1 DEF NoneLost, InProgress
<1>3. Observe(lifecycle[c], t) = [first |-> t, last |-> t, count |-> 1]
    BY <1>2 DEF Observe
<1>4. Observe(lifecycle[c], t) \in LifecycleState
    BY <1>3 DEF LifecycleState
<1>5. line \in Lines
    BY <1>1, <1>4 DEF Lines
<1>6. /\ IsEvidence(line) /\ IsEvaluation(line) /\ line.sequence = Len(file) + 1
      /\ \A d \in Candidates : IsAbout(line, d) <=> d = c
    BY DEF IsEvidence, IsEvaluation, IsAbout
<1>7. line.lifecycle.count = 1 /\ line.lifecycle.first = line.lifecycle.last
    BY <1>3
<1>8. Monotonic => ContentsFollow(line)
    OBVIOUS
<1>9. WriteEvent(line, phase) /\ clock' = t /\ evidence' = evidence + 1
      /\ lifecycle' = [lifecycle EXCEPT ![c] = Observe(lifecycle[c], t)]
    BY DEF WriteEvaluation
<1>10. lifecycle' \in [Candidates -> LifecycleState]
       /\ \A d \in Candidates : d # c => lifecycle'[d] = lifecycle[d]
    BY <1>1, <1>4, <1>9 DEF TypeOK
<1> HIDE DEF line
<1> QED
    BY <1>5, <1>6, <1>7, <1>8, <1>9, <1>10, EvidenceWritten

\* The times in hand are numbers.
LEMMA TimesAreNumbers ==
    ASSUME TypeOK
    PROVE  /\ clock \in Int /\ found \in Int
           /\ \A k \in DOMAIN quoted : /\ quoted[k].candidate \in Candidates
                                       /\ quoted[k].time \in Times
                                       /\ quoted[k].time \in Int
<1> DEFINE Quotes == [candidate : Candidates, time : Times]
<1>1. \A k \in DOMAIN quoted : quoted[k] \in Quotes
    <2>1. quoted \in Seq(Quotes)
        BY DEF TypeOK
    <2> HIDE DEF Quotes
    <2> QED
        BY <2>1
<1> QED
    BY <1>1 DEF TypeOK, Times, None

\* The clock going on leaves the quotes in hand timely.
LEMMA ClockGoesOn ==
    ASSUME TypeOK, QuotesAreTimely, phase \in {"quoting", "pricing"},
           clock' \in Times, Monotonic => clock <= clock',
           found' = found, quoted' = quoted
    PROVE  QuotesAreTimely'
<1>1. clock' \in Int
    BY DEF Times
<1> QED
    BY <1>1, TimesAreNumbers DEF QuotesAreTimely

\* The journal starts with run_start or stays empty.
LEMMA StartPreserves == Inductive /\ Start => Inductive'
<1> SUFFICES ASSUME Inductive, Start PROVE Inductive'
    OBVIOUS
<1> DEFINE line == [event |-> "run_start", sequence |-> Len(file) + 1]
<1>1. /\ TypeOK /\ file = <<>> /\ quoted = <<>> /\ evidence = 0
      /\ at = [route |-> 1, size |-> 1] /\ phase = "starting" /\ ~ torn
    BY DEF Inductive, WritingIsSteady, InProgress, Start
<1>2. /\ found' \in Times /\ clock' \in Times
      /\ Monotonic => found' <= clock'
      /\ WriteEvent(line, "quoting")
      /\ UNCHANGED <<at, quoted, lifecycle, evidence>>
    BY DEF Start, Follows, Times
<1>3. line \in Lines
    BY <1>1 DEF Lines
<1>4. \/ file' = <<line>> /\ ~ torn' /\ phase' \in {"quoting", "failed"}
      \/ file' = <<>> /\ torn' = TRUE /\ phase' = "failed"
    BY <1>1, <1>2 DEF WriteEvent
<1>5. TypeOK'
    <2>1. file' \in Seq(Lines)
        <3> HIDE DEF line
        <3>1. <<line>> \in Seq(Lines) /\ <<>> \in Seq(Lines)
            BY <1>3
        <3> QED
            BY <1>4, <3>1
    <2>2. phase' \in Phases /\ torn' \in BOOLEAN
        BY <1>2 DEF WriteEvent, Phases
    <2> QED
        BY <1>1, <1>2, <2>1, <2>2 DEF TypeOK
<1>6. \A i \in DOMAIN file' : i = 1 /\ file'[i].event = "run_start" /\ file'[i].sequence = 1
    BY <1>1, <1>4
<1>7. /\ (LinesAreNumbered /\ AtMostOneLineEach /\ SealSumsUp /\ EvaluationsAreSound)'
      /\ ~ Sealed(file)' /\ \A c \in Candidates : ~ Recorded(c)'
    BY <1>6 DEF LinesAreNumbered, AtMostOneLineEach, SealSumsUp, EvaluationsAreSound,
                Sealed, Recorded, IsAbout, IsEvaluation
<1>8. \A c \in Candidates : ~ Recorded(c)
    BY <1>1 DEF Recorded
<1>9. NoneLost'
    BY <1>1, <1>2, <1>7, <1>8 DEF Inductive, NoneLost, InProgress, Visited, Waiting
<1>10. WritingIsSteady'
    <2>1. None \notin Times
        BY DEF None, Times
    <2>2. phase' # "starting"
        BY <1>4
    <2>3. InProgress' => /\ ~ torn' /\ file' # <<>> /\ Len(file') = 1
                         /\ phase' = "quoting"
        BY <1>4 DEF InProgress
    <2>4. found' # None /\ evidence' = 0 /\ 1 < Capacity
        BY <1>1, <1>2, <2>1
    <2>5. InProgress' => Len(file') < Capacity /\ evidence' = Len(file') - 1 /\ phase' # "pricing"
        BY <2>3, <2>4
    <2> QED
        BY <1>7, <2>2, <2>3, <2>4, <2>5 DEF WritingIsSteady
<1>11. QuotesAreTimely' /\ DoneIsSealed'
    BY <1>1, <1>2, <1>4, <1>7 DEF QuotesAreTimely, DoneIsSealed
<1> QED
    BY <1>5, <1>7, <1>9, <1>10, <1>11 DEF Inductive

LEMMA RejectRoutePreserves == Inductive /\ RejectRoute => Inductive'
<1> SUFFICES ASSUME Inductive, RejectRoute PROVE Inductive'
    OBVIOUS
<1> DEFINE line == [event |-> "route_rejection", sequence |-> Len(file) + 1,
                    route |-> at.route]
<1>1. /\ TypeOK /\ NoneLost /\ WritingIsSteady /\ QuotesAreTimely
      /\ phase = "quoting" /\ at.route <= Routes /\ at.size = 1
      /\ clock' \in Times /\ (Monotonic => clock <= clock')
      /\ WriteEvent(line, phase)
      /\ at' = [route |-> at.route + 1, size |-> 1] /\ evidence' = evidence + 1
      /\ UNCHANGED <<found, quoted, lifecycle>>
    BY DEF Inductive, RejectRoute, InQuoting, Follows
<1>2. line \in Lines /\ IsEvidence(line) /\ ~ IsEvaluation(line)
    BY <1>1 DEF Lines, IsEvidence, IsEvaluation, TypeOK
<1>3. \A c \in Candidates : IsAbout(line, c) <=> c.route = at.route
    BY <1>2 DEF IsAbout
<1>4. /\ at' \in [route : 1 .. Routes + 1, size : 1 .. Sizes]
      /\ \A c \in Candidates : c.route = at.route => ~ Visited(c)
      /\ \A c \in Candidates : Visited(c)' <=> (Visited(c) \/ c.route = at.route)
    BY <1>1, RejectVisits
<1>5. \A c \in Candidates : IsAbout(line, c) => ~ Recorded(c)
    BY <1>1, <1>3, <1>4 DEF NoneLost, InProgress
<1>6. line.sequence = Len(file) + 1
    OBVIOUS
<1> HIDE DEF line
<1>7. /\ FileFacts' /\ DoneIsSealed'
      /\ file' \in Seq(Lines) /\ torn' \in BOOLEAN /\ phase' \in {phase, "failed"}
      /\ InProgress' =>
           /\ ~ torn' /\ ~ Sealed(file)' /\ file' # <<>>
           /\ Len(file') = Len(file) + 1 /\ Len(file') < Capacity
           /\ \A c \in Candidates : Recorded(c)' <=> (Recorded(c) \/ IsAbout(line, c))
           /\ HasEvaluation \/ IsEvaluation(line) => HasEvaluation'
    BY <1>1, <1>2, <1>5, <1>6, EvidenceWritten
<1>8. TypeOK'
    BY <1>1, <1>4, <1>7 DEF TypeOK, Phases
<1>9. NoneLost'
    BY <1>1, <1>3, <1>4, <1>5, <1>7 DEF NoneLost, InProgress, Waiting
<1>10. WritingIsSteady'
    BY <1>1, <1>7 DEF WritingIsSteady, InProgress, TypeOK
<1>11. QuotesAreTimely'
    BY <1>1, ClockGoesOn
<1> QED
    BY <1>7, <1>8, <1>9, <1>10, <1>11 DEF Inductive, FileFacts

LEMMA RejectQuotePreserves == Inductive /\ RejectQuote => Inductive'
<1> SUFFICES ASSUME Inductive, RejectQuote PROVE Inductive'
    OBVIOUS
<1> DEFINE timing == [found |-> found, quoted |-> None, priced |-> None, ready |-> None]
<1>1. /\ TypeOK /\ NoneLost /\ WritingIsSteady /\ QuotesAreTimely
      /\ phase = "quoting" /\ at.route <= Routes
      /\ at' = NextSize /\ UNCHANGED <<found, quoted>>
    BY DEF Inductive, RejectQuote, InQuoting
<1>2. PICK t \in Times : /\ Follows(clock, t)
                         /\ WriteEvaluation(at, "quote_rejected", "none", "none", timing, t, phase)
    BY <1>1 DEF RejectQuote
<1>3. /\ at \in Candidates
      /\ at' \in [route : 1 .. Routes + 1, size : 1 .. Sizes]
      /\ ~ Visited(at)
      /\ \A c \in Candidates : Visited(c)' <=> (Visited(c) \/ c = at)
    BY <1>1, NextVisits
<1>4. ~ Recorded(at) /\ ~ Waiting(at)
    BY <1>1, <1>3 DEF NoneLost, InProgress
<1>5. timing \in Timing
    BY <1>1 DEF TypeOK, Timing, WritingIsSteady, InProgress
<1>6. "quote_rejected" \in Statuses /\ "none" \in Modes
    BY DEF Statuses, Modes
<1>7. \A line : line.status = "quote_rejected" /\ line.timing = timing => ContentsFollow(line)
    BY DEF ContentsFollow
<1> HIDE DEF timing
<1>8. /\ FileFacts' /\ DoneIsSealed'
      /\ file' \in Seq(Lines) /\ torn' \in BOOLEAN /\ phase' \in {phase, "failed"}
      /\ lifecycle' \in [Candidates -> LifecycleState]
      /\ clock' = t /\ evidence' = evidence + 1
      /\ InProgress' =>
           /\ ~ torn' /\ ~ Sealed(file)' /\ file' # <<>>
           /\ Len(file') = Len(file) + 1 /\ Len(file') < Capacity
           /\ \A d \in Candidates : Recorded(d)' <=> (Recorded(d) \/ d = at)
           /\ HasEvaluation'
           /\ \A d \in Candidates : d # at => lifecycle'[d] = lifecycle[d]
    BY <1>1, <1>2, <1>3, <1>4, <1>5, <1>6, <1>7, EvaluationWritten
<1>9. TypeOK'
    BY <1>1, <1>3, <1>8 DEF TypeOK, Phases
<1>10. NoneLost'
    BY <1>1, <1>3, <1>4, <1>8 DEF NoneLost, InProgress, Waiting
<1>11. WritingIsSteady'
    BY <1>1, <1>8 DEF WritingIsSteady, InProgress, TypeOK
<1>12. QuotesAreTimely'
    BY <1>1, <1>2, <1>8, ClockGoesOn DEF Follows
<1> QED
    BY <1>8, <1>9, <1>10, <1>11, <1>12 DEF Inductive, FileFacts

LEMMA QuotePreserves == Inductive /\ Quote => Inductive'
<1> SUFFICES ASSUME Inductive, Quote PROVE Inductive'
    OBVIOUS
<1>1. /\ TypeOK /\ NoneLost /\ WritingIsSteady /\ QuotesAreTimely /\ FileFacts
      /\ phase = "quoting" /\ at.route <= Routes
      /\ at' = NextSize /\ UNCHANGED <<phase, file, torn, found, lifecycle, evidence>>
    BY DEF Inductive, Quote, InQuoting, FileFacts
<1>2. PICK t \in Times : /\ Follows(clock, t) /\ clock' = t
                         /\ quoted' = Append(quoted, [candidate |-> at, time |-> t])
    BY DEF Quote
<1>3. /\ at \in Candidates
      /\ at' \in [route : 1 .. Routes + 1, size : 1 .. Sizes]
      /\ ~ Visited(at)
      /\ \A c \in Candidates : Visited(c)' <=> (Visited(c) \/ c = at)
    BY <1>1, NextVisits
<1>4. ~ Recorded(at) /\ ~ Waiting(at)
    BY <1>1, <1>3 DEF NoneLost, InProgress
<1>5. [candidate |-> at, time |-> t] \in [candidate : Candidates, time : Times]
    BY <1>3
<1>6. /\ quoted' \in Seq([candidate : Candidates, time : Times])
      /\ DOMAIN quoted = 1 .. Len(quoted) /\ Len(quoted) \in Nat
      /\ DOMAIN quoted' = 1 .. Len(quoted) + 1
      /\ \A k \in DOMAIN quoted : quoted'[k] = quoted[k]
      /\ quoted'[Len(quoted) + 1] = [candidate |-> at, time |-> t]
    BY <1>1, <1>2, <1>5 DEF TypeOK
<1>7. \A k \in DOMAIN quoted' : k \in DOMAIN quoted \/ k = Len(quoted) + 1
    BY <1>6
<1>8. TypeOK'
    BY <1>1, <1>2, <1>3, <1>6 DEF TypeOK
<1>9. FileFacts' /\ (HasEvaluation' <=> HasEvaluation) /\ (Sealed(file)' <=> Sealed(file))
      /\ \A c \in Candidates : Recorded(c)' <=> Recorded(c)
    BY <1>1, SameFile
<1>10. NoneLost'
    <2>1. \A c \in Candidates : Waiting(c)' <=> (Waiting(c) \/ c = at)
        BY <1>6, <1>7 DEF Waiting
    <2>2. \A k, l \in DOMAIN quoted' : quoted'[k].candidate = quoted'[l].candidate => k = l
        BY <1>1, <1>4, <1>6, <1>7 DEF NoneLost, InProgress, Waiting
    <2> QED
        BY <1>1, <1>3, <1>4, <1>9, <2>1, <2>2 DEF NoneLost, InProgress
<1>11. WritingIsSteady'
    BY <1>1, <1>9 DEF WritingIsSteady, InProgress
<1>12. QuotesAreTimely'
    <2>1. t \in Int
        BY DEF Times
    <2> QED
        BY <1>1, <1>2, <1>6, <1>7, <2>1, TimesAreNumbers DEF QuotesAreTimely, Follows
<1>13. DoneIsSealed'
    BY <1>1, <1>9 DEF Inductive, DoneIsSealed
<1> QED
    BY <1>8, <1>9, <1>10, <1>11, <1>12, <1>13 DEF Inductive, FileFacts

\* The steps that neither write nor read the clock.
LEMMA OtherwisePreserves ==
    Inductive /\ (EndQuoting \/ Replay \/ LoadPlan \/ Fail \/ UNCHANGED vars) => Inductive'
<1> SUFFICES ASSUME Inductive,
                    EndQuoting \/ Replay \/ LoadPlan \/ Fail \/ UNCHANGED vars
             PROVE  Inductive'
    OBVIOUS
<1>1. UNCHANGED <<file, torn, clock, found, at, quoted, lifecycle, evidence>>
    BY DEF EndQuoting, Replay, LoadPlan, Fail, vars
<1>2. /\ TypeOK /\ FileFacts /\ NoneLost /\ WritingIsSteady /\ QuotesAreTimely /\ DoneIsSealed
    BY DEF Inductive, FileFacts
<1>3. \/ phase' = phase
      \/ phase' = "failed"
      \/ phase = "quoting" /\ at.route > Routes /\ GridComplete /\ phase' = "pricing"
      \/ phase = "sealed" /\ phase' = "completed"
      \/ phase = "completed" /\ phase' = "planned"
    BY DEF EndQuoting, Replay, LoadPlan, Fail, vars
<1>4. FileFacts' /\ (HasEvaluation' <=> HasEvaluation) /\ (Sealed(file)' <=> Sealed(file))
      /\ \A c \in Candidates : Recorded(c)' <=> Recorded(c)
    BY <1>1, <1>2, SameFile
<1>5. TypeOK'
    BY <1>1, <1>2, <1>3 DEF TypeOK, Phases
<1>6. InProgress' => InProgress /\ (phase' = "starting" <=> phase = "starting")
    BY <1>3 DEF InProgress
<1>7. NoneLost'
    BY <1>1, <1>2, <1>4, <1>6 DEF NoneLost, Visited, Waiting
<1>8. GridComplete => quoted # <<>>
    <2>1. 1 \in 1 .. Routes /\ 1 \in 1 .. Sizes
        OBVIOUS
    <2>2. quoted = <<>> => DOMAIN quoted = {}
        OBVIOUS
    <2> QED
        BY <2>1, <2>2 DEF GridComplete
<1>9. WritingIsSteady'
    <2>1. phase' = "pricing" => at.route > Routes /\ (quoted # <<>> \/ HasEvaluation)
        BY <1>2, <1>3, <1>8 DEF WritingIsSteady, InProgress
    <2> QED
        BY <1>1, <1>2, <1>4, <1>6, <2>1 DEF WritingIsSteady
<1>10. QuotesAreTimely' /\ DoneIsSealed'
    BY <1>1, <1>2, <1>3, <1>4 DEF QuotesAreTimely, DoneIsSealed
<1> QED
    BY <1>4, <1>5, <1>7, <1>9, <1>10 DEF Inductive, FileFacts

\* What main prices, the replay accepts, provided the clock went on.
LEMMA PricedContentsFollow ==
    ASSUME NEW outcome \in Evaluations,
           NEW foundAt \in Times, NEW quotedAt \in Times,
           NEW priced \in Times, NEW ready \in Times,
           foundAt <= quotedAt, quotedAt <= priced, priced <= ready,
           NEW line,
           line.status = Classify(outcome[1], outcome[2]),
           line.treasury = outcome[1], line.flash = outcome[2],
           line.timing = [found |-> foundAt, quoted |-> quotedAt, priced |-> priced,
                          ready |-> IF Pays(outcome[1], outcome[2]) THEN ready ELSE None]
    PROVE  ContentsFollow(line)
<1>1. line.status # "quote_rejected"
    BY DEF Classify
<1>2. StatusFollows(line)
    BY DEF StatusFollows, Classify
<1>3. /\ line.timing.quoted = quotedAt /\ line.timing.found = foundAt
      /\ line.timing.priced = priced
      /\ line.timing.ready = IF Pays(outcome[1], outcome[2]) THEN ready ELSE None
    OBVIOUS
<1>4. None \notin Times
    BY DEF None, Times
<1>5. Ordered(line.timing)
    BY <1>3, <1>4 DEF Ordered
<1>6. Pays(outcome[1], outcome[2]) <=> line.status = "economics_resolved_positive"
    BY DEF Pays, Classify
<1>7. ReadyFollows(line)
    BY <1>3, <1>4, <1>6 DEF ReadyFollows
<1> QED
    BY <1>1, <1>2, <1>5, <1>7 DEF ContentsFollow

\* The quotes that are left are those behind the first.
LEMMA TailWaits ==
    ASSUME TypeOK, quoted # <<>>, quoted' = Tail(quoted),
           \A k, l \in DOMAIN quoted : quoted[k].candidate = quoted[l].candidate => k = l
    PROVE  /\ quoted' \in Seq([candidate : Candidates, time : Times])
           /\ Head(quoted).candidate \in Candidates /\ Head(quoted).time \in Times
           /\ Waiting(Head(quoted).candidate)
           /\ 1 \in DOMAIN quoted /\ Head(quoted) = quoted[1]
           /\ \A k \in DOMAIN quoted' : k + 1 \in DOMAIN quoted /\ quoted'[k] = quoted[k + 1]
           /\ \A k, l \in DOMAIN quoted' : quoted'[k].candidate = quoted'[l].candidate => k = l
           /\ \A c : Waiting(c)' <=> (Waiting(c) /\ c # Head(quoted).candidate)
<1> DEFINE Quotes == [candidate : Candidates, time : Times]
<1>1. quoted \in Seq(Quotes)
    BY DEF TypeOK
<1>2. \A q \in Quotes : q.candidate \in Candidates /\ q.time \in Times
    OBVIOUS
<1> HIDE DEF Quotes
<1>3. /\ quoted' \in Seq(Quotes)
      /\ Len(quoted) \in Nat /\ DOMAIN quoted = 1 .. Len(quoted)
      /\ DOMAIN quoted' = 1 .. Len(quoted) - 1
      /\ \A k \in 1 .. Len(quoted) - 1 : quoted'[k] = quoted[k + 1]
      /\ 1 \in DOMAIN quoted /\ Head(quoted) = quoted[1] /\ Head(quoted) \in Quotes
    BY <1>1
<1>4. \A k \in DOMAIN quoted' : k + 1 \in DOMAIN quoted /\ quoted'[k] = quoted[k + 1]
    BY <1>3
<1>5. \A k \in DOMAIN quoted : k = 1 \/ (k - 1 \in DOMAIN quoted' /\ quoted[k] = quoted'[k - 1])
    BY <1>3
<1>6. \A k \in DOMAIN quoted' : k + 1 # 1 /\ k \in Int
    BY <1>3
<1>7. ASSUME NEW c PROVE Waiting(c)' <=> (Waiting(c) /\ c # Head(quoted).candidate)
    <2>1. ASSUME NEW k \in DOMAIN quoted', quoted'[k].candidate = c
          PROVE  Waiting(c) /\ c # Head(quoted).candidate
        BY <1>3, <1>4, <1>6, <2>1 DEF Waiting
    <2>2. ASSUME NEW k \in DOMAIN quoted, quoted[k].candidate = c, c # Head(quoted).candidate
          PROVE  \E j \in DOMAIN quoted' : quoted'[j].candidate = c
        BY <1>3, <1>5, <2>2
    <2>3. Waiting(c)' <=> \E j \in DOMAIN quoted' : quoted'[j].candidate = c
        BY DEF Waiting
    <2> QED
        BY <2>1, <2>2, <2>3 DEF Waiting
<1>8. Waiting(Head(quoted).candidate)
    BY <1>3 DEF Waiting
<1>9. ASSUME NEW k \in DOMAIN quoted', NEW l \in DOMAIN quoted',
             quoted'[k].candidate = quoted'[l].candidate
      PROVE  k = l
    <2>1. k + 1 = l + 1
        BY <1>4, <1>9
    <2> QED
        BY <1>6, <2>1
<1> QED
    BY <1>2, <1>3, <1>4, <1>7, <1>8, <1>9 DEF Quotes

LEMMA PricePreserves == Inductive /\ Price => Inductive'
<1> SUFFICES ASSUME Inductive, Price PROVE Inductive'
    OBVIOUS
<1> DEFINE head == Head(quoted)
           Stamps(outcome, priced, ready) ==
               [found |-> found, quoted |-> head.time, priced |-> priced,
                ready |-> IF Pays(outcome[1], outcome[2]) THEN ready ELSE None]
<1>1. /\ TypeOK /\ NoneLost /\ WritingIsSteady /\ QuotesAreTimely
      /\ phase = "pricing" /\ quoted # <<>> /\ quoted' = Tail(quoted)
      /\ UNCHANGED <<found, at>>
    BY DEF Inductive, Price
<1>2. PICK outcome \in Evaluations, priced, ready, t \in Times :
          /\ Follows(clock, priced) /\ Follows(priced, ready) /\ Follows(ready, t)
          /\ WriteEvaluation(head.candidate, Classify(outcome[1], outcome[2]),
                             outcome[1], outcome[2], Stamps(outcome, priced, ready), t, phase)
    BY <1>1 DEF Price
<1>3. /\ quoted' \in Seq([candidate : Candidates, time : Times])
      /\ head.candidate \in Candidates /\ head.time \in Times
      /\ Waiting(head.candidate)
      /\ 1 \in DOMAIN quoted /\ head = quoted[1]
      /\ \A k \in DOMAIN quoted' : k + 1 \in DOMAIN quoted /\ quoted'[k] = quoted[k + 1]
      /\ \A k, l \in DOMAIN quoted' : quoted'[k].candidate = quoted'[l].candidate => k = l
      /\ \A c : Waiting(c)' <=> (Waiting(c) /\ c # head.candidate)
    BY <1>1, TailWaits DEF NoneLost, InProgress
<1>4. ~ Recorded(head.candidate)
    BY <1>1, <1>3 DEF NoneLost, InProgress
<1>5. found \in Times
    BY <1>1 DEF TypeOK, WritingIsSteady, InProgress
<1>6. Stamps(outcome, priced, ready) \in Timing
    BY <1>3, <1>5 DEF Timing
<1>7. /\ Classify(outcome[1], outcome[2]) \in Statuses
      /\ outcome[1] \in Modes /\ outcome[2] \in Modes
    <2>1. outcome[1] \in Outcomes \cup {"none"} /\ outcome[2] \in Outcomes \cup {"none"}
        BY DEF Evaluations
    <2>2. outcome[1] \in Modes /\ outcome[2] \in Modes
        BY <2>1, OutcomesAssumption DEF Modes, Resolved
    <2> QED
        BY <2>2 DEF Classify, Statuses
<1>8. Monotonic => found <= head.time /\ head.time <= clock /\ clock <= priced
                   /\ priced <= ready /\ ready <= t
    BY <1>1, <1>2, <1>3 DEF QuotesAreTimely, Follows
<1>9. clock \in Int /\ priced \in Int /\ ready \in Int /\ t \in Int /\ head.time \in Int
    BY <1>1, <1>3 DEF TypeOK, Times
<1>10. Monotonic => head.time <= priced /\ clock <= t
    BY <1>8, <1>9
<1> HIDE DEF head
<1>11. \A line : /\ line.status = Classify(outcome[1], outcome[2])
                 /\ line.timing = Stamps(outcome, priced, ready)
                 /\ line.treasury = outcome[1] /\ line.flash = outcome[2]
                 /\ Monotonic
                 => ContentsFollow(line)
    BY <1>3, <1>5, <1>8, <1>10, PricedContentsFollow
<1> HIDE DEF Stamps
<1>12. /\ FileFacts' /\ DoneIsSealed'
       /\ file' \in Seq(Lines) /\ torn' \in BOOLEAN /\ phase' \in {phase, "failed"}
       /\ lifecycle' \in [Candidates -> LifecycleState]
       /\ clock' = t /\ evidence' = evidence + 1
       /\ InProgress' =>
            /\ ~ torn' /\ ~ Sealed(file)' /\ file' # <<>>
            /\ Len(file') = Len(file) + 1 /\ Len(file') < Capacity
            /\ \A d \in Candidates : Recorded(d)' <=> (Recorded(d) \/ d = head.candidate)
            /\ HasEvaluation'
            /\ \A d \in Candidates : d # head.candidate => lifecycle'[d] = lifecycle[d]
    BY <1>1, <1>2, <1>3, <1>4, <1>6, <1>7, <1>11, EvaluationWritten
<1>13. TypeOK'
    BY <1>1, <1>3, <1>12 DEF TypeOK, Phases
<1>14. NoneLost'
    BY <1>1, <1>3, <1>4, <1>12 DEF NoneLost, InProgress, Visited
<1>15. WritingIsSteady'
    BY <1>1, <1>12 DEF WritingIsSteady, InProgress, TypeOK
<1>16. QuotesAreTimely'
    <2>1. Monotonic => found <= t
        BY <1>1, <1>9, <1>10, TimesAreNumbers DEF QuotesAreTimely
    <2>2. ASSUME Monotonic, NEW k \in DOMAIN quoted'
          PROVE  found <= quoted'[k].time /\ quoted'[k].time <= t
        BY <1>1, <1>3, <1>9, <1>10, <2>2, TimesAreNumbers DEF QuotesAreTimely
    <2> QED
        BY <1>1, <1>12, <2>1, <2>2 DEF QuotesAreTimely
<1> QED
    BY <1>12, <1>13, <1>14, <1>15, <1>16 DEF Inductive, FileFacts

LEMMA SealPreserves == Inductive /\ Seal => Inductive'
<1> SUFFICES ASSUME Inductive, Seal PROVE Inductive'
    OBVIOUS
<1> DEFINE line == [event |-> "run_end", sequence |-> Len(file) + 1, evidence |-> evidence]
<1>1. /\ TypeOK /\ FileFacts /\ NoneLost /\ WritingIsSteady /\ DoneIsSealed
      /\ phase = "pricing" /\ quoted = <<>> /\ clock' \in Times
      /\ WriteEvent(line, "sealed")
      /\ UNCHANGED <<found, at, quoted, lifecycle, evidence>>
    BY DEF Inductive, FileFacts, Seal
<1>2. /\ file \in Seq(Lines) /\ Len(file) \in Nat /\ file # <<>> /\ ~ Sealed(file)
      /\ evidence = Len(file) - 1 /\ HasEvaluation
    BY <1>1 DEF TypeOK, WritingIsSteady, InProgress
<1>3. \A c \in Candidates : Recorded(c)
    <2>1. \A c \in Candidates : Visited(c)
        BY <1>1 DEF WritingIsSteady, InProgress, Visited, Candidates, TypeOK
    <2>2. \A c \in Candidates : ~ Waiting(c)
        BY <1>1 DEF Waiting
    <2> QED
        BY <1>1, <2>1, <2>2 DEF NoneLost, InProgress
<1>4. line \in Lines
    BY <1>1 DEF Lines, TypeOK
<1>5. /\ line.sequence = Len(file) + 1 /\ line.event = "run_end"
      /\ line.evidence = Len(file) - 1
      /\ ~ IsEvaluation(line) /\ \A c \in Candidates : ~ IsAbout(line, c)
    BY <1>2 DEF IsEvaluation, IsAbout
<1> HIDE DEF line
<1>6. /\ phase' \in {"sealed", "failed"} /\ torn' \in BOOLEAN
      /\ \/ file' = Append(file, line) /\ ~ torn'
         \/ file' = file /\ phase' = "failed"
    BY <1>1 DEF WriteEvent
<1>7. /\ FileFacts' /\ file' \in Seq(Lines)
      /\ Sealed(file)' <=> file' = Append(file, line)
    <2>1. CASE file' = file
        <3>1. FileFacts'
            BY <1>1, <2>1, SameFile
        <3>2. file' # Append(file, line)
            BY <1>2, <1>4, <2>1
        <3> QED
            BY <1>2, <2>1, <3>1, <3>2 DEF Sealed
    <2>2. CASE file' = Append(file, line)
        <3>1. /\ file' \in Seq(Lines) /\ Len(file') = Len(file) + 1
              /\ DOMAIN file = 1 .. Len(file)
              /\ DOMAIN file' = 1 .. Len(file) + 1
              /\ \A i \in DOMAIN file : file'[i] = file[i]
              /\ file'[Len(file) + 1] = line
            BY <1>2, <1>4, <2>2, AppendedLine
        <3>2. \A i \in DOMAIN file' : i \in DOMAIN file \/ i = Len(file) + 1
            BY <1>2, <3>1
        <3>3. Len(file) >= 1 /\ Len(file) + 1 \in DOMAIN file'
            BY <1>2, <3>1
        <3>4. LinesAreNumbered'
            BY <1>1, <1>2, <1>5, <3>1, <3>2, <3>3 DEF FileFacts, LinesAreNumbered
        <3>5. AtMostOneLineEach'
            BY <1>1, <1>5, <3>1, <3>2 DEF FileFacts, AtMostOneLineEach
        <3>6. EvaluationsAreSound'
            BY <1>1, <1>5, <3>1, <3>2 DEF FileFacts, EvaluationsAreSound
        <3>7. HasEvaluation' /\ \A c \in Candidates : Recorded(c)'
            BY <1>2, <1>3, <3>1 DEF HasEvaluation, Recorded
        <3>8. SealSumsUp'
            BY <1>2, <1>5, <3>1, <3>2, <3>3, <3>7 DEF SealSumsUp, Sealed
        <3>9. Sealed(file)'
            BY <1>5, <3>1, <3>3 DEF Sealed
        <3> QED
            BY <2>2, <3>1, <3>4, <3>5, <3>6, <3>8, <3>9 DEF FileFacts
    <2> QED
        BY <1>1, <2>1, <2>2 DEF WriteEvent
<1>8. TypeOK'
    BY <1>1, <1>6, <1>7 DEF TypeOK, Phases
<1>9. NoneLost' /\ WritingIsSteady' /\ QuotesAreTimely'
    BY <1>6 DEF NoneLost, WritingIsSteady, QuotesAreTimely, InProgress
<1>10. DoneIsSealed'
    <2>1. file # Append(file, line)
        BY <1>2, <1>4
    <2> QED
        BY <1>6, <1>7, <2>1 DEF DoneIsSealed
<1> QED
    BY <1>7, <1>8, <1>9, <1>10 DEF Inductive, FileFacts

LEMMA NextInductive == Inductive /\ [Next]_vars => Inductive'
BY StartPreserves, RejectRoutePreserves, RejectQuotePreserves, QuotePreserves,
   PricePreserves, SealPreserves, OtherwisePreserves DEF Next

\* The invariant behind all that follows.
THEOREM JournalInvariant == Spec => []Inductive
BY InitInductive, NextInductive, PTL DEF Spec

\* The journal's state has its type, whatever grid, capacity and clock.
THEOREM TypeCorrect == Spec => []TypeOK
<1>1. Inductive => TypeOK
    BY DEF Inductive
<1> QED
    BY <1>1, JournalInvariant, PTL

\* A partial journal never passes for a whole one, for any of the readers and
\* at whatever moment the run failed or was killed.
THEOREM AcceptedJournalsAreWholeAlways == Spec => []AcceptedJournalsAreWhole
<1>1. Inductive => AcceptedJournalsAreWhole
    <2> SUFFICES ASSUME Inductive, WholeAndSealed(file, torn), NEW c \in Candidates
                 PROVE  Cardinality(LinesAbout(c)) = 1
        BY DEF AcceptedJournalsAreWhole, Replays, Loads, StageFAccepts
    <2>1. Len(file) \in DOMAIN file /\ file[Len(file)].event = "run_end"
        BY DEF WholeAndSealed, Inductive, TypeOK
    <2>2. PICK i \in DOMAIN file : IsAbout(file[i], c)
        BY <2>1 DEF Inductive, SealSumsUp, Recorded
    <2>3. LinesAbout(c) = {i}
        BY <2>2 DEF LinesAbout, Inductive, AtMostOneLineEach
    <2> QED
        BY <2>3, FS_Singleton
<1> QED
    BY <1>1, JournalInvariant, PTL

\* The place write_event keeps is there when run_end is due.
THEOREM RoomToSealAlways == Spec => []RoomToSeal
<1>1. Inductive => RoomToSeal
    <2> SUFFICES ASSUME Inductive, phase = "pricing", quoted = <<>>
                 PROVE  Len(file) < Capacity /\ evidence > 0
        BY DEF RoomToSeal
    <2>1. PICK i \in DOMAIN file : IsEvaluation(file[i])
        BY DEF Inductive, WritingIsSteady, InProgress, HasEvaluation
    <2>2. i # 1
        BY <2>1 DEF Inductive, LinesAreNumbered, IsEvaluation
    <2>3. file \in Seq(Lines) /\ evidence = Len(file) - 1 /\ Len(file) < Capacity
        BY DEF Inductive, TypeOK, WritingIsSteady, InProgress
    <2>4. i \in 1 .. Len(file) /\ Len(file) \in Nat
        BY <2>1, <2>3
    <2> QED
        BY <2>2, <2>3, <2>4
<1> QED
    BY <1>1, JournalInvariant, PTL

\* What a sealed journal looks like to every reader.
LEMMA SealedIsWhole ==
    ASSUME Inductive, Sealed(file)
    PROVE  WholeAndSealed(file, torn) /\ FromStartWithCandidates(file)
<1>1. PICK i \in DOMAIN file : file[i].event = "run_end"
    BY DEF Sealed
<1>2. i = Len(file) /\ HasEvaluation
    BY <1>1 DEF Inductive, SealSumsUp
<1>3. \A j \in DOMAIN file : file[j].event = "run_end" <=> j = Len(file)
    BY <1>1, <1>2 DEF Inductive, SealSumsUp
<1>4. ~ torn
    BY DEF Inductive, DoneIsSealed
<1>5. WholeAndSealed(file, torn)
    BY <1>1, <1>3, <1>4 DEF WholeAndSealed, Inductive, LinesAreNumbered
<1>6. file[1].event = "run_start"
    <2>1. 1 \in DOMAIN file
        BY <1>1 DEF Inductive, TypeOK
    <2> QED
        BY <2>1 DEF Inductive, LinesAreNumbered
<1> QED
    BY <1>2, <1>5, <1>6 DEF FromStartWithCandidates, HasEvaluation

\* The forensics of the run and Stage F can read every completed journal.
THEOREM CompletedJournalsLoadAlways == Spec => []CompletedJournalsLoad
<1>1. Inductive => CompletedJournalsLoad
    <2> SUFFICES ASSUME Inductive, phase \in {"completed", "planned"}
                 PROVE  Loads(file, torn) /\ StageFAccepts(file, torn)
        BY DEF CompletedJournalsLoad
    <2>1. Sealed(file)
        BY DEF Inductive, DoneIsSealed
    <2> QED
        BY <2>1, SealedIsWhole DEF Loads, StageFAccepts
<1> QED
    BY <1>1, JournalInvariant, PTL

\* A journal has a line about each evaluated candidate once, so each of its
\* evaluations is the first of its candidate.
LEMMA FirstSight ==
    ASSUME Inductive, NEW i \in DOMAIN file, IsEvaluation(file[i])
    PROVE  LifecycleFollows(file, i)
<1> DEFINE sofar == {j \in 1 .. i : IsEvaluation(file[j]) /\ file[j].candidate = file[i].candidate}
<1>1. file \in Seq(Lines) /\ i \in 1 .. Len(file) /\ Len(file) \in Nat /\ file[i] \in Lines
    BY DEF Inductive, TypeOK
<1>2. file[i].candidate \in Candidates /\ file[i].lifecycle \in LifecycleState
    BY <1>1 DEF Lines, IsEvaluation
<1>3. \A j \in 1 .. i : j \in DOMAIN file
    BY <1>1
<1>4. i \in 1 .. i
    BY <1>1
<1>5. \A j \in sofar : j = i
    BY <1>2, <1>3 DEF Inductive, AtMostOneLineEach, IsAbout
<1>6. sofar = {i}
    BY <1>4, <1>5
<1>7. Cardinality(sofar) = 1
    BY <1>6, FS_Singleton
<1>8. /\ file[i].lifecycle.count = 1
      /\ file[i].lifecycle.first = file[i].lifecycle.last
      /\ file[i].lifecycle.first \in Int
    BY <1>2 DEF Inductive, EvaluationsAreSound, LifecycleState, Times
<1>9. file[i].lifecycle.first <= file[i].lifecycle.last
    BY <1>8
<1> QED
    BY <1>5, <1>7, <1>8, <1>9 DEF LifecycleFollows

\* The evidence of a sealed journal is all of it but the first line and the last.
LEMMA SealedEvidence ==
    ASSUME Inductive, Sealed(file)
    PROVE  LET evidenceLines == {i \in DOMAIN file : IsEvidence(file[i])}
           IN  evidenceLines # {} /\ file[Len(file)].evidence = Cardinality(evidenceLines)
<1> DEFINE evidenceLines == {i \in DOMAIN file : IsEvidence(file[i])}
<1>1. /\ file \in Seq(Lines) /\ Len(file) \in Nat /\ DOMAIN file = 1 .. Len(file)
      /\ WholeAndSealed(file, torn)
    BY SealedIsWhole DEF Inductive, TypeOK
<1>2. Len(file) \in DOMAIN file /\ file[Len(file)].event = "run_end" /\ 1 \in DOMAIN file
    BY <1>1 DEF WholeAndSealed
<1>3. file[Len(file)].evidence = Len(file) - 2 /\ HasEvaluation
    BY <1>2 DEF Inductive, SealSumsUp
<1>4. Len(file) # 1
    BY <1>1, <1>2 DEF Inductive, LinesAreNumbered
<1>5. \A i \in DOMAIN file : IsEvidence(file[i]) <=> i # 1 /\ i # Len(file)
    <2>1. \A line \in Lines : IsEvidence(line) <=> line.event # "run_start" /\ line.event # "run_end"
        BY DEF Lines, IsEvidence
    <2>2. \A i \in DOMAIN file : file[i] \in Lines
        BY <1>1
    <2> QED
        BY <1>1, <2>1, <2>2 DEF WholeAndSealed, Inductive, LinesAreNumbered
<1>6. evidenceLines = 2 .. Len(file) - 1
    BY <1>1, <1>4, <1>5
<1>7. Cardinality(2 .. Len(file) - 1) = Len(file) - 2
    <2>1. 2 \in Int /\ Len(file) - 1 \in Int /\ Len(file) >= 2
        BY <1>1, <1>2, <1>4
    <2>2. Cardinality(2 .. Len(file) - 1)
              = IF 2 > Len(file) - 1 THEN 0 ELSE (Len(file) - 1) - 2 + 1
        BY <2>1, FS_Interval
    <2> QED
        BY <2>1, <2>2
<1>8. evidenceLines # {}
    BY <1>3 DEF HasEvaluation, IsEvaluation, IsEvidence
<1> QED
    BY <1>3, <1>6, <1>7, <1>8

\* With a clock that does not step back, the replay accepts every journal the
\* recorder sealed, and Stage F none it would not.
THEOREM SealedJournalsReplayAlways ==
    ASSUME Monotonic
    PROVE  Spec => []SealedJournalsReplay
<1>1. Inductive => SealedJournalsReplay
    <2> SUFFICES ASSUME Inductive, Sealed(file) PROVE Replays(file, torn)
        BY DEF SealedJournalsReplay
    <2>1. \A i \in DOMAIN file : IsEvaluation(file[i]) => ValidEvaluation(file, i)
        BY FirstSight DEF ValidEvaluation, Inductive, EvaluationsAreSound
    <2> QED
        BY <2>1, SealedIsWhole, SealedEvidence DEF Replays
<1> QED
    BY <1>1, JournalInvariant, PTL

=============================================================================

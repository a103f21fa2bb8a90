------------------------------ MODULE R13Search ------------------------------
(***************************************************************************)
(* Rung 13 (main.rs, forensics_rpc.rs, forensics.rs): whether somebody     *)
(* else traded a route atomically in the slots after it was quoted.        *)
(*                                                                         *)
(* The search waits for the window to mature, asks for the confirmed tip,  *)
(* pages backwards through the signatures of every pool, intersects the    *)
(* histories of a route's two pools, fetches the transactions left and     *)
(* looks for the two legs in them.  Every step is an RPC that may fail, and *)
(* each may be answered by another node; every step's answer is used with   *)
(* what an earlier one said.                                               *)
(***************************************************************************)
EXTENDS ForensicsPlan

CONSTANTS
    PageLimit,      \* SIGNATURE_PAGE_LIMIT
    MaxPages,       \* MAX_SIGNATURE_PAGES_PER_ADDRESS
    MaxFetches,     \* MAX_TRANSACTION_FETCHES
    MaxPolls,       \* polls that fit in R13_MATURITY_MAX_WAIT
    FreshNodes      \* no answer is older than one given before

ASSUME LimitAssumption ==
    /\ PageLimit \in Nat \ {0}
    /\ MaxPages \in Nat \ {0}
    /\ MaxFetches \in Nat
    /\ MaxPolls \in Nat \ {0}

ASSUME NodeAssumption == FreshNodes \in BOOLEAN

VARIABLES
    ledger,         \* the confirmed transactions, oldest first
    phase,
    polls,          \* poll_attempts
    newest,         \* newest tip seen so far, if no answer may be older
    confirmedTip,   \* confirmed_tip_slot
    unread,         \* addresses whose history is still to be read
    page,           \* the loop of fetch_address_history
    histories,      \* union_histories
    fetched,        \* transactions that were fetched
    verdict,        \* the status the artifact gives each route
    outcome,        \* how the run ended
    faults          \* whether a request failed or came back empty

vars == <<ledger, phase, polls, newest, confirmedTip, unread, page, histories, fetched,
          verdict, outcome, faults>>

Phases == {"maturity", "slot", "history", "analysis", "done"}

Positions == 1..(MaxLedger + 1)

\* The position after the last stands for a request without a cursor.
NoCursor == MaxLedger + 1

FirstPage == [before |-> NoCursor, seen |-> {}, count |-> 0]
Unavailable == [seen |-> {}, complete |-> FALSE]

Init ==
    /\ ledger \in Ledgers
    /\ phase = "maturity"
    /\ polls = 0
    /\ newest = 0
    /\ confirmedTip = 0
    /\ unread = {}
    /\ page = FirstPage
    /\ histories = [a \in Pools |-> Unavailable]
    /\ fetched = {}
    /\ verdict = [r \in Routes |-> "none"]
    /\ outcome = "running"
    /\ faults = FALSE
-----------------------------------------------------------------------------
(***************************************************************************)
(* Nodes                                                                   *)
(***************************************************************************)
\* A node with this tip answers.
Answers(tip) ==
    /\ FreshNodes => newest <= tip
    /\ newest' = IF FreshNodes /\ newest < tip THEN tip ELSE newest

\* What a node with this tip has of an address, below the cursor.  A node that
\* does not know the cursor's transaction has nothing before it.
Below(a, tip, before) ==
    IF before # NoCursor /\ tip < ledger[before].slot THEN {}
    ELSE {i \in DOMAIN ledger :
             i < before /\ a \in ledger[i].kind.touches /\ ledger[i].slot <= tip}

\* getSignaturesForAddress: the newest of them, as many as the limit allows.
PagesOf(a, tip, before) ==
    {p \in SUBSET Below(a, tip, before) :
        /\ \A i \in Below(a, tip, before) \ p, j \in p : i < j
        /\ \/ Cardinality(p) = PageLimit
           \/ Cardinality(p) < PageLimit /\ p = Below(a, tip, before)}

IsOldest(p, i) == i \in p /\ \A j \in p : i <= j
-----------------------------------------------------------------------------
(***************************************************************************)
(* wait_for_r13_window_maturity                                            *)
(***************************************************************************)
Poll(tip) ==
    /\ phase = "maturity"
    /\ polls < MaxPolls
    /\ Answers(tip)
    /\ polls' = polls + 1
    /\ phase' = IF Mature(tip) THEN "slot" ELSE phase
    /\ UNCHANGED <<ledger, confirmedTip, unread, page, histories, fetched, verdict, outcome,
                   faults>>

PollFails ==
    /\ phase = "maturity"
    /\ polls < MaxPolls
    /\ polls' = polls + 1
    /\ faults' = TRUE
    /\ UNCHANGED <<ledger, phase, newest, confirmedTip, unread, page, histories, fetched,
                   verdict, outcome>>

\* After the deadline every candidate is annotated and the run fails.
Deadline ==
    /\ phase = "maturity"
    /\ polls > 0
    /\ phase' = "done"
    /\ verdict' = [r \in Routes |-> "window_not_mature"]
    /\ outcome' = "failed"
    /\ UNCHANGED <<ledger, polls, newest, confirmedTip, unread, page, histories, fetched, faults>>

Maturity == (\E tip \in 0..MaxSlot : Poll(tip)) \/ PollFails \/ Deadline
-----------------------------------------------------------------------------
(***************************************************************************)
(* acquire_histories                                                       *)
(***************************************************************************)
GetSlot(tip) ==
    /\ phase = "slot"
    /\ Answers(tip)
    /\ confirmedTip' = tip
    /\ unread' = Pools
    /\ phase' = "history"
    /\ UNCHANGED <<ledger, polls, page, histories, fetched, verdict, outcome, faults>>

\* Without a tip no history is read.
GetSlotFails ==
    /\ phase = "slot"
    /\ phase' = "history"
    /\ faults' = TRUE
    /\ UNCHANGED <<ledger, polls, newest, confirmedTip, unread, page, histories, fetched,
                   verdict, outcome>>

\* The routes that ask for an address share one history, over the union of
\* their windows.
Asking(a) == {r \in Routes : a \in LegPools(r)}
AtUnionStart(a, slot) == \E r \in Asking(a) : StartSlot(r) <= slot
AtUnionEnd(a, slot) == \E r \in Asking(a) : slot <= EndSlot(r)
UnionEnds(a, tip) == \A r \in Asking(a) : EndSlot(r) <= tip

Retained(a, seen) ==
    {i \in seen : AtUnionStart(a, ledger[i].slot) /\ AtUnionEnd(a, ledger[i].slot)}

\* The addresses come in the order of a BTreeMap.
Current == CHOOSE a \in unread : TRUE

Reading == phase = "history" /\ unread # {}

\* Mutant: an address whose history is not complete is read again.
CloseIfComplete(history) ==
    /\ histories' = [histories EXCEPT ![Current] = history]
    /\ unread' = IF history.complete THEN unread \ {Current} ELSE unread
    /\ page' = FirstPage

\* The history of the current address is as it is, and the next one follows.
Close(history) ==
    /\ histories' = [histories EXCEPT ![Current] = history]
    /\ unread' = unread \ {Current}
    /\ page' = FirstPage

\* Mutant: a tip at the end of the window is refused.
TooLowAtEnd(a) == ~ \A r \in Asking(a) : EndSlot(r) < confirmedTip

TooLow(a) == ~ UnionEnds(a, confirmedTip)

TipTooLow ==
    /\ Reading
    /\ TooLow(Current)
    /\ Close(Unavailable)
    /\ UNCHANGED <<ledger, phase, polls, newest, confirmedTip, fetched, verdict, outcome, faults>>

\* Mutant: reaching the first slot of the window is taken for passing it.
ReachesStart(a, p) ==
    \/ p = {}
    \/ Cardinality(p) < PageLimit
    \/ \E i \in p : IsOldest(p, i) /\ ~ \E r \in Asking(a) : StartSlot(r) < ledger[i].slot

\* The page crosses the start of the window, or there is nothing before it.
Complete(a, p) ==
    \/ p = {}
    \/ Cardinality(p) < PageLimit
    \/ \E i \in p : IsOldest(p, i) /\ ~ AtUnionStart(a, ledger[i].slot)

\* Mutant: one page more than the bound.
OnePageMore == page.count = MaxPages

LastPage == page.count + 1 = MaxPages

ReadPage(tip) ==
    /\ Reading
    /\ ~ TooLow(Current)
    /\ Answers(tip)
    /\ \E p \in PagesOf(Current, tip, page.before) :
          LET seen == page.seen \cup p IN
          \/ /\ Complete(Current, p)
             /\ Close([seen |-> Retained(Current, seen), complete |-> TRUE])
          \/ /\ ~ Complete(Current, p)
             /\ LastPage
             /\ Close([seen |-> Retained(Current, seen), complete |-> FALSE])
          \/ /\ ~ Complete(Current, p)
             /\ ~ LastPage
             /\ \E i \in p :
                   /\ IsOldest(p, i)
                   /\ page' = [before |-> i, seen |-> seen, count |-> page.count + 1]
             /\ UNCHANGED <<histories, unread>>
    /\ UNCHANGED <<ledger, phase, polls, confirmedTip, fetched, verdict, outcome, faults>>

\* What the pages before held is dropped.
PageFails ==
    /\ Reading
    /\ ~ TooLow(Current)
    /\ Close(Unavailable)
    /\ faults' = TRUE
    /\ UNCHANGED <<ledger, phase, polls, newest, confirmedTip, fetched, verdict, outcome>>

Acquire ==
    \/ \E tip \in 0..MaxSlot : GetSlot(tip) \/ ReadPage(tip)
    \/ GetSlotFails
    \/ TipTooLow
    \/ PageFails
-----------------------------------------------------------------------------
(***************************************************************************)
(* intersect_route_histories and acquire_transactions                      *)
(***************************************************************************)
\* A request gets the part of the union history that lies in its own window.
Observed(r, a) == {i \in histories[a].seen : InWindow(r, ledger[i].slot)}

HistoriesComplete(r) == \A a \in LegPools(r) : histories[a].complete

Intersection(r) ==
    IF HistoriesComplete(r)
    THEN Observed(r, LegsOf[r][1].pool) \cap Observed(r, LegsOf[r][2].pool)
    ELSE {}

Required == UNION {Intersection(r) : r \in Routes}

\* Above the cap nothing is fetched; a transaction may be missing.
Fetch(got) ==
    /\ phase = "history"
    /\ unread = {}
    /\ phase' = "analysis"
    /\ IF Cardinality(Required) > MaxFetches
       THEN fetched' = {} /\ UNCHANGED faults
       ELSE fetched' = got /\ faults' = (faults \/ got # Required)
    /\ UNCHANGED <<ledger, polls, newest, confirmedTip, unread, page, histories, verdict, outcome>>
-----------------------------------------------------------------------------
(***************************************************************************)
(* analyze_transactions                                                    *)
(***************************************************************************)
\* match_leg: the swap is in the leg's pool, and in its direction if the
\* instruction says which; legacy Orca swaps do not.
MatchesLeg(leg, swap) ==
    /\ swap.pool = leg.pool
    /\ swap.proof = "instruction" => swap.input = leg.input

Proven(leg, swap) == swap.proof # "missing" /\ swap.input = leg.input

\* Mutant: the legs may come in either order.
LegPairsInAnyOrder(r, kind) ==
    {pair \in (DOMAIN kind.swaps) \X (DOMAIN kind.swaps) :
        /\ MatchesLeg(LegsOf[r][1], kind.swaps[pair[1]])
        /\ MatchesLeg(LegsOf[r][2], kind.swaps[pair[2]])}

\* Swaps that match the two legs, the first one executed before the second.
LegPairs(r, kind) ==
    {pair \in (DOMAIN kind.swaps) \X (DOMAIN kind.swaps) :
        /\ pair[1] < pair[2]
        /\ MatchesLeg(LegsOf[r][1], kind.swaps[pair[1]])
        /\ MatchesLeg(LegsOf[r][2], kind.swaps[pair[2]])}

Found(r, kind) ==
    \E pair \in LegPairs(r, kind) :
        /\ Proven(LegsOf[r][1], kind.swaps[pair[1]])
        /\ Proven(LegsOf[r][2], kind.swaps[pair[2]])

Unclear(r, kind) ==
    \E pair \in LegPairs(r, kind), k \in 1..2 : kind.swaps[pair[k]].proof = "missing"

\* match_transaction: a transaction that failed proves nothing, and one whose
\* venue or mints cannot be decided is an error.
Match(r, kind) ==
    IF ~ kind.ok THEN "none"
    ELSE IF ~ LegPools(r) \subseteq SupportedPools THEN "unresolved"
    ELSE IF Found(r, kind) THEN "matched"
    ELSE IF Unclear(r, kind) THEN "unresolved"
    ELSE "none"

\* Mutant: a transaction that could not be fetched is passed over.
UndecidedIfFetched(r) ==
    \E i \in Intersection(r) \cap fetched : Match(r, ledger[i].kind) = "unresolved"

\* Some transaction is missing or unresolved.
Undecided(r) ==
    \E i \in Intersection(r) : i \notin fetched \/ Match(r, ledger[i].kind) = "unresolved"

Status(r) ==
    IF ~ HistoriesComplete(r) \/ Undecided(r) THEN "search_incomplete"
    ELSE IF \E i \in Intersection(r) : Match(r, ledger[i].kind) = "matched"
    THEN "atomic_route_amounts_unresolved"
    ELSE "no_atomic_match_complete"

HistoryAcquired == confirmedTip # 0 /\ \A a \in Pools : histories[a].complete
TransactionsAcquired == fetched = Required

\* The artifact is written whatever the verdicts are; the run fails after it
\* if anything was incomplete.
Analyze ==
    /\ phase = "analysis"
    /\ phase' = "done"
    /\ verdict' = [r \in Routes |-> Status(r)]
    /\ outcome' = IF (\E r \in Routes : verdict'[r] = "search_incomplete")
                        \/ ~ HistoryAcquired \/ ~ TransactionsAcquired
                  THEN "failed" ELSE "passed"
    /\ UNCHANGED <<ledger, polls, newest, confirmedTip, unread, page, histories, fetched, faults>>

\* write_forensics_artifact fails.
WriteFails ==
    /\ \/ phase = "maturity" /\ polls > 0
       \/ phase = "analysis"
    /\ phase' = "done"
    /\ outcome' = "failed"
    /\ UNCHANGED <<ledger, polls, newest, confirmedTip, unread, page, histories, fetched, verdict,
                   faults>>

Next ==
    \/ Maturity
    \/ Acquire
    \/ \E got \in SUBSET Required : Fetch(got)
    \/ Analyze
    \/ WriteFails

Spec == Init /\ [][Next]_vars

\* Every request has a timeout and every wait a deadline, so a step that can be
\* taken is taken.
FairSpec == Spec /\ WF_vars(Next)
-----------------------------------------------------------------------------
TypeOK ==
    /\ ledger \in Ledgers
    /\ phase \in Phases
    /\ polls \in 0..MaxPolls
    /\ newest \in 0..MaxSlot
    /\ confirmedTip \in 0..MaxSlot
    /\ unread \subseteq Pools
    /\ page \in [before : Positions, seen : SUBSET Positions, count : 0..(MaxPages - 1)]
    /\ histories \in [Pools -> [seen : SUBSET Positions, complete : BOOLEAN]]
    /\ fetched \subseteq Positions
    /\ verdict \in [Routes -> {"none", "window_not_mature", "search_incomplete",
                               "no_atomic_match_complete", "atomic_route_amounts_unresolved"}]
    /\ outcome \in {"running", "passed", "failed"}
    /\ faults \in BOOLEAN

InHistory(a, i) ==
    /\ a \in ledger[i].kind.touches
    /\ AtUnionStart(a, ledger[i].slot) /\ AtUnionEnd(a, ledger[i].slot)

\* A history called complete has every transaction of the address in the union
\* of the windows that ask for it and no other, although it was put together
\* from pages that different nodes cut at different tips and that may end in
\* the middle of the slot the window starts with.
CompleteHistoryIsTotal ==
    \A a \in Pools :
        histories[a].complete =>
            histories[a].seen = {i \in DOMAIN ledger : InHistory(a, i)}

\* A match the artifact reports is a trade of that route, in that order, in the
\* route's own window, also if nodes lag behind each other.
FoundIsReal ==
    \A r \in Routes :
        verdict[r] = "atomic_route_amounts_unresolved" => TradedIn(r, ledger)

Saturates(a) ==
    Cardinality({i \in DOMAIN ledger :
                    a \in ledger[i].kind.touches /\ AtUnionStart(a, ledger[i].slot)})
        >= PageLimit * MaxPages

CapIsExceeded ==
    Cardinality({i \in DOMAIN ledger :
                    \E r \in Routes : /\ LegPools(r) \subseteq ledger[i].kind.touches
                                      /\ InWindow(r, ledger[i].slot)}) > MaxFetches

\* The search does not give up without need: a route is left undecided only if
\* a request failed, a bound was reached, or a transaction in the route's
\* window cannot be decided.
IncompleteHasCause ==
    \A r \in Routes :
        verdict[r] = "search_incomplete" =>
            \/ faults
            \/ \E a \in LegPools(r) : Saturates(a)
            \/ CapIsExceeded
            \/ \E i \in DOMAIN ledger :
                  InWindow(r, ledger[i].slot) /\ Match(r, ledger[i].kind) = "unresolved"

Oracle == INSTANCE ForensicsOracle

\* The search, with all its requests, does what ForensicsOracle does in one
\* look at the ledger: no trade of a route is ever reported as absent, none is
\* made up, and the run passes exactly if every route was decided.
ImplementsOracle == Oracle!Spec

\* The run ends, whatever the nodes answer.
SearchEnds == <>(phase = "done")
-----------------------------------------------------------------------------
(***************************************************************************)
(* The inductive invariant behind CompleteHistoryIsTotal and               *)
(* ImplementsOracle.                                                       *)
(***************************************************************************)
\* What was seen of an address lies in the ledger and names the address.
SeenIsInLedger ==
    /\ \A a \in Pools : histories[a].seen \subseteq DOMAIN ledger
    /\ page.seen \subseteq DOMAIN ledger
    /\ page.before # NoCursor => page.before \in DOMAIN ledger
    /\ Reading => \A i \in page.seen : Current \in ledger[i].kind.touches

\* The pages read so far hold everything from the cursor up to the confirmed
\* tip, and the nodes still to answer know the cursor.
PagesHaveNoGap ==
    /\ confirmedTip <= newest
    /\ page.before # NoCursor => ledger[page.before].slot <= newest
    /\ Reading =>
          \A i \in DOMAIN ledger :
              /\ Current \in ledger[i].kind.touches
              /\ page.before <= i
              /\ ledger[i].slot <= confirmedTip
              => i \in page.seen

\* The verdicts wait for the end of the run, and every step finds what the one
\* before it leaves.
RunIsOrdered ==
    /\ phase # "done" => outcome = "running" /\ verdict = [r \in Routes |-> "none"]
    /\ phase = "done" => outcome # "running"
    /\ phase \in {"maturity", "slot"} => \A a \in Pools : ~ histories[a].complete
    /\ phase = "analysis" => fetched \subseteq Required
    /\ ~ Reading => page = FirstPage
    /\ \A a \in Pools : histories[a].complete => confirmedTip # 0

Inductive ==
    /\ TypeOK
    /\ SeenIsInLedger
    /\ RunIsOrdered
    /\ FreshNodes => PagesHaveNoGap /\ CompleteHistoryIsTotal
=============================================================================

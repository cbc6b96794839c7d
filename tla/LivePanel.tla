----------------------------- MODULE LivePanel -----------------------------
(***************************************************************************)
(* The live signal panel of a product page: live-signal.js polls while the *)
(* tab can be seen, GET /api/live-signal reads events, recommendation and  *)
(* profile one after the other, and answers replace the panel in whatever  *)
(* order they arrive.  Ingest, background tasks and agent runs go on       *)
(* between the reads.                                                      *)
(***************************************************************************)
EXTENDS Naturals, FiniteSets

CONSTANTS
    Polls,          \* BOUND: requests under way at a time
    Threshold,      \* TRIGGER_COUNT_THRESHOLD
    MaxEvents,      \* BOUND: events of the user
    MaxRecs,        \* BOUND: recommendations generated
    MaxFailures     \* BOUND: requests lost or refused

ASSUME PanelAssumption ==
    /\ IsFiniteSet(Polls)
    /\ Threshold \in Nat \ {0}
    /\ MaxEvents \in Nat /\ MaxRecs \in Nat /\ MaxFailures \in Nat

VARIABLES
    stored,         \* events in catalog.events
    folded,         \* events folded into the profile so far
    base,           \* base[r]: folded when recommendation r was committed
    visible,        \* document.visibilityState
    switched,       \* a visibilitychange has been dispatched
    timer,          \* the variable timer is not null
    intervals,      \* interval timers the browser runs
    poll,           \* [Polls -> request], with the reads made so far
    panel,          \* what the page shows
    failures

serverVars == <<stored, folded, base>>
tabVars == <<visible, switched, timer, intervals>>
vars == <<stored, folded, base, visible, switched, timer, intervals, poll,
          panel, failures>>

Rec == 0..MaxRecs               \* 0: none yet

Answer == [feed : 0..MaxEvents, rec : Rec, since : 0..Threshold]

Blank == [feed |-> 0, rec |-> 0, since |-> 0]

Request == [pc : {"idle", "events", "rec", "profile", "answer"}, got : Answer]

NoRequest == [pc |-> "idle", got |-> Blank]

Current == CHOOSE r \in DOMAIN base : \A q \in DOMAIN base : q <= r

TypeOK ==
    /\ stored \in 0..MaxEvents /\ folded \in 0..stored
    /\ \E r \in Rec : base \in [0..r -> 0..folded]
    /\ visible \in BOOLEAN /\ switched \in BOOLEAN /\ timer \in BOOLEAN
    /\ intervals \in Nat
    /\ poll \in [Polls -> Request]
    /\ panel \in Answer
    /\ failures \in 0..MaxFailures

\* The template shows empty boxes and "0 / 3"; the script polls at once,
\* also in a tab that was opened in the background.
Init ==
    /\ stored = 0 /\ folded = 0
    /\ base = [r \in {0} |-> 0]
    /\ visible \in BOOLEAN
    /\ switched = FALSE
    /\ timer = TRUE /\ intervals = 1
    /\ \E p \in Polls :
          poll = [q \in Polls |->
                     IF q = p THEN [pc |-> "events", got |-> Blank]
                     ELSE NoRequest]
    /\ panel = Blank
    /\ failures = 0

-----------------------------------------------------------------------------
(* The rest of the system, as far as the panel can see it.                 *)

\* ingest stores a batch and answers
Store ==
    /\ stored < MaxEvents
    /\ stored' = stored + 1
    /\ UNCHANGED <<folded, base, poll, panel, failures>>
    /\ UNCHANGED tabVars

\* its background task folds it into the profile, and counts it, later
Fold ==
    /\ folded < stored
    /\ folded' = folded + 1
    /\ UNCHANGED <<stored, base, poll, panel, failures>>
    /\ UNCHANGED tabVars

\* persist: the new recommendation and the counter back at 0, in one commit
Generate ==
    /\ Current < MaxRecs
    /\ folded > 0
    /\ base' = [r \in 0..(Current + 1) |->
                   IF r \in DOMAIN base THEN base[r] ELSE folded]
    /\ UNCHANGED <<stored, folded, poll, panel, failures>>
    /\ UNCHANGED tabVars

events_since_gen == folded - base[Current]

-----------------------------------------------------------------------------
(* The page.                                                               *)

Fetched(p) == [poll EXCEPT ![p] = [pc |-> "events", got |-> Blank]]

\* One interval of the timer is over
Tick(p) ==
    /\ intervals > 0
    /\ poll[p].pc = "idle"
    /\ poll' = Fetched(p)
    /\ UNCHANGED <<panel, failures>>
    /\ UNCHANGED serverVars
    /\ UNCHANGED tabVars

stop ==
    IF timer
    THEN timer' = FALSE /\ intervals' = intervals - 1
    ELSE UNCHANGED <<timer, intervals>>

Hide ==
    /\ visible
    /\ visible' = FALSE
    /\ switched' = TRUE
    /\ stop
    /\ UNCHANGED <<poll, panel, failures>>
    /\ UNCHANGED serverVars

SLIP_StartAlways(p) ==
    /\ poll[p].pc = "idle"
    /\ poll' = Fetched(p)
    /\ timer' = TRUE
    /\ intervals' = intervals + 1

SLIP_StartIdle(p) ==
    IF timer
    THEN UNCHANGED <<poll, timer, intervals>>
    ELSE /\ poll[p].pc = "idle"
         /\ poll' = Fetched(p)
         /\ UNCHANGED <<timer, intervals>>

\* poll at once, then every POLL_MS
start(p) ==
    IF timer
    THEN UNCHANGED <<poll, timer, intervals>>
    ELSE /\ poll[p].pc = "idle"
         /\ poll' = Fetched(p)
         /\ timer' = TRUE
         /\ intervals' = intervals + 1

Show(p) ==
    /\ ~visible
    /\ visible' = TRUE
    /\ switched' = TRUE
    /\ start(p)
    /\ UNCHANGED <<panel, failures>>
    /\ UNCHANGED serverVars

-----------------------------------------------------------------------------
(* GET /api/live-signal: three reads, each a transaction of its own.       *)

Read(p, from, to, answer) ==
    /\ poll[p].pc = from
    /\ poll' = [poll EXCEPT ![p] = [pc |-> to, got |-> answer]]
    /\ UNCHANGED <<panel, failures>>
    /\ UNCHANGED serverVars
    /\ UNCHANGED tabVars

recent_events(p, from, to) ==
    Read(p, from, to, [poll[p].got EXCEPT !.feed = stored])

get_current_recommendation(p, from, to) ==
    Read(p, from, to, [poll[p].got EXCEPT !.rec = Current])

\* "Progress toward next refresh" never passes the threshold
Clamped(count) == IF count > Threshold THEN Threshold ELSE count

get_profile(p, from, to) ==
    Read(p, from, to, [poll[p].got EXCEPT !.since = Clamped(events_since_gen)])

SLIP_ProfileFirst(p) ==
    \/ recent_events(p, "events", "profile")
    \/ get_profile(p, "profile", "rec")
    \/ get_current_recommendation(p, "rec", "answer")

live_signal(p) ==
    \/ recent_events(p, "events", "rec")
    \/ get_current_recommendation(p, "rec", "profile")
    \/ get_profile(p, "profile", "answer")

\* The answer replaces the whole panel; an older one may come after a newer
Render(p) ==
    /\ poll[p].pc = "answer"
    /\ panel' = poll[p].got
    /\ poll' = [poll EXCEPT ![p] = NoRequest]
    /\ UNCHANGED failures
    /\ UNCHANGED serverVars
    /\ UNCHANGED tabVars

\* The network, or a status other than 2xx: this poll changes nothing
Fail(p) ==
    /\ poll[p].pc # "idle"
    /\ failures < MaxFailures
    /\ failures' = failures + 1
    /\ poll' = [poll EXCEPT ![p] = NoRequest]
    /\ UNCHANGED panel
    /\ UNCHANGED serverVars
    /\ UNCHANGED tabVars

Handle(p) ==
    \/ live_signal(p)
    \/ Render(p)

Next ==
    \/ Store \/ Fold \/ Generate
    \/ Hide
    \/ \E p \in Polls : Tick(p) \/ Show(p) \/ Handle(p) \/ Fail(p)

\* Timers of a tab fire, and a request that is not lost is answered.
FairSpec ==
    /\ Init /\ [][Next]_vars
    /\ WF_vars(\E p \in Polls : Tick(p))
    /\ \A p \in Polls : WF_vars(Handle(p))

-----------------------------------------------------------------------------
(* Properties                                                              *)

\* However a tab is loaded, hidden and shown, the browser runs no interval
\* that start and stop have lost sight of, and never two of them.  "Pauses
\* while the tab is hidden" is true from the first change of visibility on; a
\* tab opened in the background polls until then.
PollingFollowsTheTab ==
    /\ intervals = IF timer THEN 1 ELSE 0
    /\ switched => (timer <=> visible)

\* The bar never tells of events that the recommendation beside it has
\* already used up, in no answer and hence never on the page, although the
\* two are read in different transactions and a run may commit in between.
BarBelongsToRecommendation ==
    LET Fits(a) == a.since <= folded - base[a.rec]
    IN  /\ Fits(panel)
        /\ \A p \in Polls : poll[p].pc = "answer" => Fits(poll[p].got)

\* A tab that stays in view ends up showing what the server has, whatever
\* requests were lost and in whatever order the answers came.
UpToDate ==
    panel = [feed |-> stored, rec |-> Current,
             since |-> Clamped(events_since_gen)]

PanelCatchesUp == <>[]visible => <>[]UpToDate
=============================================================================

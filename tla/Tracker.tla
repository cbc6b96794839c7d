------------------------------ MODULE Tracker ------------------------------
(***************************************************************************)
(* The browser half of event collection: one document running tracker.js.  *)
(*                                                                         *)
(* JavaScript handlers run to completion, so each is one action.  An event *)
(* is known by its number in the order of creation (its UUID in the code); *)
(* the order inside a batch does not matter, occurred_at restores it.      *)
(* A batch that was sent may arrive never, once or more often: what the    *)
(* server makes of that is RecommendationLoop's.                           *)
(***************************************************************************)
EXTENDS Integers, Sequences, FiniteSets

CONSTANTS
    MaxBuffer,      \* MAX_BUFFER, 10 in the code
    IngestLimit,    \* EventBatch's max_length, 50 in the code
    Milestones,     \* scroll depths that are reported
    MaxActs,        \* BOUND: events made by the visitor's clicks
    MaxCalls,       \* BOUND: calls of trackSearch
    MaxVisits       \* BOUND: times the page becomes visible

ASSUME TrackerAssumption ==
    /\ MaxBuffer \in Nat \ {0}
    /\ IngestLimit \in Nat /\ MaxBuffer <= IngestLimit
    /\ Milestones \subseteq Nat
    /\ MaxActs \in Nat /\ MaxCalls \in Nat /\ MaxVisits \in Nat \ {0}

VARIABLES
    visibility,     \* document.visibilityState
    lifecycle,      \* active, left (after pagehide, may be restored), closed
    made,           \* events created so far, by number
    sender,         \* buffer, flush timer, and the batches sent
    searchTimer,    \* the call of trackSearch that waits, 0: none
    calls,          \* calls of trackSearch with a query so far
    dwell,          \* dwellStart: null, or how long ago
    visits,         \* times the page became visible
    seenMilestones

page == <<visibility, lifecycle>>
vars == <<visibility, lifecycle, made, sender, searchTimer, calls, dwell,
          visits, seenMilestones>>

\* What an event says: of is the search call, the scroll milestone or the
\* visit it reports; clicks, views and cart events need none.
Signal ==
    [kind : {"act", "search", "scroll", "dwell"}, of : Nat]

Sender ==
    [buffer : SUBSET Nat, flushTimer : BOOLEAN, sent : SUBSET (SUBSET Nat)]

TypeOK ==
    /\ visibility \in {"visible", "hidden"}
    /\ lifecycle \in {"active", "left", "closed"}
    /\ made \in Seq(Signal)
    /\ sender \in Sender
    /\ searchTimer \in Nat
    /\ calls \in Nat
    /\ dwell \in {"null", "brief", "long"}
    /\ visits \in Nat
    /\ seenMilestones \subseteq Milestones

-----------------------------------------------------------------------------
SLIP_FlushKeepsBuffer(s) ==
    IF s.buffer = {} THEN s
    ELSE [buffer |-> s.buffer, flushTimer |-> s.flushTimer,
          sent |-> s.sent \cup {s.buffer}]

\* flush: the whole buffer becomes one batch, by beacon or by fetch
Flush(s) ==
    IF s.buffer = {} THEN s
    ELSE [buffer |-> {}, flushTimer |-> s.flushTimer,
          sent |-> s.sent \cup {s.buffer}]

SLIP_PushNeverFull(s, e) ==
    [buffer |-> s.buffer \cup {e}, flushTimer |-> TRUE, sent |-> s.sent]

SLIP_PushForgetsTimer(s, e) ==
    LET b == s.buffer \cup {e}
    IN  IF Cardinality(b) >= MaxBuffer
        THEN Flush([buffer |-> b, flushTimer |-> s.flushTimer, sent |-> s.sent])
        ELSE [buffer |-> b, flushTimer |-> s.flushTimer, sent |-> s.sent]

\* push: a full buffer goes at once and leaves the timer as it is,
\* otherwise scheduleFlush arms the timer unless it runs already
Push(s, e) ==
    LET b == s.buffer \cup {e}
    IN  IF Cardinality(b) >= MaxBuffer
        THEN Flush([buffer |-> b, flushTimer |-> s.flushTimer, sent |-> s.sent])
        ELSE [buffer |-> b, flushTimer |-> TRUE, sent |-> s.sent]

NewEvent == Len(made) + 1

Act == [kind |-> "act", of |-> 0]

\* makeEvent and push, as the last thing a handler does
Emit(kind, of) ==
    /\ made' = Append(made, [kind |-> kind, of |-> of])
    /\ sender' = Push(sender, NewEvent)

Alive == lifecycle = "active"

-----------------------------------------------------------------------------
\* A document may be loaded in a background tab.
Init ==
    /\ visibility \in {"visible", "hidden"}
    /\ lifecycle = "active"
    /\ made = <<>>
    /\ sender = [buffer |-> {}, flushTimer |-> FALSE, sent |-> {}]
    /\ searchTimer = 0
    /\ calls = 0
    /\ dwell = IF visibility = "visible" THEN "brief" ELSE "null"
    /\ visits = 1
    /\ seenMilestones = {}

\* trackProductView, trackDismiss, or a click inside [data-product-id]
TrackOne ==
    /\ Alive
    /\ Len(made) < MaxActs
    /\ Emit("act", 0)
    /\ UNCHANGED <<page, searchTimer, calls, dwell, visits, seenMilestones>>

\* Two listeners for one click: the delegated one, then the card's own
\* trackClick (catalog.html) or the cart button's trackAddToCart (product.html)
TrackTwo ==
    /\ Alive
    /\ Len(made) + 1 < MaxActs
    /\ made' = Append(Append(made, Act), Act)
    /\ sender' = Push(Push(sender, NewEvent), NewEvent + 1)
    /\ UNCHANGED <<page, searchTimer, calls, dwell, visits, seenMilestones>>

SLIP_SubmitKeepsTimer ==
    /\ Alive
    /\ calls < MaxCalls
    /\ calls' = calls + 1
    /\ Emit("search", calls')
    /\ UNCHANGED <<page, searchTimer, dwell, visits, seenMilestones>>

\* trackSearch: any waiting query is given up; a submitted one is reported
\* at once, a typed one when the debounce timer fires
SearchSubmitted ==
    /\ Alive
    /\ calls < MaxCalls
    /\ calls' = calls + 1
    /\ searchTimer' = 0
    /\ Emit("search", calls')
    /\ UNCHANGED <<page, dwell, visits, seenMilestones>>

SearchTyped ==
    /\ Alive
    /\ calls < MaxCalls
    /\ calls' = calls + 1
    /\ searchTimer' = calls'
    /\ UNCHANGED <<page, made, sender, dwell, visits, seenMilestones>>

SearchTimerFires ==
    /\ Alive
    /\ searchTimer # 0
    /\ Emit("search", searchTimer)
    /\ searchTimer' = 0
    /\ UNCHANGED <<page, calls, dwell, visits, seenMilestones>>

SLIP_TimerOnlyResets ==
    /\ Alive
    /\ sender.flushTimer
    /\ sender' = [sender EXCEPT !.flushTimer = FALSE]
    /\ UNCHANGED <<page, made, searchTimer, calls, dwell, visits,
                   seenMilestones>>

FlushTimerFires ==
    /\ Alive
    /\ sender.flushTimer
    /\ sender' = Flush([buffer |-> sender.buffer, flushTimer |-> FALSE,
                         sent |-> sender.sent])
    /\ UNCHANGED <<page, made, searchTimer, calls, dwell, visits,
                   seenMilestones>>

\* The scroll listener, when the throttle lets it through at a new milestone
Scroll(m) ==
    /\ Alive
    /\ m \notin seenMilestones
    /\ seenMilestones' = seenMilestones \cup {m}
    /\ Emit("scroll", m)
    /\ UNCHANGED <<page, searchTimer, calls, dwell, visits>>

\* The two seconds below which a visit is a drive-by
TimePasses ==
    /\ Alive
    /\ dwell = "brief"
    /\ dwell' = "long"
    /\ UNCHANGED <<page, made, sender, searchTimer, calls, visits,
                   seenMilestones>>

SLIP_FlushThenReport ==
    /\ dwell' = "null"
    /\ IF dwell = "long"
       THEN /\ made' = Append(made, [kind |-> "dwell", of |-> visits])
            /\ sender' = Push(Flush(sender), NewEvent)
       ELSE /\ made' = made
            /\ sender' = Flush(sender)

\* flushDwell, then flush(true): what both visibilitychange and pagehide run
ReportAndFlush ==
    /\ dwell' = "null"
    /\ IF dwell = "long"
       THEN /\ made' = Append(made, [kind |-> "dwell", of |-> visits])
            /\ sender' = Flush(Push(sender, NewEvent))
       ELSE /\ made' = made
            /\ sender' = Flush(sender)

\* visibilitychange to hidden; on leaving it follows pagehide
Hide ==
    /\ lifecycle # "closed"
    /\ visibility = "visible"
    /\ visibility' = "hidden"
    /\ ReportAndFlush
    /\ UNCHANGED <<lifecycle, searchTimer, calls, visits, seenMilestones>>

\* visibilitychange to visible: back to the tab, or restored from the cache
Show ==
    /\ lifecycle # "closed"
    /\ visibility = "hidden"
    /\ visits < MaxVisits
    /\ visibility' = "visible"
    /\ lifecycle' = "active"
    /\ dwell' = "brief"
    /\ visits' = visits + 1
    /\ UNCHANGED <<made, sender, searchTimer, calls, seenMilestones>>

PageHide ==
    /\ lifecycle = "active"
    /\ lifecycle' = "left"
    /\ ReportAndFlush
    /\ UNCHANGED <<visibility, searchTimer, calls, visits, seenMilestones>>

\* The document is destroyed: after pagehide, or killed with no event at all.
Close ==
    /\ lifecycle # "closed"
    /\ lifecycle' = "closed"
    /\ sender' = [buffer |-> {}, flushTimer |-> FALSE, sent |-> sender.sent]
    /\ searchTimer' = 0
    /\ dwell' = "null"
    /\ UNCHANGED <<visibility, made, calls, visits, seenMilestones>>

Next ==
    \/ TrackOne
    \/ TrackTwo
    \/ SearchSubmitted
    \/ SearchTyped
    \/ SearchTimerFires
    \/ FlushTimerFires
    \/ \E m \in Milestones : Scroll(m)
    \/ TimePasses
    \/ Hide
    \/ Show
    \/ PageHide
    \/ Close

Spec == Init /\ [][Next]_vars

\* The browser runs the timers of a document that is not frozen.
FairSpec ==
    /\ Spec
    /\ WF_vars(FlushTimerFires)
    /\ WF_vars(SearchTimerFires)

-----------------------------------------------------------------------------
(* Properties                                                              *)

\* An event is in at most one place: in the buffer or in one batch, never in
\* two batches (a timer, a full buffer and the page being left may each flush).
EachEventTravelsOnce ==
    /\ \A b \in sender.sent : b \cap sender.buffer = {}
    /\ \A b, c \in sender.sent : b = c \/ b \cap c = {}

\* No buffered event waits for ever: while the document runs, a timer is armed
\* whenever something is buffered, whichever flush or push came last.
BufferedMeansArmed ==
    Alive /\ sender.buffer # {} => sender.flushTimer

\* Every batch is one that the ingest endpoint accepts; one event too many
\* and the whole batch would be refused.
BatchesAreAccepted ==
    \A b \in sender.sent : Cardinality(b) \in 1..IngestLimit

\* A visit is reported as dwell once, though leaving the page fires both
\* pagehide and visibilitychange; a milestone once per document; a search call
\* once, and searches in the order they were made: a typed query that a later
\* call replaced is never reported after it.
NothingReportedTwice ==
    \A i, j \in DOMAIN made :
        /\ i < j
        /\ made[i].kind = made[j].kind
        => /\ made[i].kind \in {"scroll", "dwell"} => made[i].of # made[j].of
           /\ made[i].kind = "search" => made[i].of < made[j].of

\* A document that was left holds nothing back: what was tracked before
\* pagehide is on its way, the visit included, and a hidden document has no
\* visit open.
LeavingTakesAll ==
    /\ lifecycle = "left" => sender.buffer = {} /\ dwell = "null"
    /\ visibility = "hidden" => dwell = "null"

\* Every buffered event is sent, or lost with its document; a typed query is
\* reported or replaced as long as the document runs.
EveryEventLeaves ==
    /\ \A e \in 1..(MaxActs + MaxCalls + MaxVisits + Cardinality(Milestones)) :
           e \in sender.buffer ~> e \notin sender.buffer
    /\ \A c \in 1..MaxCalls : searchTimer = c ~> (searchTimer # c \/ ~Alive)
=============================================================================

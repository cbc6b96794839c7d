---------------------------- MODULE SignalFeed ----------------------------
(***************************************************************************)
(* humanize_events: recent events, newest first, become the rows of the    *)
(* live signal panel.  One step per turn of its loop.  Events that render  *)
(* to nothing are skipped, and runs of the same text within a window of    *)
(* the newest of them collapse into one row with a count.                  *)
(***************************************************************************)
EXTENDS Integers, Sequences, FiniteSets

CONSTANTS
    Types,          \* event types, among them "scroll"
    Details,        \* titles, quoted queries, dwell times
    NoDetail,       \* nothing to say: product gone, empty query, no path
    Window,         \* _COLLAPSE_WINDOW_SECONDS
    MaxTime,        \* BOUND: times events occur at
    FeedLimit       \* FEED_LIMIT, 8 in the code

ASSUME FeedAssumption ==
    /\ NoDetail \notin Details
    /\ Window \in Nat /\ MaxTime \in Nat /\ FeedLimit \in Nat

VARIABLES
    events,         \* what recent_events returned
    done,           \* turns of the loop so far
    feed,           \* rows; newest_at and count are the parallel groups list
    rowOf           \* history: the row each event went into, 0: none

vars == <<events, done, feed, rowOf>>

Event == [type : Types, detail : Details \cup {NoDetail}, at : 0..MaxTime]

\* Rendered text: _LABELS shows both kinds of view alike, scroll has none
Label(type) == IF type \in {"page_view", "product_view"} THEN "Viewed" ELSE type

Visible(e) == e.type # "scroll" /\ e.detail # NoDetail

Rendered(e) == <<Label(e.type), e.detail>>

Row == [text : {Label(t) : t \in Types} \X Details, newest_at : 0..MaxTime,
        count : Nat \ {0}, is_latest : BOOLEAN]

TypeOK ==
    /\ events \in Seq(Event)
    /\ done \in 0..Len(events)
    /\ feed \in Seq(Row)
    /\ rowOf \in [1..done -> 0..Len(feed)]

-----------------------------------------------------------------------------
\* recent_events orders by occurred_at, newest first
NewestFirst(s) == \A i, j \in DOMAIN s : i < j => s[i].at >= s[j].at

Init ==
    /\ \E n \in 0..FeedLimit : events \in [1..n -> Event]
    /\ NewestFirst(events)
    /\ done = 0
    /\ feed = <<>>
    /\ rowOf = <<>>

Current == events[done + 1]
LastRow == feed[Len(feed)]

SLIP_InWindowStrict(e) ==
    /\ feed # <<>>
    /\ LastRow.text = Rendered(e)
    /\ LastRow.newest_at - e.at < Window

\* Same text, and not too long before the newest event of the last row
Collapses(e) ==
    /\ feed # <<>>
    /\ LastRow.text = Rendered(e)
    /\ LastRow.newest_at - e.at <= Window

Advance(row) ==
    /\ done' = done + 1
    /\ rowOf' = Append(rowOf, row)
    /\ events' = events

Skip ==
    /\ done < Len(events)
    /\ ~Visible(Current)
    /\ Advance(0)
    /\ feed' = feed

SLIP_CollapseUncounted ==
    /\ done < Len(events)
    /\ Visible(Current)
    /\ Collapses(Current)
    /\ Advance(Len(feed))
    /\ feed' = feed

Collapse ==
    /\ done < Len(events)
    /\ Visible(Current)
    /\ Collapses(Current)
    /\ Advance(Len(feed))
    /\ feed' = [feed EXCEPT ![Len(feed)] =
                    [text |-> LastRow.text, newest_at |-> LastRow.newest_at,
                     count |-> LastRow.count + 1, is_latest |-> LastRow.is_latest]]

SLIP_LatestByIndex ==
    /\ done < Len(events)
    /\ Visible(Current)
    /\ ~Collapses(Current)
    /\ Advance(Len(feed) + 1)
    /\ feed' = Append(feed, [text |-> Rendered(Current), newest_at |-> Current.at,
                             count |-> 1, is_latest |-> done = 0])

NewRow ==
    /\ done < Len(events)
    /\ Visible(Current)
    /\ ~Collapses(Current)
    /\ Advance(Len(feed) + 1)
    /\ feed' = Append(feed, [text |-> Rendered(Current), newest_at |-> Current.at,
                             count |-> 1, is_latest |-> feed = <<>>])

Next == Skip \/ Collapse \/ NewRow

Spec == Init /\ [][Next]_vars

-----------------------------------------------------------------------------
(* Properties                                                              *)

Members(r) == {i \in 1..done : rowOf[i] = r}

\* No event is lost and none invented: a visible event is counted in exactly
\* one row, which shows its text; hidden ones in none; counts are exact.
EveryEventIsShown ==
    /\ \A i \in 1..done :
           IF Visible(events[i])
           THEN rowOf[i] # 0 /\ feed[rowOf[i]].text = Rendered(events[i])
           ELSE rowOf[i] = 0
    /\ \A r \in 1..Len(feed) : feed[r].count = Cardinality(Members(r))

\* A row is a run: its events lie within the window of its newest, none of
\* them is newer, and no row takes an event older than one of a later row.
RowsAreRuns ==
    /\ \A i \in 1..done : rowOf[i] # 0 =>
           feed[rowOf[i]].newest_at - events[i].at \in 0..Window
    /\ \A i, j \in 1..done : i < j /\ rowOf[i] # 0 /\ rowOf[j] # 0 =>
           rowOf[i] <= rowOf[j]

\* And rows are as long as they can be: two neighbours with the same text
\* are more than the window apart.
RowsAreMaximal ==
    \A r \in 1..(Len(feed) - 1) :
        feed[r].text = feed[r + 1].text =>
            feed[r].newest_at - feed[r + 1].newest_at > Window

\* Rows are the runs of events of one text, none split without need.
RowsAreMaximalRuns == RowsAreRuns /\ RowsAreMaximal

\* Only the row of the newest visible event is highlighted, also when events
\* that are not shown come first.
OnlyTheFirstIsLatest ==
    \A r \in 1..Len(feed) : feed[r].is_latest <=> r = 1
=============================================================================

------------------------- MODULE SignalFeed_proofs -------------------------
(***************************************************************************)
(* humanize_events is right for every list of events that comes newest     *)
(* first: every visible event is counted in exactly one row, rows are runs *)
(* within the window, and as long as they can be.  The loop invariant adds *)
(* to the properties that no event still to come is newer than a row.      *)
(***************************************************************************)
EXTENDS SignalFeed, TLAPS, FiniteSetTheorems

IInv ==
    /\ TypeOK
    /\ NewestFirst(events)
    /\ \A r \in 1..Len(feed), k \in (done + 1)..Len(events) :
           feed[r].newest_at >= events[k].at
    /\ EveryEventIsShown
    /\ RowsAreRuns
    /\ RowsAreMaximal
    /\ OnlyTheFirstIsLatest

USE FeedAssumption

-----------------------------------------------------------------------------
(* Sequences and rows                                                      *)

\* What Append does, in terms of positions.
LEMMA AppendPositions ==
    ASSUME NEW S, NEW s \in Seq(S), NEW x \in S
    PROVE  /\ Append(s, x) \in Seq(S)
           /\ Len(s) \in Nat /\ Len(Append(s, x)) = Len(s) + 1
           /\ Append(s, x)[Len(s) + 1] = x
           /\ \A i \in 1..Len(s) : Append(s, x)[i] = s[i]
  OBVIOUS

\* Facts about the event at hand that every turn uses.
LEMMA CurrentFacts ==
    ASSUME IInv, done < Len(events)
    PROVE  /\ done \in Nat /\ done + 1 \in 1..Len(events) /\ Len(events) \in Nat
           /\ Current = events[done + 1] /\ Current \in Event /\ Current.at \in 0..MaxTime
           /\ Len(feed) \in Nat
           /\ \A i \in 1..done : rowOf[i] \in 0..Len(feed) /\ events[i] \in Event
           /\ \A k \in (done + 1)..Len(events) : events[k] \in Event
           /\ \A k \in (done + 2)..Len(events) :
                  Current.at >= events[k].at /\ events[k].at \in 0..MaxTime
           /\ \A r \in 1..Len(feed) : feed[r] \in Row /\ feed[r].newest_at \in 0..MaxTime
  <1>1. /\ events \in Seq(Event) /\ done \in 0..Len(events) /\ feed \in Seq(Row)
        /\ rowOf \in [1..done -> 0..Len(feed)] /\ NewestFirst(events)
    BY DEF IInv, TypeOK
  <1>2. done \in Nat /\ done + 1 \in 1..Len(events) /\ Len(events) \in Nat /\ Len(feed) \in Nat
    BY <1>1
  <1>3. \A i \in 1..Len(events) : events[i] \in Event /\ events[i].at \in 0..MaxTime
    <2>1. \A i \in 1..Len(events) : events[i] \in Event
      BY <1>1
    <2>2. \A e \in Event : e.at \in 0..MaxTime
      BY DEF Event
    <2> QED BY <2>1, <2>2
  <1>4. \A k \in (done + 2)..Len(events) : Current.at >= events[k].at
    BY <1>1, <1>2 DEF NewestFirst, Current
  <1>5. \A r \in 1..Len(feed) : feed[r] \in Row /\ feed[r].newest_at \in 0..MaxTime
    <2>1. \A r \in 1..Len(feed) : feed[r] \in Row
      BY <1>1
    <2>2. \A w \in Row : w.newest_at \in 0..MaxTime
      BY DEF Row
    <2> QED BY <2>1, <2>2
  <1> QED BY <1>1, <1>2, <1>3, <1>4, <1>5 DEF Current

\* rowOf after a turn that puts the event into row r of n rows.
LEMMA AdvanceFacts ==
    ASSUME IInv, done < Len(events), NEW n \in Nat, NEW r \in 0..n,
           Len(feed) <= n, Advance(r)
    PROVE  /\ done' = done + 1 /\ events' = events
           /\ done' \in 0..Len(events')
           /\ rowOf' \in [1..done' -> 0..n]
           /\ rowOf'[done + 1] = r
           /\ \A i \in 1..done : rowOf'[i] = rowOf[i]
  <1>1. rowOf \in [1..done -> 0..Len(feed)] /\ done \in Nat /\ Len(feed) \in Nat /\ Len(events) \in Nat
    BY CurrentFacts DEF IInv, TypeOK
  <1>2. rowOf \in Seq(0..n) /\ Len(rowOf) = done
    <2>1. rowOf \in [1..done -> 0..n]
      BY <1>1
    <2> QED BY <1>1, <2>1
  <1>3. rowOf' = Append(rowOf, r) /\ done' = done + 1 /\ events' = events
    BY DEF Advance
  <1>4. rowOf' \in Seq(0..n) /\ Len(rowOf') = done + 1
    BY <1>2, <1>3, AppendPositions
  <1>5. rowOf' \in [1..done' -> 0..n]
    <2>1. \A s \in Seq(0..n) : s \in [1..Len(s) -> 0..n]
      OBVIOUS
    <2> QED BY <1>3, <1>4, <2>1
  <1> QED BY <1>1, <1>2, <1>3, <1>5, AppendPositions

\* The members of a row grow by the event at hand, or stay.
LEMMA MembersFacts ==
    ASSUME IInv, done < Len(events), NEW n \in Nat, NEW r \in 0..n,
           Len(feed) <= n, Advance(r), NEW q \in 1..n
    PROVE  /\ IsFiniteSet(Members(q))
           /\ q # r => Members(q)' = Members(q)
           /\ q = r => Cardinality(Members(q)') = Cardinality(Members(q)) + 1
           /\ q > Len(feed) => Members(q) = {}
  <1>1. done \in Nat /\ Len(feed) \in Nat /\ \A i \in 1..done : rowOf[i] \in 0..Len(feed)
    BY CurrentFacts
  <1>2. done' = done + 1 /\ rowOf'[done + 1] = r /\ \A i \in 1..done : rowOf'[i] = rowOf[i]
    BY AdvanceFacts
  <1>3. Members(q) \subseteq 1..done /\ done + 1 \notin Members(q)
    BY <1>1 DEF Members
  <1>4. IsFiniteSet(Members(q))
    <2>1. IsFiniteSet(1..done)
      BY <1>1, FS_Interval
    <2> QED BY <1>3, <2>1, FS_Subset
  <1>5. Members(q)' = IF q = r THEN Members(q) \cup {done + 1} ELSE Members(q)
    <2>1. Members(q)' = {i \in 1..(done + 1) : rowOf'[i] = q}
      BY <1>2 DEF Members
    <2> QED BY <1>1, <1>2, <2>1 DEF Members
  <1>6. q = r => Cardinality(Members(q)') = Cardinality(Members(q)) + 1
    BY <1>3, <1>4, <1>5, FS_AddElement
  <1>7. q > Len(feed) => Members(q) = {}
    BY <1>1 DEF Members
  <1> QED BY <1>4, <1>5, <1>6, <1>7

-----------------------------------------------------------------------------
(* The turns of the loop                                                   *)

LEMMA InitIInv == Init => IInv
  <1> SUFFICES ASSUME Init PROVE IInv
    OBVIOUS
  <1>1. Len(feed) = 0 /\ feed \in Seq(Row) /\ done = 0 /\ 1..done = {} /\ rowOf \in [1..0 -> 0..0]
    BY DEF Init
  <1>2. events \in Seq(Event) /\ NewestFirst(events)
    <2>1. PICK n \in 0..FeedLimit : events \in [1..n -> Event]
      BY DEF Init
    <2>2. events \in Seq(Event)
      BY <2>1
    <2> QED BY <2>2 DEF Init
  <1>3. Len(events) \in Nat
    BY <1>2
  <1>4. TypeOK
    BY <1>1, <1>2, <1>3 DEF TypeOK
  <1> QED BY <1>1, <1>2, <1>4
          DEF IInv, EveryEventIsShown, RowsAreRuns, RowsAreMaximal, OnlyTheFirstIsLatest

LEMMA SkipIInv == IInv /\ Skip => IInv'
  <1> SUFFICES ASSUME IInv, Skip PROVE IInv'
    OBVIOUS
  <1>1. done < Len(events) /\ ~Visible(Current) /\ Advance(0) /\ feed' = feed
    BY DEF Skip
  <1>2. /\ done' = done + 1 /\ events' = events /\ done' \in 0..Len(events')
        /\ rowOf' \in [1..done' -> 0..Len(feed)]
        /\ rowOf'[done + 1] = 0
        /\ \A i \in 1..done : rowOf'[i] = rowOf[i]
    BY <1>1, AdvanceFacts, CurrentFacts
  <1>3. done \in Nat /\ Current = events[done + 1] /\ Len(events) \in Nat /\ Len(feed) \in Nat
    BY <1>1, CurrentFacts
  <1>4. TypeOK'
    BY <1>1, <1>2 DEF IInv, TypeOK
  <1>5. NewestFirst(events)'
        /\ \A r \in 1..Len(feed'), k \in (done' + 1)..Len(events') :
               feed'[r].newest_at >= events'[k].at
    BY <1>1, <1>2, <1>3 DEF IInv, NewestFirst
  <1>6. EveryEventIsShown'
    <2>1. \A r \in 1..Len(feed) : Members(r)' = Members(r)
      <3>1. \A r \in 1..Len(feed) : r # 0
        OBVIOUS
      <3> QED BY <1>1, <1>3, <3>1, MembersFacts
    <2>2. \A i \in 1..(done + 1) : i \in 1..done \/ i = done + 1
      BY <1>3
    <2> QED BY <1>1, <1>2, <1>3, <2>1, <2>2 DEF IInv, EveryEventIsShown, Visible, Rendered, Label
  <1>7. RowsAreRuns'
    <2>1. \A i \in 1..(done + 1) : i \in 1..done \/ i = done + 1
      BY <1>3
    <2> QED BY <1>1, <1>2, <1>3, <2>1 DEF IInv, RowsAreRuns
  <1>8. RowsAreMaximal' /\ OnlyTheFirstIsLatest'
    BY <1>1 DEF IInv, RowsAreMaximal, OnlyTheFirstIsLatest
  <1> QED BY <1>4, <1>5, <1>6, <1>7, <1>8 DEF IInv

LEMMA CollapseIInv == IInv /\ Collapse => IInv'
  <1> SUFFICES ASSUME IInv, Collapse PROVE IInv'
    OBVIOUS
  <1> DEFINE n == Len(feed)
             w == [text |-> LastRow.text, newest_at |-> LastRow.newest_at,
                   count |-> LastRow.count + 1, is_latest |-> LastRow.is_latest]
  <1>1. /\ done < Len(events) /\ Visible(Current) /\ Collapses(Current) /\ Advance(n)
        /\ feed' = [feed EXCEPT ![n] = w]
    BY DEF Collapse
  <1>2. /\ done \in Nat /\ Current = events[done + 1] /\ Len(events) \in Nat /\ n \in Nat
        /\ Current \in Event /\ Current.at \in 0..MaxTime
        /\ feed \in Seq(Row) /\ \A r \in 1..n : feed[r] \in Row /\ feed[r].newest_at \in 0..MaxTime
        /\ \A i \in 1..done : rowOf[i] \in 0..n
    BY <1>1, CurrentFacts DEF IInv, TypeOK
  <1>3. n # 0 /\ n \in 1..n /\ LastRow = feed[n]
    BY <1>1, <1>2 DEF Collapses, LastRow
  <1>4. /\ done' = done + 1 /\ events' = events /\ done' \in 0..Len(events')
        /\ rowOf' \in [1..done' -> 0..n]
        /\ rowOf'[done + 1] = n
        /\ \A i \in 1..done : rowOf'[i] = rowOf[i]
    BY <1>1, <1>2, AdvanceFacts
  <1>5. w \in Row
    <2>1. \A x \in Row : [text |-> x.text, newest_at |-> x.newest_at,
                          count |-> x.count + 1, is_latest |-> x.is_latest] \in Row
      BY DEF Row
    <2> QED BY <1>2, <1>3, <2>1
  <1>6. /\ feed' \in Seq(Row) /\ Len(feed') = n
        /\ feed'[n] = w /\ \A r \in 1..n : r # n => feed'[r] = feed[r]
    BY <1>1, <1>2, <1>3, <1>5
  <1>7. \A r \in 1..n : /\ feed'[r].text = feed[r].text
                         /\ feed'[r].newest_at = feed[r].newest_at
                         /\ feed'[r].is_latest = feed[r].is_latest
                         /\ feed'[r].count = feed[r].count + (IF r = n THEN 1 ELSE 0)
    <2> SUFFICES ASSUME NEW r \in 1..n
                 PROVE  /\ feed'[r].text = feed[r].text
                        /\ feed'[r].newest_at = feed[r].newest_at
                        /\ feed'[r].is_latest = feed[r].is_latest
                        /\ feed'[r].count = feed[r].count + (IF r = n THEN 1 ELSE 0)
      OBVIOUS
    <2>1. CASE r = n
      BY <1>3, <1>6, <2>1
    <2>2. CASE r # n
      <3>1. feed'[r] = feed[r] /\ feed[r].count \in Nat
        BY <1>2, <1>6, <2>2 DEF Row
      <3> QED BY <2>2, <3>1
    <2> QED BY <2>1, <2>2
  <1>8. \A i \in 1..(done + 1) : i \in 1..done \/ i = done + 1
    BY <1>2
  <1> HIDE DEF w
  <1>9. TypeOK'
    BY <1>4, <1>6 DEF IInv, TypeOK
  <1>10. NewestFirst(events)'
         /\ \A r \in 1..Len(feed'), k \in (done' + 1)..Len(events') :
                feed'[r].newest_at >= events'[k].at
    <2>1. \A k \in (done + 2)..Len(events) : k \in (done + 1)..Len(events)
      BY <1>2
    <2> QED BY <1>2, <1>4, <1>6, <1>7, <2>1 DEF IInv, NewestFirst
  <1>11. EveryEventIsShown'
    <2>1. \A r \in 1..n : r # n => Members(r)' = Members(r)
      BY <1>1, <1>2, <1>3, MembersFacts
    <2>2. \A r \in 1..n : r = n => Cardinality(Members(r)') = Cardinality(Members(r)) + 1
      BY <1>1, <1>2, <1>3, MembersFacts
    <2>3. \A r \in 1..n : feed'[r].count = Cardinality(Members(r)')
      <3>1. \A r \in 1..n : feed[r].count = Cardinality(Members(r))
        BY DEF IInv, EveryEventIsShown
      <3>2. feed[n].count \in Nat
        BY <1>2, <1>3 DEF Row
      <3> SUFFICES ASSUME NEW r \in 1..n PROVE feed'[r].count = Cardinality(Members(r)')
        OBVIOUS
      <3>3. CASE r = n
        <4>1. feed'[r].count = feed[r].count + 1
          BY <1>7, <3>3
        <4> QED BY <2>2, <3>1, <3>3, <4>1
      <3>4. CASE r # n
        <4>1. feed'[r] = feed[r]
          BY <1>6, <3>4
        <4> QED BY <2>1, <3>1, <3>4, <4>1
      <3> QED BY <3>3, <3>4
    <2>4. feed[n].text = Rendered(Current)
      BY <1>1, <1>3 DEF Collapses
    <2>5. \A i \in 1..done : IF Visible(events[i])
             THEN rowOf'[i] # 0 /\ feed'[rowOf'[i]].text = Rendered(events[i])
             ELSE rowOf'[i] = 0
      <3> SUFFICES ASSUME NEW i \in 1..done
                   PROVE  IF Visible(events[i])
                          THEN rowOf'[i] # 0 /\ feed'[rowOf'[i]].text = Rendered(events[i])
                          ELSE rowOf'[i] = 0
        OBVIOUS
      <3>1. IF Visible(events[i])
            THEN rowOf[i] # 0 /\ feed[rowOf[i]].text = Rendered(events[i])
            ELSE rowOf[i] = 0
        BY DEF IInv, EveryEventIsShown
      <3>2. rowOf'[i] = rowOf[i] /\ rowOf[i] \in 0..n
        BY <1>2, <1>4
      <3> QED BY <1>2, <1>7, <3>1, <3>2
    <2>6. Visible(events[done + 1]) /\ rowOf'[done + 1] # 0
          /\ feed'[rowOf'[done + 1]].text = Rendered(events[done + 1])
      BY <1>1, <1>2, <1>3, <1>4, <1>7, <2>4
    <2>7. \A i \in 1..(done + 1) : IF Visible(events[i])
             THEN rowOf'[i] # 0 /\ feed'[rowOf'[i]].text = Rendered(events[i])
             ELSE rowOf'[i] = 0
      BY <1>8, <2>5, <2>6
    <2> QED BY <1>4, <1>6, <2>3, <2>7 DEF EveryEventIsShown, Visible, Rendered, Label
  <1>12. RowsAreRuns'
    <2>1. LastRow.newest_at - Current.at \in 0..Window
      <3>1. feed[n].newest_at >= events[done + 1].at
        <4>1. done + 1 \in (done + 1)..Len(events)
          BY <1>1, <1>2
        <4> QED BY <1>3, <4>1 DEF IInv
      <3> QED BY <1>1, <1>2, <1>3, <3>1 DEF Collapses
    <2>2. \A i \in 1..(done + 1) : rowOf'[i] # 0 =>
             feed'[rowOf'[i]].newest_at - events[i].at \in 0..Window
      <3> SUFFICES ASSUME NEW i \in 1..(done + 1), rowOf'[i] # 0
                   PROVE  feed'[rowOf'[i]].newest_at - events[i].at \in 0..Window
        OBVIOUS
      <3>1. CASE i = done + 1
        BY <1>2, <1>3, <1>4, <1>7, <2>1, <3>1
      <3>2. CASE i \in 1..done
        <4>1. rowOf'[i] = rowOf[i] /\ rowOf[i] \in 1..n
          BY <1>2, <1>4, <3>2
        <4> QED BY <1>7, <3>2, <4>1 DEF IInv, RowsAreRuns
      <3> QED BY <1>8, <3>1, <3>2
    <2>3. \A i, j \in 1..(done + 1) : i < j /\ rowOf'[i] # 0 /\ rowOf'[j] # 0 =>
             rowOf'[i] <= rowOf'[j]
      <3> SUFFICES ASSUME NEW i \in 1..(done + 1), NEW j \in 1..(done + 1),
                          i < j, rowOf'[i] # 0, rowOf'[j] # 0
                   PROVE  rowOf'[i] <= rowOf'[j]
        OBVIOUS
      <3>1. i \in 1..done /\ rowOf'[i] = rowOf[i] /\ rowOf[i] \in 0..n
        BY <1>2, <1>4
      <3>2. CASE j = done + 1
        BY <1>2, <1>4, <3>1, <3>2
      <3>3. CASE j \in 1..done
        BY <1>4, <3>1, <3>3 DEF IInv, RowsAreRuns
      <3> QED BY <1>8, <3>2, <3>3
    <2> QED BY <1>4, <2>2, <2>3 DEF RowsAreRuns
  <1>13. RowsAreMaximal'
    <2>1. \A r \in 1..(n - 1) : r \in 1..n /\ r + 1 \in 1..n
      BY <1>2
    <2> QED BY <1>6, <1>7, <2>1 DEF IInv, RowsAreMaximal
  <1>14. OnlyTheFirstIsLatest'
    BY <1>6, <1>7 DEF IInv, OnlyTheFirstIsLatest
  <1> QED BY <1>9, <1>10, <1>11, <1>12, <1>13, <1>14 DEF IInv

LEMMA NewRowIInv == IInv /\ NewRow => IInv'
  <1> SUFFICES ASSUME IInv, NewRow PROVE IInv'
    OBVIOUS
  <1> DEFINE n == Len(feed)
             w == [text |-> Rendered(Current), newest_at |-> Current.at,
                   count |-> 1, is_latest |-> feed = <<>>]
  <1>1. /\ done < Len(events) /\ Visible(Current) /\ ~Collapses(Current) /\ Advance(n + 1)
        /\ feed' = Append(feed, w)
    BY DEF NewRow
  <1>2. /\ done \in Nat /\ Current = events[done + 1] /\ Len(events) \in Nat /\ n \in Nat
        /\ Current \in Event /\ Current.at \in 0..MaxTime
        /\ feed \in Seq(Row) /\ \A r \in 1..n : feed[r] \in Row /\ feed[r].newest_at \in 0..MaxTime
        /\ \A i \in 1..done : rowOf[i] \in 0..n
        /\ \A k \in (done + 2)..Len(events) :
               Current.at >= events[k].at /\ events[k].at \in 0..MaxTime
    BY <1>1, CurrentFacts DEF IInv, TypeOK
  <1>3. /\ done' = done + 1 /\ events' = events /\ done' \in 0..Len(events')
        /\ rowOf' \in [1..done' -> 0..(n + 1)]
        /\ rowOf'[done + 1] = n + 1
        /\ \A i \in 1..done : rowOf'[i] = rowOf[i]
    <2>1. n + 1 \in Nat /\ n + 1 \in 0..(n + 1) /\ Len(feed) <= n + 1
      BY <1>2
    <2> QED BY <1>1, <2>1, AdvanceFacts
  <1>4. w \in Row
    <2>1. Current.type \in Types /\ Current.detail \in Details
      BY <1>1, <1>2 DEF Event, Visible
    <2>2. Rendered(Current) \in {Label(t) : t \in Types} \X Details
      BY <2>1 DEF Rendered
    <2> QED BY <1>2, <2>2 DEF Row
  <1>5. /\ feed' \in Seq(Row) /\ Len(feed') = n + 1
        /\ feed'[n + 1] = w /\ \A r \in 1..n : feed'[r] = feed[r]
    BY <1>1, <1>2, <1>4, AppendPositions
  <1>6. w.text = Rendered(Current) /\ w.newest_at = Current.at /\ w.count = 1
        /\ (w.is_latest <=> n = 0)
    <2>1. feed = <<>> <=> n = 0
      BY <1>2
    <2>2. w.is_latest = (feed = <<>>)
      BY Zenon
    <2>3. w.text = Rendered(Current) /\ w.newest_at = Current.at /\ w.count = 1
      OBVIOUS
    <2> HIDE DEF w, n
    <2> QED BY <2>1, <2>2, <2>3, Zenon
  <1>7. /\ \A i \in 1..(done + 1) : i \in 1..done \/ i = done + 1
        /\ \A r \in 1..(n + 1) : r \in 1..n \/ r = n + 1
    BY <1>2
  <1> HIDE DEF w
  <1>8. TypeOK'
    BY <1>3, <1>5 DEF IInv, TypeOK
  <1>9. NewestFirst(events)'
        /\ \A r \in 1..Len(feed'), k \in (done' + 1)..Len(events') :
               feed'[r].newest_at >= events'[k].at
    <2>1. \A k \in (done + 2)..Len(events) : k \in (done + 1)..Len(events)
      BY <1>2
    <2>2. \A r \in 1..n, k \in (done + 2)..Len(events) : feed'[r].newest_at >= events[k].at
      BY <1>5, <2>1 DEF IInv
    <2>3. \A k \in (done + 2)..Len(events) : feed'[n + 1].newest_at >= events[k].at
      BY <1>2, <1>5, <1>6
    <2>4. done' + 1 = done + 2
      BY <1>2, <1>3
    <2> QED BY <1>3, <1>5, <1>7, <2>2, <2>3, <2>4 DEF IInv, NewestFirst
  <1>10. EveryEventIsShown'
    <2>0. n + 1 \in Nat /\ n + 1 \in 0..(n + 1) /\ Len(feed) <= n + 1
      BY <1>2
    <2>1. \A r \in 1..n : Members(r)' = Members(r)
      <3> SUFFICES ASSUME NEW r \in 1..n PROVE Members(r)' = Members(r)
        OBVIOUS
      <3>1. r \in 1..(n + 1) /\ r # n + 1
        BY <1>2
      <3> QED BY <1>1, <2>0, <3>1, MembersFacts
    <2>2. \A r \in 1..(n + 1) : r = n + 1 => Cardinality(Members(r)') = 1
      <3> SUFFICES ASSUME NEW r \in 1..(n + 1), r = n + 1
                   PROVE  Cardinality(Members(r)') = 1
        OBVIOUS
      <3>1. Members(r) = {} /\ Cardinality(Members(r)') = Cardinality(Members(r)) + 1
        <4>1. r > Len(feed)
          BY <1>2
        <4> QED BY <1>1, <2>0, <4>1, MembersFacts
      <3> QED BY <3>1, FS_EmptySet
    <2>3. \A r \in 1..(n + 1) : feed'[r].count = Cardinality(Members(r)')
      <3> SUFFICES ASSUME NEW r \in 1..(n + 1) PROVE feed'[r].count = Cardinality(Members(r)')
        OBVIOUS
      <3>1. CASE r = n + 1
        BY <1>5, <1>6, <2>2, <3>1
      <3>2. CASE r \in 1..n
        BY <1>5, <2>1, <3>2 DEF IInv, EveryEventIsShown
      <3> QED BY <1>7, <3>1, <3>2
    <2>4. \A i \in 1..done : IF Visible(events[i])
             THEN rowOf'[i] # 0 /\ feed'[rowOf'[i]].text = Rendered(events[i])
             ELSE rowOf'[i] = 0
      <3> SUFFICES ASSUME NEW i \in 1..done
                   PROVE  IF Visible(events[i])
                          THEN rowOf'[i] # 0 /\ feed'[rowOf'[i]].text = Rendered(events[i])
                          ELSE rowOf'[i] = 0
        OBVIOUS
      <3>1. IF Visible(events[i])
            THEN rowOf[i] # 0 /\ feed[rowOf[i]].text = Rendered(events[i])
            ELSE rowOf[i] = 0
        BY DEF IInv, EveryEventIsShown
      <3>2. rowOf'[i] = rowOf[i] /\ rowOf[i] \in 0..n
        BY <1>2, <1>3
      <3>3. rowOf[i] # 0 => rowOf[i] \in 1..n
        BY <1>2, <3>2
      <3> QED BY <1>5, <3>1, <3>2, <3>3
    <2>5. Visible(events[done + 1]) /\ rowOf'[done + 1] # 0
          /\ feed'[rowOf'[done + 1]].text = Rendered(events[done + 1])
      BY <1>1, <1>2, <1>3, <1>5, <1>6
    <2>6. \A i \in 1..(done + 1) : IF Visible(events[i])
             THEN rowOf'[i] # 0 /\ feed'[rowOf'[i]].text = Rendered(events[i])
             ELSE rowOf'[i] = 0
      BY <1>7, <2>4, <2>5
    <2> QED BY <1>3, <1>5, <2>3, <2>6 DEF EveryEventIsShown, Visible, Rendered, Label
  <1>11. RowsAreRuns'
    <2>1. \A i \in 1..(done + 1) : rowOf'[i] # 0 =>
             feed'[rowOf'[i]].newest_at - events[i].at \in 0..Window
      <3> SUFFICES ASSUME NEW i \in 1..(done + 1), rowOf'[i] # 0
                   PROVE  feed'[rowOf'[i]].newest_at - events[i].at \in 0..Window
        OBVIOUS
      <3>1. CASE i = done + 1
        BY <1>2, <1>3, <1>5, <1>6, <3>1
      <3>2. CASE i \in 1..done
        <4>1. rowOf'[i] = rowOf[i] /\ rowOf[i] \in 1..n
          BY <1>2, <1>3, <3>2
        <4> QED BY <1>5, <3>2, <4>1 DEF IInv, RowsAreRuns
      <3> QED BY <1>7, <3>1, <3>2
    <2>2. \A i, j \in 1..(done + 1) : i < j /\ rowOf'[i] # 0 /\ rowOf'[j] # 0 =>
             rowOf'[i] <= rowOf'[j]
      <3> SUFFICES ASSUME NEW i \in 1..(done + 1), NEW j \in 1..(done + 1),
                          i < j, rowOf'[i] # 0, rowOf'[j] # 0
                   PROVE  rowOf'[i] <= rowOf'[j]
        OBVIOUS
      <3>1. i \in 1..done /\ rowOf'[i] = rowOf[i] /\ rowOf[i] \in 0..n
        BY <1>2, <1>3
      <3>2. CASE j = done + 1
        BY <1>2, <1>3, <3>1, <3>2
      <3>3. CASE j \in 1..done
        BY <1>3, <3>1, <3>3 DEF IInv, RowsAreRuns
      <3> QED BY <1>7, <3>2, <3>3
    <2> QED BY <1>3, <2>1, <2>2 DEF RowsAreRuns
  <1>12. RowsAreMaximal'
    <2> SUFFICES ASSUME NEW r \in 1..n, feed'[r].text = feed'[r + 1].text
                 PROVE  feed'[r].newest_at - feed'[r + 1].newest_at > Window
      <3>1. Len(feed') - 1 = n
        BY <1>2, <1>5
      <3> QED BY <3>1 DEF RowsAreMaximal
    <2>1. CASE r = n
      <3>1. n # 0 /\ feed # <<>> /\ LastRow = feed[n]
        BY <1>2, <2>1 DEF LastRow
      <3>2. feed[n].text = Rendered(Current)
        BY <1>5, <1>6, <2>1
      <3>3. ~(feed[n].newest_at - Current.at <= Window)
        BY <1>1, <3>1, <3>2 DEF Collapses
      <3>4. n \in 1..n /\ feed[n].newest_at \in 0..MaxTime
        BY <1>2, <3>1
      <3> QED BY <1>2, <1>5, <1>6, <2>1, <3>3, <3>4
    <2>2. CASE r # n
      <3>1. r \in 1..(n - 1) /\ r + 1 \in 1..n
        BY <1>2, <2>2
      <3> QED BY <1>5, <3>1 DEF IInv, RowsAreMaximal
    <2> QED BY <2>1, <2>2
  <1>13. OnlyTheFirstIsLatest'
    <2> SUFFICES ASSUME NEW r \in 1..(n + 1) PROVE feed'[r].is_latest <=> r = 1
      BY <1>5 DEF OnlyTheFirstIsLatest
    <2>1. CASE r = n + 1
      BY <1>2, <1>5, <1>6, <2>1
    <2>2. CASE r \in 1..n
      BY <1>5, <2>2 DEF IInv, OnlyTheFirstIsLatest
    <2> QED BY <1>7, <2>1, <2>2
  <1> QED BY <1>8, <1>9, <1>10, <1>11, <1>12, <1>13 DEF IInv

-----------------------------------------------------------------------------
(* The theorems                                                            *)

\* The loop invariant, for every list that comes newest first.
THEOREM FeedInvariant == Spec => []IInv
  <1>1. IInv /\ [Next]_vars => IInv'
    <2> SUFFICES ASSUME IInv, [Next]_vars PROVE IInv'
      OBVIOUS
    <2>1. CASE UNCHANGED vars
      BY <2>1 DEF vars, IInv, TypeOK, NewestFirst, EveryEventIsShown, RowsAreRuns,
                  RowsAreMaximal, OnlyTheFirstIsLatest, Members, Visible, Rendered, Label
    <2> QED BY <2>1, SkipIInv, CollapseIInv, NewRowIInv DEF Next
  <1> QED BY <1>1, InitIInv, PTL DEF Spec

\* The variables keep their types.
THEOREM FeedTypeCorrect == Spec => []TypeOK
  <1>1. IInv => TypeOK
    BY DEF IInv
  <1> QED BY <1>1, FeedInvariant, PTL

\* Every visible event is counted in exactly one row, which shows its text.
THEOREM FeedIsComplete == Spec => []EveryEventIsShown
  <1>1. IInv => EveryEventIsShown
    BY DEF IInv
  <1> QED BY <1>1, FeedInvariant, PTL

\* Rows are runs within the window of their newest event, and neighbouring
\* rows could not have been one.
THEOREM FeedRowsAreMaximalRuns == Spec => []RowsAreMaximalRuns
  <1>1. IInv => RowsAreMaximalRuns
    BY DEF IInv, RowsAreMaximalRuns
  <1> QED BY <1>1, FeedInvariant, PTL

\* The first row, and no other, is the latest.
THEOREM FeedHasOneLatest == Spec => []OnlyTheFirstIsLatest
  <1>1. IInv => OnlyTheFirstIsLatest
    BY DEF IInv
  <1> QED BY <1>1, FeedInvariant, PTL
=============================================================================

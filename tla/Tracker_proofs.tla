--------------------------- MODULE Tracker_proofs ---------------------------
(***************************************************************************)
(* What tracker.js promises, for every buffer size and every length of a   *)
(* visit: no event is in two batches, none is buffered without a timer,    *)
(* every batch is one the server takes, nothing is reported twice, and a   *)
(* document that was left holds nothing back.                              *)
(*                                                                         *)
(* The sender is handled by two lemmas about push and flush, the signals   *)
(* by one about appending to made; the actions only combine them.          *)
(***************************************************************************)
EXTENDS Tracker, TLAPS, FiniteSetTheorems

\* A sender whose events are among the first n.
Sound(s, n) ==
    /\ s \in Sender
    /\ s.buffer \subseteq 1..n
    /\ Cardinality(s.buffer) < MaxBuffer
    /\ s.buffer # {} => s.flushTimer
    /\ \A b \in s.sent : /\ b \subseteq 1..n
                         /\ Cardinality(b) \in 1..MaxBuffer
                         /\ b \cap s.buffer = {}
    /\ \A b, c \in s.sent : b = c \/ b \cap c = {}

\* No report in m repeats an earlier one.
NoRepeats(m) ==
    \A i, j \in DOMAIN m :
        /\ i < j
        /\ m[i].kind = m[j].kind
        => /\ m[i].kind \in {"scroll", "dwell"} => m[i].of # m[j].of
           /\ m[i].kind = "search" => m[i].of < m[j].of

\* Every report in m is of a milestone of sm, of a visit up to v, of a search
\* call up to c; of one before v or t while those are still open.
Told(m, sm, v, dw, c, t) ==
    \A i \in DOMAIN m :
        /\ m[i].kind = "scroll" => m[i].of \in sm
        /\ m[i].kind = "dwell" => m[i].of <= v /\ (dw # "null" => m[i].of < v)
        /\ m[i].kind = "search" => m[i].of <= c /\ (t # 0 => m[i].of < t)

IInv ==
    /\ TypeOK
    /\ Sound(sender, Len(made))
    /\ NoRepeats(made)
    /\ Told(made, seenMilestones, visits, dwell, calls, searchTimer)
    /\ searchTimer <= calls
    /\ LeavingTakesAll

-----------------------------------------------------------------------------
(* push and flush                                                          *)

\* The buffer is finite, and the next event is not in it.
LEMMA BufferFinite ==
    ASSUME NEW n \in Nat, NEW s, Sound(s, n)
    PROVE  /\ IsFiniteSet(s.buffer)
           /\ Cardinality(s.buffer) \in Nat
           /\ n + 1 \notin s.buffer
  <1>1. s.buffer \subseteq 1..n
    BY DEF Sound
  <1>2. IsFiniteSet(1..n)
    BY FS_Interval
  <1>3. IsFiniteSet(s.buffer)
    BY <1>1, <1>2, FS_Subset
  <1>4. n + 1 \notin 1..n
    OBVIOUS
  <1> QED BY <1>1, <1>3, <1>4, FS_CardinalityType

\* flush keeps a sound sender sound, and leaves nothing buffered.
LEMMA FlushSound ==
    ASSUME NEW n \in Nat, NEW s, Sound(s, n)
    PROVE  /\ Sound(Flush(s), n)
           /\ Flush(s).buffer = {}
  <1>1. CASE s.buffer = {}
    BY <1>1 DEF Flush
  <1>2. CASE s.buffer # {}
    <2> DEFINE f == [buffer |-> {}, flushTimer |-> s.flushTimer,
                     sent |-> s.sent \cup {s.buffer}]
    <2>1. Flush(s) = f
      BY <1>2 DEF Flush
    <2>2. Cardinality(s.buffer) \in 1..MaxBuffer
      <3>1. IsFiniteSet(s.buffer) /\ Cardinality(s.buffer) \in Nat
        BY BufferFinite
      <3>2. Cardinality(s.buffer) # 0
        BY <1>2, <3>1, FS_EmptySet
      <3> QED BY <3>1, <3>2, TrackerAssumption DEF Sound
    <2>3. f \in Sender
      BY DEF Sound, Sender
    <2>4. Cardinality({}) = 0
      BY FS_EmptySet
    <2>5. \A b \in f.sent : /\ b \subseteq 1..n
                            /\ Cardinality(b) \in 1..MaxBuffer
                            /\ b \cap f.buffer = {}
      BY <2>2 DEF Sound
    <2>6. \A b, c \in f.sent : b = c \/ b \cap c = {}
      BY DEF Sound
    <2>7. Sound(f, n)
      BY <2>3, <2>4, <2>5, <2>6, TrackerAssumption DEF Sound
    <2> QED BY <2>1, <2>7
  <1> QED BY <1>1, <1>2

\* push of the next event keeps a sound sender sound.
LEMMA PushSound ==
    ASSUME NEW n \in Nat, NEW s, Sound(s, n)
    PROVE  Sound(Push(s, n + 1), n + 1)
  <1> DEFINE b == s.buffer \cup {n + 1}
             full == [buffer |-> b, flushTimer |-> s.flushTimer, sent |-> s.sent]
             armed == [buffer |-> b, flushTimer |-> TRUE, sent |-> s.sent]
  <1>1. IsFiniteSet(s.buffer) /\ Cardinality(s.buffer) \in Nat /\ n + 1 \notin s.buffer
    BY BufferFinite
  <1>2. Cardinality(b) = Cardinality(s.buffer) + 1 /\ Cardinality(b) \in Nat
    <2>1. Cardinality(b) = Cardinality(s.buffer) + 1
      BY <1>1, FS_AddElement
    <2> QED BY <1>1, <2>1
  <1>3. /\ b \subseteq 1..(n + 1) /\ b # {}
        /\ b \in SUBSET Nat
        /\ \A c \in s.sent : c \subseteq 1..(n + 1) /\ c \cap b = {}
    BY DEF Sound
  <1>4. CASE Cardinality(b) >= MaxBuffer
    <2> DEFINE f == [buffer |-> {}, flushTimer |-> s.flushTimer, sent |-> s.sent \cup {b}]
    <2>1. Push(s, n + 1) = f
      BY <1>3, <1>4 DEF Push, Flush
    <2>2. Cardinality(b) \in 1..MaxBuffer
      BY <1>1, <1>2, <1>4, TrackerAssumption DEF Sound
    <2>3. f \in Sender
      BY <1>3 DEF Sound, Sender
    <2>4. Cardinality({}) = 0
      BY FS_EmptySet
    <2>5. \A c \in f.sent : /\ c \subseteq 1..(n + 1)
                            /\ Cardinality(c) \in 1..MaxBuffer
                            /\ c \cap f.buffer = {}
      BY <1>3, <2>2 DEF Sound
    <2>6. \A c, d \in f.sent : c = d \/ c \cap d = {}
      BY <1>3 DEF Sound
    <2>7. Sound(f, n + 1)
      BY <2>3, <2>4, <2>5, <2>6, TrackerAssumption DEF Sound
    <2> QED BY <2>1, <2>7
  <1>5. CASE ~(Cardinality(b) >= MaxBuffer)
    <2>1. Push(s, n + 1) = armed
      BY <1>5 DEF Push
    <2>2. armed \in Sender
      BY <1>3 DEF Sound, Sender
    <2>3. Cardinality(b) < MaxBuffer
      BY <1>2, <1>5, TrackerAssumption, Z3
    <2>4. \A c \in armed.sent : /\ c \subseteq 1..(n + 1)
                                /\ Cardinality(c) \in 1..MaxBuffer
                                /\ c \cap armed.buffer = {}
      BY <1>3 DEF Sound
    <2>5. \A c, d \in armed.sent : c = d \/ c \cap d = {}
      BY DEF Sound
    <2>6. Sound(armed, n + 1)
      BY <1>3, <2>2, <2>3, <2>4, <2>5 DEF Sound
    <2> QED BY <2>1, <2>6
  <1> QED BY <1>4, <1>5

-----------------------------------------------------------------------------
(* The signals                                                             *)

LEMMA AppendShape ==
    ASSUME NEW m \in Seq(Signal), NEW x \in Signal
    PROVE  /\ Append(m, x) \in Seq(Signal)
           /\ Len(m) \in Nat
           /\ Len(Append(m, x)) = Len(m) + 1
           /\ DOMAIN m = 1..Len(m)
           /\ DOMAIN Append(m, x) = 1..(Len(m) + 1)
           /\ Append(m, x)[Len(m) + 1] = x
           /\ \A i \in 1..Len(m) : Append(m, x)[i] = m[i] /\ m[i] \in Signal
  OBVIOUS

\* A report that fits the counters may be added to those that fit.
LEMMA ToldAppend ==
    ASSUME NEW m \in Seq(Signal), NEW x \in Signal,
           NEW sm, NEW v, NEW dw, NEW c, NEW t,
           Told(m, sm, v, dw, c, t),
           x.kind = "scroll" => x.of \in sm,
           x.kind = "dwell" => x.of <= v /\ (dw # "null" => x.of < v),
           x.kind = "search" => x.of <= c /\ (t # 0 => x.of < t)
    PROVE  Told(Append(m, x), sm, v, dw, c, t)
  <1> SUFFICES ASSUME NEW i \in 1..(Len(m) + 1)
               PROVE  LET y == Append(m, x)[i] IN
                      /\ y.kind = "scroll" => y.of \in sm
                      /\ y.kind = "dwell" => y.of <= v /\ (dw # "null" => y.of < v)
                      /\ y.kind = "search" => y.of <= c /\ (t # 0 => y.of < t)
    BY AppendShape DEF Told
  <1>1. CASE i \in 1..Len(m)
    BY <1>1, AppendShape DEF Told
  <1>2. CASE i = Len(m) + 1
    BY <1>2, AppendShape
  <1> QED BY <1>1, <1>2, AppendShape

\* A report of a milestone, a visit or a query that was still open repeats none.
LEMMA NoRepeatsAppend ==
    ASSUME NEW m \in Seq(Signal), NEW x \in Signal,
           NEW sm, NEW v \in Nat, NEW dw, NEW c \in Nat, NEW t \in Nat,
           NoRepeats(m), Told(m, sm, v, dw, c, t),
           x.kind = "scroll" => x.of \notin sm,
           x.kind = "dwell" => x.of = v /\ dw # "null",
           x.kind = "search" => x.of > c \/ (x.of = t /\ t # 0)
    PROVE  NoRepeats(Append(m, x))
  <1> DEFINE a == Append(m, x)
  <1> SUFFICES ASSUME NEW i \in 1..(Len(m) + 1), NEW j \in 1..(Len(m) + 1),
                      i < j, a[i].kind = a[j].kind
               PROVE  /\ a[i].kind \in {"scroll", "dwell"} => a[i].of # a[j].of
                      /\ a[i].kind = "search" => a[i].of < a[j].of
    BY AppendShape DEF NoRepeats
  <1>1. i \in 1..Len(m) /\ a[i] = m[i] /\ m[i] \in Signal /\ i \in DOMAIN m
    BY AppendShape
  <1>2. CASE j \in 1..Len(m)
    <2>1. a[j] = m[j] /\ j \in DOMAIN m
      BY <1>2, AppendShape
    <2> QED BY <1>1, <2>1 DEF NoRepeats
  <1>3. CASE j = Len(m) + 1
    <2>1. a[j] = x
      BY <1>3, AppendShape
    <2>2. m[i].of \in Nat /\ x.of \in Nat
      BY <1>1 DEF Signal
    <2>3. /\ m[i].kind = "scroll" => m[i].of \in sm
          /\ m[i].kind = "dwell" => m[i].of <= v /\ (dw # "null" => m[i].of < v)
          /\ m[i].kind = "search" => m[i].of <= c /\ (t # 0 => m[i].of < t)
      BY <1>1 DEF Told
    <2> HIDE DEF a
    <2> QED BY <1>1, <2>1, <2>2, <2>3
  <1> QED BY <1>2, <1>3, AppendShape

-----------------------------------------------------------------------------
(* The steps                                                               *)

\* The three parts of the invariant that a handler's report disturbs.
Reports(m, s, sm, v, dw, c, t) ==
    /\ m \in Seq(Signal)
    /\ Sound(s, Len(m))
    /\ NoRepeats(m)
    /\ Told(m, sm, v, dw, c, t)

\* makeEvent and push of one report: it fits the counters as they are after
\* the handler (primed ones), and was still open before it.
LEMMA EmitSound ==
    ASSUME NEW m, NEW s, NEW x \in Signal,
           NEW sm, NEW v \in Nat, NEW dw, NEW c \in Nat, NEW t \in Nat,
           NEW sm2, NEW v2, NEW dw2, NEW c2, NEW t2,
           Reports(m, s, sm, v, dw, c, t),
           Told(m, sm2, v2, dw2, c2, t2),
           x.kind = "scroll" => x.of \notin sm /\ x.of \in sm2,
           x.kind = "dwell" => /\ x.of = v /\ dw # "null"
                               /\ x.of <= v2 /\ dw2 = "null",
           x.kind = "search" => /\ x.of > c \/ (x.of = t /\ t # 0)
                                /\ x.of <= c2 /\ t2 = 0
    PROVE  Reports(Append(m, x), Push(s, Len(m) + 1), sm2, v2, dw2, c2, t2)
  <1>1. m \in Seq(Signal)
    BY DEF Reports
  <1>2. Append(m, x) \in Seq(Signal) /\ Len(Append(m, x)) = Len(m) + 1 /\ Len(m) \in Nat
    BY <1>1, AppendShape
  <1>3. Sound(Push(s, Len(m) + 1), Len(m) + 1)
    BY <1>2, PushSound DEF Reports
  <1>4. NoRepeats(Append(m, x))
    BY <1>1, NoRepeatsAppend DEF Reports
  <1>5. Told(Append(m, x), sm2, v2, dw2, c2, t2)
    BY <1>1, ToldAppend
  <1> QED BY <1>2, <1>3, <1>4, <1>5 DEF Reports

LEMMA InitIInv == Init => IInv
  <1> SUFFICES ASSUME Init PROVE IInv
    OBVIOUS
  <1>1. TypeOK
    BY TrackerAssumption DEF Init, TypeOK, Sender
  <1>2. Len(made) = 0 /\ DOMAIN made = {}
    BY DEF Init
  <1>3. Cardinality({}) = 0
    BY FS_EmptySet
  <1>4. Sound(sender, 0)
    BY <1>3, TrackerAssumption DEF Init, Sound, Sender
  <1>5. NoRepeats(made) /\ Told(made, seenMilestones, visits, dwell, calls, searchTimer)
    BY <1>2 DEF NoRepeats, Told
  <1>6. searchTimer <= calls /\ LeavingTakesAll
    BY DEF Init, LeavingTakesAll
  <1> QED BY <1>1, <1>2, <1>4, <1>5, <1>6 DEF IInv

\* What a report is of is a number.
LEMMA ReportedNumber ==
    ASSUME NEW m \in Seq(Signal), NEW i \in DOMAIN m
    PROVE  m[i].of \in Nat
  <1>1. m[i] \in Signal
    OBVIOUS
  <1> QED BY <1>1 DEF Signal

LEMMA IInvReports ==
    IInv <=> /\ TypeOK
             /\ Reports(made, sender, seenMilestones, visits, dwell, calls, searchTimer)
             /\ searchTimer <= calls
             /\ LeavingTakesAll
  BY DEF IInv, Reports, TypeOK

\* A handler whose last act is to emit one report.
LEMMA EmitStep ==
    ASSUME IInv, NEW x \in Signal,
           made' = Append(made, x), sender' = Push(sender, NewEvent),
           seenMilestones' \subseteq Milestones,
           visits' \in Nat, calls' \in Nat, searchTimer' \in Nat,
           dwell' \in {"null", "brief", "long"},
           visibility' = visibility, lifecycle' = "active",
           visibility' = "hidden" => dwell' = "null",
           searchTimer' <= calls',
           Told(made, seenMilestones', visits', dwell', calls', searchTimer'),
           x.kind = "scroll" => x.of \notin seenMilestones /\ x.of \in seenMilestones',
           x.kind = "dwell" => /\ x.of = visits /\ dwell # "null"
                               /\ x.of <= visits' /\ dwell' = "null",
           x.kind = "search" => /\ x.of > calls \/ (x.of = searchTimer /\ searchTimer # 0)
                                /\ x.of <= calls' /\ searchTimer' = 0
    PROVE  IInv'
  <1>1. /\ Reports(made, sender, seenMilestones, visits, dwell, calls, searchTimer)
        /\ visits \in Nat /\ calls \in Nat /\ searchTimer \in Nat
    BY IInvReports DEF IInv, TypeOK
  <1>2. Reports(made', sender', seenMilestones', visits', dwell', calls', searchTimer')
    BY <1>1, EmitSound DEF NewEvent
  <1>3. sender' \in Sender /\ made' \in Seq(Signal)
    BY <1>2 DEF Reports, Sound
  <1>4. TypeOK'
    BY <1>3 DEF IInv, TypeOK
  <1>5. LeavingTakesAll'
    BY DEF LeavingTakesAll
  <1> QED BY <1>2, <1>4, <1>5 DEF IInv, Reports

\* flushDwell and flush(true), by either event.
LEMMA ReportStep ==
    ASSUME IInv, ReportAndFlush,
           visibility' \in {"visible", "hidden"},
           lifecycle' \in {"active", "left"},
           UNCHANGED <<searchTimer, calls, visits, seenMilestones>>
    PROVE  IInv'
  <1> DEFINE x == [kind |-> "dwell", of |-> visits]
  <1>1. /\ Reports(made, sender, seenMilestones, visits, dwell, calls, searchTimer)
        /\ visits \in Nat /\ calls \in Nat /\ searchTimer \in Nat /\ searchTimer <= calls
        /\ made \in Seq(Signal) /\ Len(made) \in Nat /\ seenMilestones \subseteq Milestones
    BY IInvReports DEF IInv, TypeOK
  <1>2. Told(made, seenMilestones, visits, "null", calls, searchTimer)
    BY <1>1 DEF Reports, Told
  <1>3. ASSUME dwell = "long"
        PROVE  /\ Reports(made', sender', seenMilestones, visits, "null", calls, searchTimer)
               /\ sender'.buffer = {}
    <2>1. x \in Signal
      BY <1>1 DEF Signal
    <2>2. made' = Append(made, x) /\ sender' = Flush(Push(sender, Len(made) + 1))
      BY <1>3 DEF ReportAndFlush, NewEvent
    <2>3. Reports(Append(made, x), Push(sender, Len(made) + 1), seenMilestones,
                  visits, "null", calls, searchTimer)
      <3> HIDE DEF x
      <3>1. x.kind # "scroll" /\ x.kind # "search" /\ x.of = visits /\ visits <= visits
        BY <1>1 DEF x
      <3>2. NoRepeats(Append(made, x))
        <4>1. /\ NoRepeats(made)
              /\ Told(made, seenMilestones, visits, dwell, calls, searchTimer)
          BY <1>1 DEF Reports
        <4> QED BY <1>1, <1>3, <2>1, <3>1, <4>1, NoRepeatsAppend
      <3>3. Told(Append(made, x), seenMilestones, visits, "null", calls, searchTimer)
        BY <1>1, <1>2, <2>1, <3>1, ToldAppend
      <3>4. Sound(Push(sender, Len(made) + 1), Len(Append(made, x)))
        BY <1>1, <2>1, PushSound, AppendShape DEF Reports
      <3>5. Append(made, x) \in Seq(Signal)
        BY <1>1, <2>1, AppendShape
      <3> QED BY <3>2, <3>3, <3>4, <3>5 DEF Reports
    <2>4. Sound(Push(sender, Len(made) + 1), Len(made'))
      BY <2>2, <2>3 DEF Reports
    <2>5. Sound(sender', Len(made')) /\ sender'.buffer = {}
      BY <1>1, <2>1, <2>2, <2>4, FlushSound, AppendShape
    <2> QED BY <2>2, <2>3, <2>5 DEF Reports
  <1>4. ASSUME dwell # "long"
        PROVE  /\ Reports(made', sender', seenMilestones, visits, "null", calls, searchTimer)
               /\ sender'.buffer = {}
    <2>1. made' = made /\ sender' = Flush(sender)
      BY <1>4 DEF ReportAndFlush
    <2>2. Sound(sender', Len(made')) /\ sender'.buffer = {}
      BY <1>1, <2>1, FlushSound DEF Reports
    <2> QED BY <1>1, <1>2, <2>1, <2>2 DEF Reports
  <1>5. /\ Reports(made', sender', seenMilestones, visits, "null", calls, searchTimer)
        /\ sender'.buffer = {}
    BY <1>3, <1>4
  <1>6. dwell' = "null"
    BY DEF ReportAndFlush
  <1>7. TypeOK'
    BY <1>1, <1>5, <1>6 DEF TypeOK, Reports, Sound
  <1>8. LeavingTakesAll'
    BY <1>5, <1>6 DEF LeavingTakesAll
  <1> QED BY <1>1, <1>5, <1>6, <1>7, <1>8 DEF IInv, Reports

LEMMA NextIInv == IInv /\ [Next]_vars => IInv'
  <1> SUFFICES ASSUME IInv, [Next]_vars PROVE IInv'
    OBVIOUS
  <1>0. /\ TypeOK
        /\ Reports(made, sender, seenMilestones, visits, dwell, calls, searchTimer)
        /\ Sound(sender, Len(made)) /\ NoRepeats(made)
        /\ Told(made, seenMilestones, visits, dwell, calls, searchTimer)
        /\ searchTimer <= calls /\ LeavingTakesAll
        /\ Len(made) \in Nat
    BY IInvReports DEF IInv, TypeOK
  <1>1. CASE TrackOne
    <2>1. Act \in Signal
      BY DEF Act, Signal
    <2>2. made' = Append(made, Act) /\ sender' = Push(sender, NewEvent)
      BY <1>1 DEF TrackOne, Emit, Act
    <2>3. Act.kind = "act"
      BY DEF Act
    <2> QED BY <1>0, <1>1, <2>1, <2>2, <2>3, EmitStep
            DEF TrackOne, Alive, page, TypeOK, LeavingTakesAll
  <1>2. CASE TrackTwo
    <2> DEFINE m == Append(made, Act)
               s == Push(sender, NewEvent)
    <2>1. Act \in Signal /\ Act.kind = "act"
      BY DEF Act, Signal
    <2>2. m \in Seq(Signal) /\ Len(m) = Len(made) + 1
      BY <1>0, <2>1, AppendShape DEF TypeOK
    <2>3. Sound(s, Len(m)) /\ Sound(Push(s, Len(m) + 1), Len(m) + 1)
      BY <1>0, <2>2, PushSound DEF NewEvent
    <2>4. /\ NoRepeats(m)
          /\ Told(m, seenMilestones, visits, dwell, calls, searchTimer)
      BY <1>0, <2>1, NoRepeatsAppend, ToldAppend DEF TypeOK
    <2>5. /\ NoRepeats(Append(m, Act))
          /\ Told(Append(m, Act), seenMilestones, visits, dwell, calls, searchTimer)
      BY <1>0, <2>1, <2>2, <2>4, NoRepeatsAppend, ToldAppend DEF TypeOK
    <2>6. Append(m, Act) \in Seq(Signal) /\ Len(Append(m, Act)) = Len(m) + 1
      BY <2>1, <2>2, AppendShape
    <2>7. made' = Append(m, Act) /\ sender' = Push(s, Len(m) + 1)
      BY <1>2, <2>2 DEF TrackTwo, NewEvent
    <2>8. UNCHANGED <<visibility, lifecycle, searchTimer, calls, dwell, visits, seenMilestones>>
          /\ lifecycle = "active"
      BY <1>2 DEF TrackTwo, page, Alive
    <2> HIDE DEF m, s
    <2>9. Sound(sender', Len(made'))
      BY <2>3, <2>6, <2>7
    <2>10. TypeOK'
      BY <1>0, <2>6, <2>7, <2>8, <2>9 DEF TypeOK, Sound
    <2>11. LeavingTakesAll'
      BY <1>0, <2>8 DEF LeavingTakesAll
    <2> QED BY <1>0, <2>5, <2>7, <2>8, <2>9, <2>10, <2>11 DEF IInv
  <1>3. CASE SearchSubmitted
    <2> DEFINE x == [kind |-> "search", of |-> calls']
    <2>1. calls' = calls + 1 /\ calls \in Nat /\ searchTimer' = 0
      BY <1>0, <1>3 DEF SearchSubmitted, TypeOK
    <2>2. x \in Signal /\ x.kind = "search" /\ x.of = calls + 1
      BY <2>1 DEF Signal
    <2>3. made' = Append(made, x) /\ sender' = Push(sender, NewEvent)
      BY <1>3 DEF SearchSubmitted, Emit
    <2>4. Told(made, seenMilestones, visits, dwell, calls', searchTimer')
      <3> SUFFICES ASSUME NEW i \in DOMAIN made, made[i].kind = "search"
                   PROVE  made[i].of <= calls'
        BY <1>0, <2>1 DEF Told
      <3>1. made[i].of \in Nat /\ made[i].of <= calls
        BY <1>0, ReportedNumber DEF Told, TypeOK
      <3> QED BY <2>1, <3>1
    <2> HIDE DEF x
    <2>5. /\ lifecycle' = "active" /\ visibility' = visibility
          /\ UNCHANGED <<dwell, visits, seenMilestones>>
      BY <1>3 DEF SearchSubmitted, Alive, page
    <2> QED BY <1>0, <2>1, <2>2, <2>3, <2>4, <2>5, EmitStep DEF TypeOK, LeavingTakesAll
  <1>4. CASE SearchTyped
    <2>1. /\ calls' = calls + 1 /\ calls \in Nat /\ searchTimer' = calls'
          /\ UNCHANGED <<visibility, lifecycle, made, sender, dwell, visits, seenMilestones>>
      BY <1>0, <1>4 DEF SearchTyped, TypeOK, page
    <2>2. Told(made, seenMilestones, visits, dwell, calls', searchTimer')
      <3> SUFFICES ASSUME NEW i \in DOMAIN made, made[i].kind = "search"
                   PROVE  made[i].of < calls' /\ made[i].of <= calls'
        BY <1>0, <2>1 DEF Told
      <3>1. made[i].of \in Nat /\ made[i].of <= calls
        BY <1>0, ReportedNumber DEF Told, TypeOK
      <3> QED BY <2>1, <3>1
    <2>3. TypeOK' /\ LeavingTakesAll'
      BY <1>0, <2>1 DEF TypeOK, LeavingTakesAll
    <2> QED BY <1>0, <2>1, <2>2, <2>3 DEF IInv
  <1>5. CASE SearchTimerFires
    <2> DEFINE x == [kind |-> "search", of |-> searchTimer]
    <2>1. x \in Signal /\ x.kind = "search" /\ x.of = searchTimer
      BY <1>0 DEF Signal, TypeOK
    <2>2. made' = Append(made, x) /\ sender' = Push(sender, NewEvent)
      BY <1>5 DEF SearchTimerFires, Emit
    <2>3. /\ searchTimer # 0 /\ searchTimer' = 0 /\ lifecycle' = "active"
          /\ UNCHANGED <<visibility, calls, dwell, visits, seenMilestones>>
      BY <1>5 DEF SearchTimerFires, Alive, page
    <2>4. Told(made, seenMilestones, visits, dwell, calls, 0)
      BY <1>0 DEF Told
    <2> HIDE DEF x
    <2> QED BY <1>0, <2>1, <2>2, <2>3, <2>4, EmitStep DEF TypeOK, LeavingTakesAll
  <1>6. CASE FlushTimerFires
    <2> DEFINE s == [buffer |-> sender.buffer, flushTimer |-> FALSE, sent |-> sender.sent]
               r == [buffer |-> {}, flushTimer |-> FALSE, sent |-> sender.sent \cup {sender.buffer}]
    <2>3. sender' = IF sender.buffer = {} THEN s ELSE r
      BY <1>6 DEF FlushTimerFires, Flush
    <2>4. Sound(Flush(sender), Len(made))
      BY <1>0, FlushSound
    <2>5. Sound(sender', Len(made))
      <3>1. CASE sender.buffer = {}
        <4>1. sender' = s
          BY <2>3, <3>1
        <4>2. s \in Sender
          BY <1>0 DEF Sound, Sender
        <4>3. s.buffer = sender.buffer /\ s.sent = sender.sent
          OBVIOUS
        <4> HIDE DEF s
        <4> QED BY <1>0, <3>1, <4>1, <4>2, <4>3 DEF Sound
      <3>2. CASE sender.buffer # {}
        <4>1. Flush(sender) = [buffer |-> {}, flushTimer |-> sender.flushTimer,
                               sent |-> sender.sent \cup {sender.buffer}]
          BY <3>2 DEF Flush
        <4>2. sender' = r
          BY <2>3, <3>2
        <4> DEFINE f == Flush(sender)
        <4>3. r \in Sender
          BY <1>0 DEF Sound, Sender
        <4>4. r.buffer = {} /\ r.sent = f.sent /\ f.buffer = {}
          BY <4>1
        <4>5. Sound(f, Len(made))
          BY <2>4
        <4> HIDE DEF r, f
        <4> QED BY <4>2, <4>3, <4>4, <4>5 DEF Sound
      <3> QED BY <3>1, <3>2
    <2>6. sender' \in Sender
      BY <2>5 DEF Sound
    <2>7. UNCHANGED <<visibility, lifecycle, made, searchTimer, calls, dwell, visits, seenMilestones>>
          /\ lifecycle = "active"
      BY <1>6 DEF FlushTimerFires, page, Alive
    <2>8. TypeOK' /\ LeavingTakesAll'
      BY <1>0, <2>6, <2>7 DEF TypeOK, LeavingTakesAll
    <2> QED BY <1>0, <2>5, <2>7, <2>8 DEF IInv
  <1>7. ASSUME NEW m \in Milestones, Scroll(m) PROVE IInv'
    <2> DEFINE x == [kind |-> "scroll", of |-> m]
    <2>1. x \in Signal /\ x.kind = "scroll" /\ x.of = m
      BY TrackerAssumption DEF Signal
    <2>2. made' = Append(made, x) /\ sender' = Push(sender, NewEvent)
      BY <1>7 DEF Scroll, Emit
    <2>3. /\ m \notin seenMilestones /\ seenMilestones' = seenMilestones \cup {m}
          /\ lifecycle' = "active"
          /\ UNCHANGED <<visibility, searchTimer, calls, dwell, visits>>
      BY <1>7 DEF Scroll, Alive, page
    <2>4. Told(made, seenMilestones', visits, dwell, calls, searchTimer)
      BY <1>0, <2>3 DEF Told
    <2> HIDE DEF x
    <2> QED BY <1>0, <2>1, <2>2, <2>3, <2>4, EmitStep DEF TypeOK, LeavingTakesAll
  <1>8. CASE TimePasses
    <2>1. /\ dwell = "brief" /\ dwell' = "long" /\ lifecycle = "active"
          /\ UNCHANGED <<visibility, lifecycle, made, sender, searchTimer, calls, visits, seenMilestones>>
      BY <1>8 DEF TimePasses, Alive, page
    <2>2. Told(made, seenMilestones, visits, dwell', calls, searchTimer)
      BY <1>0, <2>1 DEF Told
    <2>3. TypeOK' /\ LeavingTakesAll'
      BY <1>0, <2>1 DEF TypeOK, LeavingTakesAll
    <2> QED BY <1>0, <2>1, <2>2, <2>3 DEF IInv
  <1>9. CASE Hide
    BY <1>0, <1>9, ReportStep DEF Hide, TypeOK
  <1>10. CASE Show
    <2>1. /\ dwell' = "brief" /\ visits' = visits + 1 /\ visits \in Nat
          /\ visibility' = "visible" /\ lifecycle' = "active"
          /\ UNCHANGED <<made, sender, searchTimer, calls, seenMilestones>>
      BY <1>0, <1>10 DEF Show, TypeOK
    <2>2. Told(made, seenMilestones, visits', dwell', calls, searchTimer)
      <3> SUFFICES ASSUME NEW i \in DOMAIN made, made[i].kind = "dwell"
                   PROVE  made[i].of < visits + 1 /\ made[i].of <= visits + 1
        BY <1>0, <2>1 DEF Told
      <3>1. made[i].of \in Nat /\ made[i].of <= visits
        BY <1>0, ReportedNumber DEF Told, TypeOK
      <3> QED BY <2>1, <3>1
    <2>3. TypeOK' /\ LeavingTakesAll'
      BY <1>0, <2>1 DEF TypeOK, LeavingTakesAll
    <2> QED BY <1>0, <2>1, <2>2, <2>3 DEF IInv
  <1>11. CASE PageHide
    BY <1>0, <1>11, ReportStep DEF PageHide, TypeOK
  <1>12. CASE Close
    <2>1. /\ dwell' = "null" /\ searchTimer' = 0 /\ lifecycle' = "closed"
          /\ sender' = [buffer |-> {}, flushTimer |-> FALSE, sent |-> sender.sent]
          /\ UNCHANGED <<visibility, made, calls, visits, seenMilestones>>
      BY <1>12 DEF Close
    <2>2. Told(made, seenMilestones, visits, dwell', calls, searchTimer')
      BY <1>0, <2>1 DEF Told
    <2>3. Cardinality({}) = 0
      BY FS_EmptySet
    <2>4. Sound(sender', Len(made))
      BY <1>0, <2>1, <2>3, TrackerAssumption DEF Sound, Sender
    <2>5. TypeOK' /\ LeavingTakesAll' /\ searchTimer' <= calls'
      BY <1>0, <2>1, <2>4 DEF TypeOK, LeavingTakesAll, Sound
    <2> QED BY <1>0, <2>1, <2>2, <2>4, <2>5 DEF IInv
  <1>13. CASE UNCHANGED vars
    BY <1>13 DEF IInv, vars, TypeOK, LeavingTakesAll, Sound, Told, NoRepeats
  <1> QED BY <1>1, <1>2, <1>3, <1>4, <1>5, <1>6, <1>7, <1>8, <1>9, <1>10, <1>11,
             <1>12, <1>13 DEF Next

-----------------------------------------------------------------------------
(* The theorems                                                            *)

\* The invariant holds of every document, whatever it is put through.
THEOREM TrackerInvariant == Spec => []IInv
  BY InitIInv, NextIInv, PTL DEF Spec

\* The variables keep their types.
THEOREM TrackerTypeCorrect == Spec => []TypeOK
  <1>1. IInv => TypeOK
    BY DEF IInv
  <1> QED BY <1>1, TrackerInvariant, PTL

\* No event is in two batches, or sent and still buffered.
THEOREM EventsTravelOnce == Spec => []EachEventTravelsOnce
  <1>1. IInv => EachEventTravelsOnce
    BY DEF IInv, Sound, EachEventTravelsOnce
  <1> QED BY <1>1, TrackerInvariant, PTL

\* Whatever is buffered has a timer that will send it.
THEOREM BufferIsArmed == Spec => []BufferedMeansArmed
  <1>1. IInv => BufferedMeansArmed
    BY DEF IInv, Sound, BufferedMeansArmed
  <1> QED BY <1>1, TrackerInvariant, PTL

\* No batch is refused for its size, however large the server's limit is
\* above the browser's.
THEOREM BatchesFit == Spec => []BatchesAreAccepted
  <1>1. IInv => BatchesAreAccepted
    <2> SUFFICES ASSUME IInv, NEW b \in sender.sent
                 PROVE  Cardinality(b) \in 1..IngestLimit
      BY DEF BatchesAreAccepted
    <2>1. Cardinality(b) \in 1..MaxBuffer
      BY DEF IInv, Sound
    <2> QED BY <2>1, TrackerAssumption
  <1> QED BY <1>1, TrackerInvariant, PTL

\* Visits, milestones and searches are reported once, searches in order.
THEOREM ReportsAreUnique == Spec => []NothingReportedTwice
  <1>1. IInv => NothingReportedTwice
    BY DEF IInv, NoRepeats, NothingReportedTwice
  <1> QED BY <1>1, TrackerInvariant, PTL

\* A document that was left holds nothing back.
THEOREM LeftDocumentsAreEmpty == Spec => []LeavingTakesAll
  <1>1. IInv => LeavingTakesAll
    BY DEF IInv
  <1> QED BY <1>1, TrackerInvariant, PTL
=============================================================================

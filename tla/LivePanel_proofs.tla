-------------------------- MODULE LivePanel_proofs --------------------------
(***************************************************************************)
(* What the live panel never shows and how it polls: for any number of     *)
(* overlapping requests, events, recommendations and failures.             *)
(***************************************************************************)
EXTENDS LivePanel, TLAPS

\* Recommendations are numbered from 0 and each was committed after as many
\* folded events as those before it.
Growing == \A q, r \in DOMAIN base : q <= r => base[q] <= base[r]

\* Nobody holds a recommendation that was not committed.
RecsExist ==
    /\ panel.rec \in DOMAIN base
    /\ \A p \in Polls : poll[p].got.rec \in DOMAIN base

LInv ==
    /\ TypeOK
    /\ PollingFollowsTheTab
    /\ BarBelongsToRecommendation
    /\ Growing
    /\ RecsExist

Fits(a) == a.since <= folded - base[a.rec]

\* The latest recommendation, and what the counter says of it.
LEMMA Latest ==
  ASSUME TypeOK
  PROVE  /\ Current \in Rec
         /\ DOMAIN base = 0..Current
         /\ base \in [0..Current -> 0..folded]
         /\ events_since_gen \in Nat
         /\ events_since_gen = folded - base[Current]
         /\ folded \in Nat
<1>1. PICK r \in Rec : base \in [0..r -> 0..folded]
  BY DEF TypeOK
<1>2. r \in Nat /\ DOMAIN base = 0..r /\ folded \in Nat
  BY <1>1, PanelAssumption DEF TypeOK, Rec
<1>3. Current = r
  <2>1. r \in DOMAIN base /\ \A q \in DOMAIN base : q <= r
    BY <1>2
  <2>2. Current \in DOMAIN base /\ \A q \in DOMAIN base : q <= Current
    BY <2>1, Zenon DEF Current
  <2>. QED  BY <1>2, <2>1, <2>2
<1>4. base[r] \in 0..folded
  BY <1>1, <1>2
<1>. QED  BY <1>1, <1>2, <1>3, <1>4 DEF events_since_gen

LEMMA ClampedType ==
  ASSUME NEW n \in Nat
  PROVE  Clamped(n) \in 0..Threshold /\ Clamped(n) <= n
BY PanelAssumption DEF Clamped

LEMMA BlankType == Blank \in Answer /\ Blank.rec = 0 /\ Blank.since = 0
BY PanelAssumption DEF Blank, Answer, Rec

LEMMA NoRequestType ==
  /\ NoRequest \in Request
  /\ [pc |-> "events", got |-> Blank] \in Request
BY BlankType DEF NoRequest, Request

\* What the server has done since is no reason for an answer not to fit.
LEMMA ServerStep ==
  ASSUME LInv, UNCHANGED <<poll, panel, failures>>, UNCHANGED tabVars,
         TypeOK', Growing', DOMAIN base \subseteq DOMAIN base',
         folded <= folded', \A r \in DOMAIN base : base'[r] = base[r]
  PROVE  LInv'
<1>1. PollingFollowsTheTab'
  BY DEF LInv, PollingFollowsTheTab, tabVars
<1>2. RecsExist'
  BY DEF LInv, RecsExist
<1>3. ASSUME NEW a \in Answer, a.rec \in DOMAIN base, Fits(a)
      PROVE  Fits(a)'
  <2>1. /\ folded \in Nat /\ folded' \in Nat
        /\ base[a.rec] \in Nat /\ a.since \in Nat
    <3>1. folded' \in Nat
      BY PanelAssumption DEF TypeOK
    <3>2. folded \in Nat /\ base \in [DOMAIN base -> 0..folded]
      BY Latest DEF LInv
    <3>. QED  BY <1>3, <3>1, <3>2, PanelAssumption DEF Answer
  <2>. QED  BY <1>3, <2>1 DEF Fits
<1>4. BarBelongsToRecommendation'
  BY <1>3 DEF LInv, BarBelongsToRecommendation, RecsExist, TypeOK, Request, Fits
<1>. QED  BY <1>1, <1>2, <1>4 DEF LInv

LEMMA ServerSteps ==
  ASSUME LInv, Store \/ Fold \/ Generate
  PROVE  LInv'
<1>1. /\ TypeOK /\ Growing
      /\ stored \in 0..MaxEvents /\ folded \in 0..stored
      /\ Current \in Rec /\ DOMAIN base = 0..Current
      /\ base \in [0..Current -> 0..folded]
  BY Latest DEF LInv, TypeOK
<1>2. CASE Store
  <2>1. stored' \in 0..MaxEvents /\ folded' \in 0..stored'
    BY <1>1, <1>2, PanelAssumption DEF Store
  <2>2. TypeOK'
    BY <1>1, <1>2, <2>1 DEF TypeOK, Store, tabVars
  <2>. QED  BY <1>1, <1>2, <2>2, ServerStep DEF Store, Growing
<1>3. CASE Fold
  <2>1. folded' \in 0..stored' /\ folded <= folded' /\ stored' \in 0..MaxEvents
    BY <1>1, <1>3, PanelAssumption DEF Fold
  <2>2. base' \in [0..Current -> 0..folded']
    <3>1. 0..folded \subseteq 0..folded'
      BY <1>1, <2>1, PanelAssumption
    <3>. QED  BY <1>1, <1>3, <3>1 DEF Fold
  <2>3. TypeOK'
    BY <1>1, <1>3, <2>1, <2>2 DEF TypeOK, Fold, tabVars
  <2>. QED  BY <1>1, <1>3, <2>1, <2>3, ServerStep DEF Fold, Growing
<1>4. CASE Generate
  <2>1. Current + 1 \in Rec /\ Current \in Nat /\ folded \in Nat
    BY <1>1, <1>4, PanelAssumption DEF Generate, Rec
  <2>2. base' = [r \in 0..(Current + 1) |->
                    IF r \in 0..Current THEN base[r] ELSE folded]
    BY <1>1, <1>4 DEF Generate
  <2>3. base' \in [0..(Current + 1) -> 0..folded]
    BY <1>1, <2>1, <2>2
  <2>4. /\ DOMAIN base \subseteq DOMAIN base'
        /\ \A r \in DOMAIN base : base'[r] = base[r]
    BY <1>1, <2>1, <2>2
  <2>5. TypeOK'
    BY <1>1, <1>4, <2>1, <2>3 DEF TypeOK, Generate, tabVars
  <2>6. Growing'
    <3>. SUFFICES ASSUME NEW q \in 0..(Current + 1), NEW r \in 0..(Current + 1),
                         q <= r
                  PROVE  base'[q] <= base'[r]
      BY <2>2 DEF Growing
    <3>1. CASE r \in 0..Current
      <4>1. q \in 0..Current
        BY <2>1, <3>1
      <4>. QED  BY <1>1, <2>2, <3>1, <4>1 DEF Growing
    <3>2. CASE r \notin 0..Current
      <4>1. base'[r] = folded /\ base'[q] \in 0..folded
        BY <2>2, <2>3, <3>2
      <4>. QED  BY <2>1, <4>1
    <3>. QED  BY <3>1, <3>2
  <2>7. folded' = folded /\ folded <= folded'
    BY <2>1, <1>4 DEF Generate
  <2>. QED  BY <1>4, <2>4, <2>5, <2>6, <2>7, ServerStep DEF Generate
<1>. QED  BY <1>2, <1>3, <1>4

-----------------------------------------------------------------------------
(* Steps of the page and of its requests.                                  *)

\* Requests and panel hold committed recommendations, and bars that fit them.
Sound(q) == q.got.rec \in DOMAIN base /\ (q.pc = "answer" => Fits(q.got))

SoundPage ==
    /\ \A p \in Polls : Sound(poll[p])
    /\ panel.rec \in DOMAIN base
    /\ Fits(panel)

LEMMA SoundNow ==
  ASSUME LInv
  PROVE  SoundPage
BY DEF LInv, SoundPage, Sound, Fits, RecsExist, BarBelongsToRecommendation

LEMMA PageStep ==
  ASSUME LInv, UNCHANGED serverVars, SoundPage', failures' \in 0..MaxFailures,
         poll' \in [Polls -> Request], panel' \in Answer,
         visible' \in BOOLEAN, switched' \in BOOLEAN, timer' \in BOOLEAN,
         intervals' \in Nat, PollingFollowsTheTab'
  PROVE  LInv'
<1>1. TypeOK' /\ Growing'
  BY DEF LInv, TypeOK, Growing, serverVars
<1>2. RecsExist' /\ BarBelongsToRecommendation'
  BY DEF SoundPage, Sound, Fits, RecsExist, BarBelongsToRecommendation
<1>. QED  BY <1>1, <1>2 DEF LInv

\* Request p becomes q; the panel stays or takes the answer of p.
LEMMA RequestSound ==
  ASSUME LInv, UNCHANGED serverVars, NEW p \in Polls, NEW q \in Request,
         poll' = [poll EXCEPT ![p] = q], Sound(q),
         \/ panel' = panel
         \/ poll[p].pc = "answer" /\ panel' = poll[p].got
  PROVE  /\ SoundPage'
         /\ poll' \in [Polls -> Request] /\ panel' \in Answer
<1>1. poll \in [Polls -> Request] /\ panel \in Answer
  BY DEF LInv, TypeOK
<1>2. \A r \in Polls : Sound(poll'[r])
  BY <1>1, SoundNow DEF SoundPage
<1>3. panel'.rec \in DOMAIN base /\ Fits(panel')
  BY SoundNow DEF SoundPage, Sound
<1>4. SoundPage'
  BY <1>2, <1>3 DEF SoundPage, Sound, Fits, serverVars
<1>. QED  BY <1>1, <1>4 DEF Request

\* A poll that starts holds nothing yet.
LEMMA FetchedSound ==
  ASSUME LInv, UNCHANGED <<serverVars, panel>>, NEW p \in Polls,
         poll' = Fetched(p)
  PROVE  SoundPage' /\ poll' \in [Polls -> Request] /\ panel' \in Answer
<1>. DEFINE q == [pc |-> "events", got |-> Blank]
<1>1. 0 \in DOMAIN base
  BY Latest, PanelAssumption DEF LInv, Rec
<1>2. Sound(q) /\ q \in Request
  BY <1>1, BlankType, NoRequestType DEF Sound
<1>3. poll' = [poll EXCEPT ![p] = q]
  BY DEF Fetched
<1>. HIDE DEF q
<1>4. UNCHANGED serverVars /\ panel' = panel
  BY DEF serverVars
<1>. QED  BY <1>2, <1>3, <1>4, RequestSound

LEMMA ReadSteps ==
  ASSUME LInv, NEW p \in Polls, live_signal(p)
  PROVE  LInv'
<1>1. /\ poll[p] \in Request /\ failures \in 0..MaxFailures
      /\ visible \in BOOLEAN /\ switched \in BOOLEAN /\ timer \in BOOLEAN
      /\ intervals \in Nat /\ stored \in 0..MaxEvents
      /\ Sound(poll[p]) /\ PollingFollowsTheTab
  BY SoundNow DEF LInv, TypeOK, SoundPage
<1>. DEFINE got == poll[p].got
<1>2. got \in Answer /\ got.rec \in DOMAIN base
  BY <1>1 DEF Request, Sound
<1>3. /\ Current \in Rec /\ DOMAIN base = 0..Current
      /\ base \in [0..Current -> 0..folded]
      /\ events_since_gen \in Nat /\ folded \in Nat
      /\ events_since_gen = folded - base[Current]
  BY Latest DEF LInv
<1>4. ASSUME NEW pc \in {"rec", "profile", "answer"}, NEW a \in Answer,
             a.rec \in DOMAIN base, pc = "answer" => Fits(a),
             poll' = [poll EXCEPT ![p] = [pc |-> pc, got |-> a]],
             UNCHANGED <<panel, failures>>, UNCHANGED serverVars,
             UNCHANGED tabVars
      PROVE  LInv'
  <2>. DEFINE q == [pc |-> pc, got |-> a]
  <2>1. q \in Request /\ Sound(q)
    BY <1>4 DEF Request, Sound
  <2>. HIDE DEF q
  <2>2. PollingFollowsTheTab'
    BY <1>1, <1>4 DEF PollingFollowsTheTab, tabVars
  <2>3. SoundPage' /\ poll' \in [Polls -> Request] /\ panel' \in Answer
    <3>1. UNCHANGED serverVars /\ panel' = panel
      BY <1>4
    <3>2. poll' = [poll EXCEPT ![p] = q]
      BY <1>4 DEF q
    <3>. QED  BY <2>1, <3>1, <3>2, RequestSound
  <2>. QED  BY <1>1, <1>4, <2>2, <2>3, PageStep DEF tabVars
<1>5. CASE recent_events(p, "events", "rec")
  <2>. DEFINE a == [got EXCEPT !.feed = stored]
  <2>1. a \in Answer /\ a.rec = got.rec
    BY <1>1, <1>2 DEF Answer
  <2>. HIDE DEF got
  <2>. QED  BY <1>2, <1>4, <1>5, <2>1 DEF recent_events, Read, got
<1>6. CASE get_current_recommendation(p, "rec", "profile")
  <2>. DEFINE a == [got EXCEPT !.rec = Current]
  <2>1. a \in Answer /\ a.rec = Current
    BY <1>2, <1>3 DEF Answer
  <2>2. Current \in DOMAIN base
    BY <1>3 DEF Rec
  <2>. QED  BY <1>4, <1>6, <2>1, <2>2 DEF get_current_recommendation, Read
<1>7. CASE get_profile(p, "profile", "answer")
  <2>. DEFINE n == Clamped(events_since_gen)
              a == [got EXCEPT !.since = n]
  <2>1. n \in 0..Threshold /\ n <= events_since_gen
    BY <1>3, ClampedType
  <2>2. poll' = [poll EXCEPT ![p] = [pc |-> "answer", got |-> a]]
    BY <1>7 DEF get_profile, Read
  <2>. HIDE DEF n
  <2>3. a \in Answer /\ a.rec = got.rec /\ a.since = n
    BY <1>2, <2>1 DEF Answer
  <2>4. base[got.rec] <= base[Current]
    <3>1. got.rec <= Current /\ Current \in DOMAIN base
      BY <1>2, <1>3 DEF Rec
    <3>. QED  BY <1>2, <3>1 DEF LInv, Growing
  <2>5. Fits(a)
    <3>1. base[got.rec] \in Nat /\ base[Current] \in Nat
      BY <1>2, <1>3 DEF Rec
    <3>2. n <= folded - base[got.rec]
      BY <1>3, <2>1, <2>4, <3>1, PanelAssumption
    <3>. HIDE DEF a, got
    <3>. QED  BY <2>3, <3>2 DEF Fits
  <2>. HIDE DEF a
  <2>. QED  BY <1>2, <1>4, <1>7, <2>2, <2>3, <2>5 DEF get_profile, Read
<1>. QED  BY <1>5, <1>6, <1>7 DEF live_signal

LEMMA PageSteps ==
  ASSUME LInv,
         \/ Hide
         \/ \E p \in Polls : Tick(p) \/ Show(p) \/ Render(p) \/ Fail(p)
  PROVE  LInv'
<1>1. /\ poll \in [Polls -> Request] /\ panel \in Answer
      /\ failures \in 0..MaxFailures
      /\ visible \in BOOLEAN /\ switched \in BOOLEAN /\ timer \in BOOLEAN
      /\ intervals \in Nat
      /\ PollingFollowsTheTab
      /\ intervals = IF timer THEN 1 ELSE 0
      /\ SoundPage
  BY SoundNow DEF LInv, TypeOK, PollingFollowsTheTab
<1>2. 0 \in DOMAIN base
  BY Latest, PanelAssumption DEF LInv, Rec
<1>3. Sound(NoRequest) /\ NoRequest \in Request
  BY <1>2, BlankType, NoRequestType DEF Sound, NoRequest
<1>4. CASE Hide
  <2>1. /\ visible' = FALSE /\ switched' = TRUE /\ timer' = FALSE
        /\ intervals' = 0
    BY <1>1, <1>4 DEF Hide, stop
  <2>2. PollingFollowsTheTab'
    BY <2>1 DEF PollingFollowsTheTab
  <2>3. SoundPage'
    BY <1>1, <1>4 DEF Hide, SoundPage, Sound, Fits, serverVars
  <2>. QED  BY <1>1, <1>4, <2>1, <2>2, <2>3, PageStep DEF Hide
<1>5. ASSUME NEW p \in Polls, Tick(p)  PROVE LInv'
  <2>1. PollingFollowsTheTab'
    BY <1>1, <1>5 DEF Tick, PollingFollowsTheTab, tabVars
  <2>2. SoundPage' /\ poll' \in [Polls -> Request] /\ panel' \in Answer
    BY <1>5, FetchedSound DEF Tick
  <2>. QED  BY <1>1, <1>5, <2>1, <2>2, PageStep DEF Tick, tabVars
<1>6. ASSUME NEW p \in Polls, Show(p)  PROVE LInv'
  <2>1. /\ visible' = TRUE /\ switched' = TRUE /\ timer' = TRUE
        /\ intervals' = 1
    BY <1>1, <1>6 DEF Show, start
  <2>2. PollingFollowsTheTab'
    BY <2>1 DEF PollingFollowsTheTab
  <2>3. SoundPage' /\ poll' \in [Polls -> Request] /\ panel' \in Answer
    <3>1. CASE poll' = poll
      BY <1>1, <1>6, <3>1 DEF Show, SoundPage, Sound, Fits, serverVars
    <3>2. CASE poll' = Fetched(p)
      BY <1>6, <3>2, FetchedSound DEF Show
    <3>. QED  BY <1>6, <3>1, <3>2 DEF Show, start
  <2>. QED  BY <1>1, <1>6, <2>1, <2>2, <2>3, PageStep DEF Show
<1>7. ASSUME NEW p \in Polls, Render(p) \/ Fail(p)  PROVE LInv'
  <2>1. failures' \in 0..MaxFailures
    BY <1>1, <1>7, PanelAssumption DEF Render, Fail
  <2>2. PollingFollowsTheTab'
    BY <1>1, <1>7 DEF Render, Fail, PollingFollowsTheTab, tabVars
  <2>3. SoundPage' /\ poll' \in [Polls -> Request] /\ panel' \in Answer
    <3>1. /\ UNCHANGED serverVars
          /\ poll' = [poll EXCEPT ![p] = NoRequest]
          /\ \/ panel' = panel
             \/ poll[p].pc = "answer" /\ panel' = poll[p].got
      BY <1>7 DEF Render, Fail
    <3>. QED  BY <1>3, <3>1, RequestSound
  <2>. QED  BY <1>1, <1>7, <2>1, <2>2, <2>3, PageStep
            DEF Render, Fail, tabVars
<1>. QED  BY <1>4, <1>5, <1>6, <1>7

-----------------------------------------------------------------------------
LEMMA InitL == Init => LInv
<1>. SUFFICES ASSUME Init  PROVE LInv
  OBVIOUS
<1>1. base = [r \in {0} |-> 0] /\ stored = 0 /\ folded = 0
  BY DEF Init
<1>2. 0..0 = {0} /\ 0 \in Rec
  BY PanelAssumption DEF Rec
<1>3. base \in [0..0 -> 0..folded]
  BY <1>1, <1>2
<1>4. poll \in [Polls -> Request]
      /\ \A p \in Polls : poll[p].got = Blank /\ poll[p].pc # "answer"
  BY NoRequestType DEF Init, NoRequest
<1>5. TypeOK
  <2>1. \E r \in Rec : base \in [0..r -> 0..folded]
    BY <1>2, <1>3
  <2>2. /\ stored \in 0..MaxEvents /\ folded \in 0..stored
        /\ failures \in 0..MaxFailures /\ intervals \in Nat
    BY <1>1, PanelAssumption DEF Init
  <2>3. /\ visible \in BOOLEAN /\ switched \in BOOLEAN /\ timer \in BOOLEAN
        /\ panel \in Answer
    BY BlankType DEF Init
  <2>. QED  BY <1>4, <2>1, <2>2, <2>3 DEF TypeOK
<1>6. PollingFollowsTheTab /\ Growing
  BY <1>1 DEF Init, PollingFollowsTheTab, Growing
<1>7. panel = Blank
  BY DEF Init
<1>8. RecsExist /\ BarBelongsToRecommendation
  BY <1>1, <1>4, <1>7, BlankType DEF RecsExist, BarBelongsToRecommendation
<1>. QED  BY <1>5, <1>6, <1>8 DEF LInv

LEMMA NextL == LInv /\ [Next]_vars => LInv'
<1>. SUFFICES ASSUME LInv, [Next]_vars  PROVE LInv'
  OBVIOUS
<1>1. CASE UNCHANGED vars
  <2>1. SoundPage'
    BY <1>1, SoundNow DEF vars, SoundPage, Sound, Fits
  <2>2. PollingFollowsTheTab'
    BY <1>1 DEF vars, LInv, PollingFollowsTheTab
  <2>. QED  BY <1>1, <2>1, <2>2, PageStep DEF vars, serverVars, LInv, TypeOK
<1>. QED  BY <1>1, ServerSteps, PageSteps, ReadSteps DEF Next, Handle

\* The inductive invariant, for any number of requests and failures.
THEOREM PanelInvariant == FairSpec => []LInv
<1>. QED  BY InitL, NextL, PTL DEF FairSpec

\* Every variable keeps its shape; the bar never passes the threshold.
THEOREM PanelTypeCorrect == FairSpec => []TypeOK
<1>1. LInv => TypeOK
  BY DEF LInv
<1>. QED  BY <1>1, PanelInvariant, PTL

\* However the tab is hidden and shown, there is one interval or none, and
\* start and stop know of it.
THEOREM PollingIsNeverDoubled == FairSpec => []PollingFollowsTheTab
<1>1. LInv => PollingFollowsTheTab
  BY DEF LInv
<1>. QED  BY <1>1, PanelInvariant, PTL

\* The bar never tells of events that the recommendation beside it has used
\* up, because the recommendation is read before the profile and the counter
\* of a later recommendation only counts fewer events.
THEOREM BarFitsRecommendation == FairSpec => []BarBelongsToRecommendation
<1>1. LInv => BarBelongsToRecommendation
  BY DEF LInv
<1>. QED  BY <1>1, PanelInvariant, PTL
=============================================================================

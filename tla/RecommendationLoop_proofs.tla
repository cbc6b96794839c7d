---------------------- MODULE RecommendationLoop_proofs ----------------------
(***************************************************************************)
(* For any number of tasks, batches and events: at most one recommendation *)
(* is current, the drift baseline is the one it was written for, runs      *)
(* implement RecommendationLog and never deadlock; and no event is lost or *)
(* forgotten in any way but those the history variables of LoopHistory     *)
(* name.                                                                   *)
(***************************************************************************)
EXTENDS LoopHistory, FiniteSetTheorems, TLAPS

LEMMA IdleTaskType == IdleTask \in TaskState
  BY LoopAssumption DEF IdleTask, TaskState, TaskPC

\* A step that changes nothing but the locals of one task, and does not end
\* with the key locked.
LEMMA LocalStep ==
  ASSUME IInv, NEW t \in Tasks, NEW r \in TaskState,
         task' = [task EXCEPT ![t] = r],
         UNCHANGED <<stored, delivered, profile, cooling, recs>>,
         crashes' \in 0..MaxCrashes,
         r.pc \notin {"mark", "commit"},
         r.pc \in {"agent_rec", "load", "model", "flip", "blocked", "insert"}
             => profile # Absent /\ r.prof # Absent,
         r.flipped # 0 => r.flipped \in RecIds
  PROVE  IInv'
<1>1. TypeOK'
  BY DEF IInv, TypeOK
<1>2. RecIds' = RecIds /\ CurrentIds' = CurrentIds
  BY DEF RecIds, CurrentIds
<1>3. AtMostOneCurrent' /\ BaselineMatchesCurrent'
  BY <1>2 DEF IInv, AtMostOneCurrent, BaselineMatchesCurrent
<1>4. task'[t] = r /\ \A v \in Tasks \ {t} : task'[v] = task[v]
  BY DEF IInv, TypeOK
<1>5. HasProfile'
  BY <1>4 DEF IInv, HasProfile, InTransaction
<1>6. FlipExists'
  BY <1>2, <1>4 DEF IInv, FlipExists
<1>7. OneKeyLock'
  BY <1>4 DEF IInv, OneKeyLock, LocksKey
<1>8. KeyIsTaken'
  BY <1>2, <1>4 DEF IInv, KeyIsTaken, LocksKey
<1>. QED  BY <1>1, <1>3, <1>5, <1>6, <1>7, <1>8 DEF IInv

\* The same for a step that only moves the program point.
LEMMA GotoStep ==
  ASSUME IInv, NEW t \in Tasks, NEW pc \in TaskPC, Goto(t, pc),
         UNCHANGED <<stored, delivered, profile, cooling, recs, crashes>>,
         pc \notin {"mark", "commit"},
         pc \in {"agent_rec", "load", "model", "flip", "blocked", "insert"}
             => profile # Absent /\ task[t].prof # Absent
  PROVE  IInv'
<1>. DEFINE r == [task[t] EXCEPT !.pc = pc]
<1>1. task[t] \in TaskState /\ crashes \in 0..MaxCrashes
  BY DEF IInv, TypeOK
<1>2. r \in TaskState /\ r.pc = pc /\ r.prof = task[t].prof
        /\ r.flipped = task[t].flipped
  BY <1>1 DEF TaskState
<1>3. task' = [task EXCEPT ![t] = r]
  BY DEF Goto
<1>4. r.flipped # 0 => r.flipped \in RecIds
  BY <1>2 DEF IInv, FlipExists
<1>. HIDE DEF r
<1>. QED  BY <1>1, <1>2, <1>3, <1>4, LocalStep

LEMMA FinishStep ==
  ASSUME IInv, NEW t \in Tasks, Finish(t), crashes' \in 0..MaxCrashes,
         UNCHANGED <<stored, delivered, profile, cooling, recs>>
  PROVE  IInv'
<1>1. IdleTask.pc = "idle" /\ IdleTask.flipped = 0
  BY DEF IdleTask
<1>. QED  BY <1>1, IdleTaskType, LocalStep DEF Finish

-----------------------------------------------------------------------------
LEMMA FoldedType ==
  ASSUME NEW p \in Profile \cup {Absent}, NEW b \in SUBSET Events
  PROVE  Folded(p, b) \in [Events -> Nat]
  BY DEF Folded, Profile

LEMMA CountType ==
  ASSUME NEW b \in SUBSET Events
  PROVE  Cardinality(b \cap Countable) \in Nat
  BY LoopAssumption, FS_Subset, FS_CardinalityType

LEMMA IngestStep ==
  ASSUME IInv, NEW t \in Tasks, NEW b \in Batches, ingest(t, b)
  PROVE  IInv'
<1>. DEFINE r == [IdleTask EXCEPT !.pc = "read", !.batch = b]
<1>1. b \in SUBSET Events
  BY LoopAssumption
<1>2. r \in TaskState /\ r.pc = "read" /\ r.flipped = 0
  BY <1>1, IdleTaskType DEF IdleTask, TaskState, TaskPC
<1>3. task' = [task EXCEPT ![t] = r]
  BY DEF ingest
<1>. HIDE DEF r
<1>4. TypeOK'
  BY <1>1, <1>2, <1>3, LoopAssumption DEF ingest, IInv, TypeOK
<1>5. RecIds' = RecIds /\ CurrentIds' = CurrentIds
  BY DEF ingest, RecIds, CurrentIds
<1>6. AtMostOneCurrent' /\ BaselineMatchesCurrent'
  BY <1>5 DEF ingest, IInv, AtMostOneCurrent, BaselineMatchesCurrent
<1>7. task'[t] = r /\ \A v \in Tasks \ {t} : task'[v] = task[v]
  BY <1>3 DEF IInv, TypeOK
<1>8. HasProfile'
  BY <1>2, <1>7 DEF ingest, IInv, HasProfile, InTransaction
<1>9. FlipExists' /\ OneKeyLock' /\ KeyIsTaken'
  BY <1>2, <1>5, <1>7
     DEF IInv, FlipExists, OneKeyLock, KeyIsTaken, LocksKey
<1>. QED  BY <1>4, <1>6, <1>8, <1>9 DEF IInv

LEMMA UpsertedProfile ==
  ASSUME IInv, NEW t \in Tasks, upsert_profile(t)
  PROVE  /\ profile' \in Profile
         /\ profile' # Absent
         /\ profile # Absent => profile'.gen_vector = profile.gen_vector
<1>. DEFINE b == task[t].batch
            n == Cardinality(b \cap Countable)
                   + (IF profile = Absent THEN 0 ELSE profile.events_since_gen)
            g == IF profile = Absent THEN {} ELSE profile.gen_vector
            w == Folded(task[t].prof, b)
<1>1. /\ task[t] \in TaskState
      /\ profile \in Profile \cup {Absent}
  BY DEF IInv, TypeOK
<1>2. w \in [Events -> Nat]
  BY <1>1, FoldedType DEF TaskState
<1>3. n \in Nat
  <2>1. Cardinality(b \cap Countable) \in Nat
    BY <1>1, CountType DEF TaskState
  <2>2. profile # Absent => profile.events_since_gen \in Nat
    BY <1>1 DEF Profile
  <2>. QED  BY <2>1, <2>2
<1>4. g \in SUBSET Loud
  BY <1>1 DEF Profile
<1>5. profile' = [weights |-> w, events_since_gen |-> n, gen_vector |-> g]
  BY DEF upsert_profile
<1>6. profile # Absent => g = profile.gen_vector
  OBVIOUS
<1>. HIDE DEF b, n, g, w
<1>7. profile' \in Profile /\ profile'.gen_vector = g
  BY <1>2, <1>3, <1>4, <1>5 DEF Profile
<1>. QED  BY <1>6, <1>7, RowAssumption

LEMMA UpsertStep ==
  ASSUME IInv, NEW t \in Tasks, upsert_profile(t)
  PROVE  IInv'
<1>1. /\ profile' \in Profile
      /\ profile' # Absent
      /\ profile # Absent => profile'.gen_vector = profile.gen_vector
  BY UpsertedProfile
<1>2. task[t] \in TaskState
  BY DEF IInv, TypeOK
<1>3. TypeOK'
  BY <1>1, <1>2 DEF upsert_profile, Goto, IInv, TypeOK, TaskState, TaskPC
<1>4. RecIds' = RecIds /\ CurrentIds' = CurrentIds
  BY DEF upsert_profile, RecIds, CurrentIds
<1>5. AtMostOneCurrent' /\ BaselineMatchesCurrent'
  BY <1>1, <1>4
     DEF upsert_profile, IInv, AtMostOneCurrent, BaselineMatchesCurrent
<1>6. /\ task'[t].pc = "gate"
      /\ task'[t].flipped = task[t].flipped
      /\ \A v \in Tasks \ {t} : task'[v] = task[v]
  BY <1>2 DEF upsert_profile, Goto, IInv, TypeOK, TaskState
<1>7. HasProfile'
  BY <1>1, <1>6 DEF IInv, HasProfile, InTransaction
<1>8. FlipExists' /\ OneKeyLock' /\ KeyIsTaken'
  BY <1>4, <1>6 DEF IInv, FlipExists, OneKeyLock, KeyIsTaken, LocksKey
<1>. QED  BY <1>3, <1>5, <1>7, <1>8 DEF IInv
-----------------------------------------------------------------------------
\* Taking the key in the index, and then the profile row.
LEMMA InsertStep ==
  ASSUME IInv, NEW t \in Tasks, InsertCurrent(t)
  PROVE  IInv'
<1>1. task[t] \in TaskState
  BY DEF IInv, TypeOK
<1>2. TypeOK'
  BY <1>1 DEF InsertCurrent, Goto, IInv, TypeOK, TaskState, TaskPC
<1>3. RecIds' = RecIds /\ CurrentIds' = CurrentIds
  BY DEF InsertCurrent, RecIds, CurrentIds
<1>4. AtMostOneCurrent' /\ BaselineMatchesCurrent'
  BY <1>3 DEF InsertCurrent, IInv, AtMostOneCurrent, BaselineMatchesCurrent
<1>5. /\ task'[t].pc = "mark"
      /\ task'[t].flipped = task[t].flipped
      /\ task'[t].prof = task[t].prof
      /\ \A v \in Tasks \ {t} : task'[v] = task[v]
  BY <1>1 DEF InsertCurrent, Goto, IInv, TypeOK, TaskState
<1>6. task[t].pc = "insert"
  BY DEF InsertCurrent
<1>7. HasProfile'
  BY <1>5, <1>6 DEF InsertCurrent, IInv, HasProfile, InTransaction
<1>8. FlipExists'
  BY <1>3, <1>5 DEF IInv, FlipExists
<1>9. OneKeyLock'
  BY <1>5 DEF InsertCurrent, KeyFree, IInv, OneKeyLock, LocksKey
<1>10. KeyIsTaken'
  BY <1>3, <1>5 DEF InsertCurrent, IInv, KeyIsTaken, LocksKey
<1>. QED  BY <1>2, <1>4, <1>7, <1>8, <1>9, <1>10 DEF IInv

LEMMA MarkStep ==
  ASSUME IInv, NEW t \in Tasks, mark_generated(t)
  PROVE  IInv'
<1>1. task[t] \in TaskState
  BY DEF IInv, TypeOK
<1>2. TypeOK'
  BY <1>1 DEF mark_generated, Goto, IInv, TypeOK, TaskState, TaskPC
<1>3. RecIds' = RecIds /\ CurrentIds' = CurrentIds
  BY DEF mark_generated, RecIds, CurrentIds
<1>4. AtMostOneCurrent' /\ BaselineMatchesCurrent'
  BY <1>3 DEF mark_generated, IInv, AtMostOneCurrent, BaselineMatchesCurrent
<1>5. /\ task'[t].pc = "commit"
      /\ task'[t].flipped = task[t].flipped
      /\ task'[t].prof = task[t].prof
      /\ \A v \in Tasks \ {t} : task'[v] = task[v]
  BY <1>1 DEF mark_generated, Goto, IInv, TypeOK, TaskState
<1>6. task[t].pc = "mark"
  BY DEF mark_generated
<1>7. HasProfile'
  BY <1>5, <1>6 DEF mark_generated, IInv, HasProfile, InTransaction
<1>8. FlipExists' /\ OneKeyLock' /\ KeyIsTaken'
  BY <1>3, <1>5, <1>6
     DEF IInv, FlipExists, OneKeyLock, KeyIsTaken, LocksKey
<1>. QED  BY <1>2, <1>4, <1>7, <1>8 DEF IInv

\* The new recommendation replaces the one that was flipped, and is the only
\* current one because the key was locked; the others keep what they say.
LEMMA CommitWrites ==
  ASSUME IInv, NEW t \in Tasks, Commit(t)
  PROVE  /\ task[t].prof \in Profile
         /\ profile' \in Profile
         /\ profile'.gen_vector = interest_vector(task[t].prof)
         /\ profile'.events_since_gen = 0
         /\ recs' \in [1..MaxRecs -> Rec \cup {Absent}]
         /\ \E i \in (1..MaxRecs) \ RecIds :
               /\ \A j \in 1..(i - 1) : j \in RecIds
               /\ recs'[i] = NewRec(task[t].prof)
               /\ RecIds' = RecIds \cup {i}
               /\ CurrentIds' = {i}
               /\ \A j \in RecIds :
                     recs'[j].profile_hash = recs[j].profile_hash
<1>. DEFINE p == task[t].prof
            f == task[t].flipped
<1>1. /\ task[t] \in TaskState
      /\ task[t].pc = "commit"
      /\ profile \in Profile \cup {Absent}
      /\ recs \in [1..MaxRecs -> Rec \cup {Absent}]
  BY DEF IInv, TypeOK, Commit
<1>2. p \in Profile /\ profile \in Profile
  BY <1>1 DEF IInv, HasProfile, InTransaction, TaskState
<1>3. CurrentIds \subseteq {f}
  BY <1>1 DEF IInv, KeyIsTaken, LocksKey
<1>4. f # 0 => f \in RecIds
  BY DEF IInv, FlipExists
<1>5. NewRec(p) \in Rec
  BY <1>2, LoopAssumption DEF NewRec, Rec, profile_hash, Hash, Profile
<1>6. interest_vector(p) \in SUBSET Loud
  BY DEF interest_vector
<1>7. PICK i \in (1..MaxRecs) \ RecIds :
        /\ \A j \in 1..(i - 1) : j \in RecIds
        /\ recs' = [j \in 1..MaxRecs |->
                     IF j = i THEN NewRec(p)
                     ELSE IF j = f THEN [recs[j] EXCEPT !.is_current = FALSE]
                          ELSE recs[j]]
  BY DEF Commit
<1>8. profile' = [profile EXCEPT !.gen_vector = interest_vector(p),
                                 !.events_since_gen = 0]
  BY DEF Commit
<1>. HIDE DEF p, f
<1>9. /\ profile' \in Profile
      /\ profile'.gen_vector = interest_vector(p)
      /\ profile'.events_since_gen = 0
  BY <1>2, <1>6, <1>8 DEF Profile
<1>10. \A j \in 1..MaxRecs :
          /\ recs'[j] \in Rec \cup {Absent}
          /\ j = i => recs'[j] = NewRec(p)
          /\ j # i => (recs'[j] # Absent <=> recs[j] # Absent)
          /\ j # i /\ recs'[j] # Absent
               => recs'[j].profile_hash = recs[j].profile_hash
          /\ j # i /\ recs'[j] # Absent /\ recs'[j].is_current
               => j \in CurrentIds /\ j # f
  <2>. SUFFICES ASSUME NEW j \in 1..MaxRecs
                PROVE  /\ recs'[j] \in Rec \cup {Absent}
                       /\ j = i => recs'[j] = NewRec(p)
                       /\ j # i => (recs'[j] # Absent <=> recs[j] # Absent)
                       /\ j # i /\ recs'[j] # Absent
                            => recs'[j].profile_hash = recs[j].profile_hash
                       /\ j # i /\ recs'[j] # Absent /\ recs'[j].is_current
                            => j \in CurrentIds /\ j # f
    OBVIOUS
  <2>1. CASE j = i
    BY <2>1, <1>5, <1>7
  <2>2. CASE j # i /\ j = f
    <3>1. recs[j] \in Rec
      BY <2>2, <1>1, <1>4 DEF RecIds
    <3>2. recs'[j] = [recs[j] EXCEPT !.is_current = FALSE]
      BY <2>2, <1>7
    <3>3. /\ recs'[j] \in Rec /\ ~recs'[j].is_current
          /\ recs'[j].profile_hash = recs[j].profile_hash
      BY <3>1, <3>2 DEF Rec
    <3>. QED  BY <2>2, <3>1, <3>3, RowAssumption
  <2>3. CASE j # i /\ j # f
    <3>1. recs'[j] = recs[j]
      BY <2>3, <1>7
    <3>. QED  BY <2>3, <3>1, <1>1 DEF CurrentIds, RecIds
  <2>. QED  BY <2>1, <2>2, <2>3
<1>11. RecIds' = RecIds \cup {i} /\ CurrentIds' = {i}
  <2>1. NewRec(p) # Absent /\ NewRec(p).is_current
    BY <1>5, RowAssumption DEF NewRec
  <2>2. RecIds' = RecIds \cup {i}
    BY <1>10, <2>1 DEF RecIds
  <2>3. i \in CurrentIds'
    BY <1>10, <2>1, <2>2 DEF CurrentIds
  <2>4. ASSUME NEW j \in CurrentIds'  PROVE j = i
    <3>1. j \in 1..MaxRecs /\ recs'[j] # Absent /\ recs'[j].is_current
      BY DEF CurrentIds, RecIds
    <3>. QED  BY <1>3, <1>10, <3>1
  <2>. QED  BY <2>2, <2>3, <2>4
<1>12. recs' \in [1..MaxRecs -> Rec \cup {Absent}]
  <2>1. recs' = [j \in 1..MaxRecs |-> recs'[j]]
    BY <1>7
  <2>. QED  BY <2>1, <1>10
<1>13. \A j \in RecIds : recs'[j].profile_hash = recs[j].profile_hash
  BY <1>10 DEF RecIds
<1>14. recs'[i] = NewRec(p)
  BY <1>10
<1>. QED  BY <1>2, <1>7, <1>9, <1>11, <1>12, <1>13, <1>14 DEF p

LEMMA CommitStep ==
  ASSUME IInv, NEW t \in Tasks, Commit(t)
  PROVE  IInv'
<1>. DEFINE p == task[t].prof
            r == [task[t] EXCEPT !.pc = "record", !.flipped = 0]
<1>1. /\ task[t] \in TaskState
      /\ task[t].pc = "commit"
  BY DEF IInv, TypeOK, Commit
<1>2. r \in TaskState /\ r.pc = "record" /\ r.flipped = 0
  <2>. DEFINE r1 == [task[t] EXCEPT !.pc = "record"]
  <2>1. r1 \in TaskState /\ r1.pc = "record"
    BY <1>1 DEF TaskState, TaskPC
  <2>2. r = [r1 EXCEPT !.flipped = 0]
    OBVIOUS
  <2>. HIDE DEF r1, r
  <2>. QED  BY <2>1, <2>2, LoopAssumption DEF TaskState
<1>3. task' = [task EXCEPT ![t] = r]
  BY DEF Commit
<1>4. /\ p \in Profile /\ profile' \in Profile
      /\ profile'.gen_vector = interest_vector(p)
      /\ recs' \in [1..MaxRecs -> Rec \cup {Absent}]
  BY CommitWrites
<1>5. PICK i \in (1..MaxRecs) \ RecIds :
        /\ recs'[i] = NewRec(p)
        /\ RecIds' = RecIds \cup {i}
        /\ CurrentIds' = {i}
  BY CommitWrites
<1>6. /\ cooling' = TRUE
      /\ UNCHANGED <<stored, delivered, crashes>>
  BY DEF Commit
<1>. HIDE DEF r, p
<1>7. TypeOK'
  <2>1. task' \in [Tasks -> TaskState]
    BY <1>2, <1>3 DEF IInv, TypeOK
  <2>. QED  BY <2>1, <1>4, <1>6 DEF IInv, TypeOK
<1>8. AtMostOneCurrent'
  BY <1>5 DEF AtMostOneCurrent
<1>9. BaselineMatchesCurrent'
  <2>1. recs'[i].profile_hash = profile_hash(p)
    BY <1>5 DEF NewRec
  <2>2. \A e \in Loud : recs'[i].profile_hash[e] = p.weights[e]
    BY <2>1 DEF profile_hash
  <2>3. profile' # Absent
    BY <1>4, RowAssumption
  <2>. QED  BY <1>4, <1>5, <2>2, <2>3
            DEF BaselineMatchesCurrent, interest_vector
<1>10. task'[t] = r /\ \A v \in Tasks \ {t} : task'[v] = task[v]
  BY <1>3 DEF IInv, TypeOK
<1>11. HasProfile'
  BY <1>2, <1>4, <1>10, RowAssumption DEF IInv, HasProfile, InTransaction
<1>12. FlipExists'
  BY <1>2, <1>5, <1>10 DEF IInv, FlipExists
<1>13. \A v \in Tasks : ~LocksKey(v)'
  BY <1>1, <1>2, <1>10 DEF IInv, OneKeyLock, LocksKey
<1>14. OneKeyLock' /\ KeyIsTaken'
  BY <1>13 DEF OneKeyLock, KeyIsTaken
<1>. QED  BY <1>7, <1>8, <1>9, <1>11, <1>12, <1>14 DEF IInv

LEMMA StayStep ==
  ASSUME IInv, cooling' \in BOOLEAN,
         UNCHANGED <<stored, delivered, profile, recs, task, crashes>>
  PROVE  IInv'
<1>1. TypeOK' /\ RecIds' = RecIds /\ CurrentIds' = CurrentIds
  BY DEF IInv, TypeOK, RecIds, CurrentIds
<1>2. AtMostOneCurrent' /\ BaselineMatchesCurrent'
  BY <1>1 DEF IInv, AtMostOneCurrent, BaselineMatchesCurrent
<1>3. HasProfile' /\ FlipExists' /\ OneKeyLock' /\ KeyIsTaken'
  BY <1>1 DEF IInv, HasProfile, InTransaction, FlipExists, OneKeyLock,
              KeyIsTaken, LocksKey
<1>. QED  BY <1>1, <1>2, <1>3 DEF IInv
-----------------------------------------------------------------------------
THEOREM InitIInv == Init => IInv
<1>. SUFFICES ASSUME Init  PROVE IInv
  OBVIOUS
<1>1. TypeOK
  <2>1. stored \subseteq Events /\ cooling \in BOOLEAN
    BY Zenon DEF Init
  <2>2. delivered \in [Batches -> 0..MaxDeliveries]
    BY LoopAssumption DEF Init
  <2>3. recs \in [1..MaxRecs -> Rec \cup {Absent}]
    BY DEF Init
  <2>4. task \in [Tasks -> TaskState] /\ profile \in Profile \cup {Absent}
    BY IdleTaskType DEF Init
  <2>5. crashes \in 0..MaxCrashes
    <3>1. crashes = 0 /\ MaxCrashes \in Nat
      BY LoopAssumption DEF Init
    <3>. QED  BY <3>1
  <2>. QED  BY <2>1, <2>2, <2>3, <2>4, <2>5 DEF TypeOK
<1>2. CurrentIds = {}
  BY DEF Init, CurrentIds, RecIds
<1>3. AtMostOneCurrent /\ BaselineMatchesCurrent
  BY <1>2 DEF AtMostOneCurrent, BaselineMatchesCurrent
<1>4. \A t \in Tasks : task[t].pc = "idle" /\ task[t].flipped = 0
  BY DEF Init, IdleTask
<1>5. HasProfile /\ FlipExists /\ OneKeyLock /\ KeyIsTaken
  BY <1>4 DEF HasProfile, InTransaction, FlipExists, OneKeyLock, KeyIsTaken,
              LocksKey
<1>. QED  BY <1>1, <1>3, <1>5 DEF IInv

\* Steps of a running task that change only its own locals.
LEMMA ReadingSteps ==
  ASSUME IInv, NEW t \in Tasks,
         \/ ReadProfile(t) \/ GateProfile(t) \/ AgentProfile(t)
         \/ load_signals(t)
  PROVE  IInv'
<1>1. /\ task[t] \in TaskState
      /\ profile \in Profile \cup {Absent}
      /\ crashes \in 0..MaxCrashes
      /\ task[t].flipped # 0 => task[t].flipped \in RecIds
  BY DEF IInv, TypeOK, FlipExists
<1>2. ASSUME NEW pc \in TaskPC, pc \notin {"mark", "commit"},
             pc \in {"agent_rec", "load", "model", "flip", "blocked", "insert"}
                 => profile # Absent,
             task' = [task EXCEPT ![t] =
                        [task[t] EXCEPT !.pc = pc, !.prof = profile]],
             UNCHANGED <<stored, delivered, profile, cooling, recs, crashes>>
      PROVE  IInv'
  <2>. DEFINE r1 == [task[t] EXCEPT !.pc = pc]
              r  == [r1 EXCEPT !.prof = profile]
  <2>1. r1 \in TaskState /\ r1.pc = pc /\ r1.flipped = task[t].flipped
    BY <1>1 DEF TaskState
  <2>2. task' = [task EXCEPT ![t] = r]
    BY <1>2
  <2>. HIDE DEF r1
  <2>3. r \in TaskState /\ r.pc = pc /\ r.prof = profile
        /\ r.flipped = task[t].flipped
    BY <2>1, <1>1 DEF TaskState
  <2>. HIDE DEF r
  <2>. QED  BY <1>1, <1>2, <2>2, <2>3, LocalStep
<1>3. CASE ReadProfile(t)
  BY <1>2, <1>3 DEF ReadProfile, TaskPC
<1>4. CASE GateProfile(t)
  <2>1. CASE task[t].kind = "manual"
    BY <1>2, <1>4, <2>1 DEF GateProfile, TaskPC
  <2>2. CASE task[t].kind # "manual"
    BY <1>2, <1>4, <2>2 DEF GateProfile, TaskPC
  <2>. QED  BY <2>1, <2>2
<1>5. CASE AgentProfile(t)
  BY <1>2, <1>5 DEF AgentProfile, TaskPC
<1>6. CASE load_signals(t)
  <2>1. profile # Absent
    BY <1>6 DEF load_signals, IInv, HasProfile
  <2>. QED  BY <1>2, <1>6, <2>1 DEF load_signals, TaskPC
<1>. QED  BY <1>3, <1>4, <1>5, <1>6

LEMMA MovingSteps ==
  ASSUME IInv, NEW t \in Tasks,
         \/ GatePasses(t) \/ AgentRec(t) \/ ModelAnswers(t) \/ ModelFails(t)
         \/ RecordRaises(t)
  PROVE  IInv'
<1>1. CASE GatePasses(t)
  BY <1>1, GotoStep DEF GatePasses, TaskPC
<1>2. CASE AgentRec(t)
  <2>1. profile # Absent /\ task[t].prof # Absent
    BY <1>2 DEF AgentRec, IInv, HasProfile
  <2>. DEFINE pc == IF task[t].kind = "scheduled" /\ Unmoved(task[t].prof)
                    THEN "record_cache" ELSE "load"
  <2>2. pc \in {"record_cache", "load"}
    OBVIOUS
  <2>3. Goto(t, pc)
    BY <1>2 DEF AgentRec
  <2>. HIDE DEF pc
  <2>. QED  BY <1>2, <2>1, <2>2, <2>3, GotoStep DEF AgentRec, TaskPC
<1>3. CASE ModelAnswers(t)
  <2>1. profile # Absent /\ task[t].prof # Absent
    BY <1>3 DEF ModelAnswers, IInv, HasProfile
  <2>. QED  BY <1>3, <2>1, GotoStep DEF ModelAnswers, TaskPC
<1>4. CASE ModelFails(t)
  BY <1>4, GotoStep DEF ModelFails, TaskPC
<1>5. CASE RecordRaises(t)
  BY <1>5, GotoStep DEF RecordRaises, TaskPC
<1>. QED  BY <1>1, <1>2, <1>3, <1>4, <1>5

LEMMA FlippingSteps ==
  ASSUME IInv, NEW t \in Tasks,
         FlipRow(t) \/ FlipBlocks(t) \/ FlipResumes(t) \/ PersistFails(t)
  PROVE  IInv'
<1>1. /\ task[t] \in TaskState
      /\ crashes \in 0..MaxCrashes
      /\ InTransaction(t) => profile # Absent /\ task[t].prof # Absent
  BY DEF IInv, TypeOK, HasProfile
<1>2. ASSUME NEW pc \in {"insert", "blocked", "record_error"},
             NEW i \in RecIds \cup {0}, InTransaction(t),
             task' = [task EXCEPT ![t] =
                        [task[t] EXCEPT !.pc = pc, !.flipped = i]],
             UNCHANGED <<stored, delivered, profile, cooling, recs, crashes>>
      PROVE  IInv'
  <2>. DEFINE r1 == [task[t] EXCEPT !.pc = pc]
              r  == [r1 EXCEPT !.flipped = i]
  <2>1. r1 \in TaskState /\ r1.pc = pc /\ r1.prof = task[t].prof
    BY <1>1 DEF TaskState, TaskPC
  <2>2. task' = [task EXCEPT ![t] = r]
    BY <1>2
  <2>3. i \in 0..MaxRecs
    BY LoopAssumption DEF RecIds
  <2>. HIDE DEF r1
  <2>4. r \in TaskState /\ r.pc = pc /\ r.prof = task[t].prof /\ r.flipped = i
    BY <2>1, <2>3 DEF TaskState
  <2>. HIDE DEF r
  <2>. QED  BY <1>1, <1>2, <2>2, <2>4, LocalStep
<1>3. CurrentIds \subseteq RecIds
  BY DEF CurrentIds
<1>4. CASE FlipRow(t)
  <2>1. InTransaction(t)
    BY <1>4 DEF FlipRow, InTransaction
  <2>2. CASE Goto(t, "insert")
    BY <1>1, <1>4, <2>1, <2>2, GotoStep DEF FlipRow, TaskPC
  <2>3. CASE ~Goto(t, "insert")
    <3>1. PICK i \in CurrentIds :
            task' = [task EXCEPT ![t] =
                       [task[t] EXCEPT !.pc = "insert", !.flipped = i]]
      BY <1>4, <2>3 DEF FlipRow
    <3>. QED  BY <1>2, <1>3, <1>4, <2>1, <3>1 DEF FlipRow
  <2>. QED  BY <2>2, <2>3
<1>5. CASE FlipBlocks(t)
  <2>1. InTransaction(t)
    BY <1>5 DEF FlipBlocks, InTransaction
  <2>2. PICK i \in CurrentIds :
          task' = [task EXCEPT ![t] =
                     [task[t] EXCEPT !.pc = "blocked", !.flipped = i]]
    BY <1>5 DEF FlipBlocks
  <2>. QED  BY <1>2, <1>3, <1>5, <2>1, <2>2 DEF FlipBlocks
<1>6. CASE FlipResumes(t)
  <2>. DEFINE i == IF task[t].flipped \in CurrentIds THEN task[t].flipped ELSE 0
  <2>1. InTransaction(t)
    BY <1>6 DEF FlipResumes, InTransaction
  <2>2. i \in RecIds \cup {0}
    BY <1>3
  <2>3. task' = [task EXCEPT ![t] =
                   [task[t] EXCEPT !.pc = "insert", !.flipped = i]]
    BY <1>6 DEF FlipResumes
  <2>. HIDE DEF i
  <2>. QED  BY <1>2, <1>6, <2>1, <2>2, <2>3 DEF FlipResumes
<1>7. CASE PersistFails(t)
  <2>1. InTransaction(t)
    BY <1>7 DEF PersistFails, InTransaction
  <2>. QED  BY <1>2, <1>7, <2>1 DEF PersistFails
<1>. QED  BY <1>4, <1>5, <1>6, <1>7

LEMMA EndingSteps ==
  ASSUME IInv, NEW t \in Tasks,
         \/ GateRefuses(t) \/ GateHolds(t) \/ AgentSkips(t) \/ RecordRun(t)
         \/ CrashTask(t)
  PROVE  IInv'
<1>1. crashes \in 0..MaxCrashes
  BY DEF IInv, TypeOK
<1>2. CASE GateRefuses(t)
  BY <1>1, <1>2, FinishStep DEF GateRefuses
<1>3. CASE GateHolds(t)
  BY <1>1, <1>3, FinishStep DEF GateHolds
<1>4. CASE AgentSkips(t)
  BY <1>1, <1>4, FinishStep DEF AgentSkips
<1>5. CASE RecordRun(t)
  BY <1>1, <1>5, FinishStep DEF RecordRun
<1>6. CASE CrashTask(t)
  <2>1. crashes' \in 0..MaxCrashes
    BY <1>1, <1>6, LoopAssumption DEF CrashTask
  <2>. QED  BY <1>6, <2>1, FinishStep DEF CrashTask
<1>. QED  BY <1>2, <1>3, <1>4, <1>5, <1>6

LEMMA StartStep ==
  ASSUME IInv, NEW t \in Tasks, NEW c \in Callers, StartTask(t, c)
  PROVE  IInv'
<1>. DEFINE pc == IF c = "manual" THEN "gate" ELSE "agent"
            r1 == [IdleTask EXCEPT !.pc = pc]
            r  == [r1 EXCEPT !.kind = c]
<1>1. c \in {"manual", "scheduled"}
  BY LoopAssumption
<1>2. r1 \in TaskState /\ r1.pc \in {"gate", "agent"} /\ r1.flipped = 0
  BY IdleTaskType DEF IdleTask, TaskState, TaskPC
<1>3. task' = [task EXCEPT ![t] = r]
  BY DEF StartTask
<1>. HIDE DEF r1
<1>4. r \in TaskState /\ r.pc \in {"gate", "agent"} /\ r.flipped = 0
  BY <1>1, <1>2 DEF TaskState
<1>5. crashes \in 0..MaxCrashes
  BY DEF IInv, TypeOK
<1>. HIDE DEF r
<1>. QED  BY <1>3, <1>4, <1>5, LocalStep DEF StartTask

THEOREM NextIInv == IInv /\ [Next]_vars => IInv'
<1>. SUFFICES ASSUME IInv, [Next]_vars  PROVE IInv'
  OBVIOUS
<1>1. ASSUME NEW t \in Tasks, NEW b \in Batches, ingest(t, b)  PROVE IInv'
  BY <1>1, IngestStep
<1>2. ASSUME NEW t \in Tasks, NEW c \in Callers, StartTask(t, c)  PROVE IInv'
  BY <1>2, StartStep
<1>3. ASSUME NEW t \in Tasks, TaskStep(t)  PROVE IInv'
  BY <1>3, ReadingSteps, MovingSteps, FlippingSteps, EndingSteps, UpsertStep,
     InsertStep, MarkStep, CommitStep
  DEF TaskStep, Progress, DuplicateKey
<1>4. ASSUME NEW t \in Tasks, CrashTask(t)  PROVE IInv'
  BY <1>4, EndingSteps
<1>5. CASE CooldownEnds
  BY <1>5, StayStep DEF CooldownEnds
<1>6. CASE UNCHANGED vars
  <2>1. cooling' \in BOOLEAN
    BY <1>6 DEF vars, IInv, TypeOK
  <2>. QED  BY <1>6, <2>1, StayStep DEF vars
<1>. QED  BY <1>1, <1>2, <1>3, <1>4, <1>5, <1>6 DEF Next

\* The inductive invariant, for any number of tasks, batches and crashes.
THEOREM LoopInvariant == Spec => []IInv
<1>. QED  BY InitIInv, NextIInv, PTL DEF Spec

\* Every variable keeps its shape.
THEOREM LoopTypeCorrect == Spec => []TypeOK
<1>1. IInv => TypeOK
  BY DEF IInv
<1>. QED  BY <1>1, LoopInvariant, PTL

\* However many runs persist at the same time, and wherever they fail or die,
\* at most one recommendation of the user is current.
THEOREM OneCurrentRecommendation == Spec => []AtMostOneCurrent
<1>1. IInv => AtMostOneCurrent
  BY DEF IInv
<1>. QED  BY <1>1, LoopInvariant, PTL

\* The drift baseline always belongs to the current recommendation.
THEOREM BaselineBelongsToCurrent == Spec => []BaselineMatchesCurrent
<1>1. IInv => BaselineMatchesCurrent
  BY DEF IInv
<1>. QED  BY <1>1, LoopInvariant, PTL
-----------------------------------------------------------------------------
(* The recommendations and the counter implement RecommendationLog.        *)

\* Recommendations are numbered without a gap, and the last is current.
Numbered ==
    \E n \in Nat :
        /\ RecIds = 1..n
        /\ CurrentIds = IF n = 0 THEN {} ELSE {n}

LEMMA LatestIsLast ==
  ASSUME NEW n \in Nat, CurrentIds = IF n = 0 THEN {} ELSE {n}
  PROVE  Latest = n
BY DEF Latest

LEMMA CounterType ==
  ASSUME TypeOK, profile # Absent
  PROVE  profile.events_since_gen \in Nat
<1>1. profile \in Profile
  BY DEF TypeOK
<1>. QED  BY <1>1 DEF Profile

\* Most steps do not touch what the log is read from.
LEMMA QuietRefines ==
  ASSUME Numbered, UNCHANGED <<profile, recs>>
  PROVE  Numbered' /\ UNCHANGED Log!logVars
<1>1. RecIds' = RecIds /\ CurrentIds' = CurrentIds
  BY DEF RecIds, CurrentIds
<1>2. Latest' = Latest
  BY <1>1 DEF Latest
<1>. QED  BY <1>1, <1>2 DEF Numbered, Log!logVars

\* A batch is added to the counter in place: what was counted stays counted.
LEMMA UpsertRefines ==
  ASSUME IInv, Numbered, NEW t \in Tasks, upsert_profile(t)
  PROVE  Numbered' /\ Log!Count
<1>. DEFINE n == Cardinality(task[t].batch \cap Countable)
            s == IF profile = Absent THEN 0 ELSE profile.events_since_gen
<1>1. task[t].batch \in SUBSET Events /\ TypeOK
  BY DEF IInv, TypeOK, TaskState
<1>2. n \in Nat /\ s \in Nat
  BY <1>1, CountType, CounterType
<1>3. profile' \in Profile /\ profile' # Absent
  BY UpsertedProfile
<1>4. profile'.events_since_gen = n + s
  BY DEF upsert_profile
<1>5. RecIds' = RecIds /\ CurrentIds' = CurrentIds /\ recs' = recs
  BY DEF upsert_profile, RecIds, CurrentIds
<1>6. Latest' = Latest /\ Numbered'
  BY <1>5 DEF Latest, Numbered
<1>. HIDE DEF n
<1>7. n + s \in Nat /\ n + s >= s
  BY <1>2
<1>. QED  BY <1>3, <1>4, <1>5, <1>6, <1>7 DEF Log!Count

\* The committed recommendation takes the next number, whichever runs began
\* before it, and the counter starts again with it.
LEMMA CommitRefines ==
  ASSUME IInv, Numbered, NEW t \in Tasks, Commit(t)
  PROVE  Numbered' /\ Log!Generate
<1>1. PICK n \in Nat :
        /\ RecIds = 1..n
        /\ CurrentIds = IF n = 0 THEN {} ELSE {n}
  BY DEF Numbered
<1>2. /\ profile' \in Profile
      /\ profile'.events_since_gen = 0
  BY CommitWrites
<1>3. PICK i \in (1..MaxRecs) \ RecIds :
        /\ \A j \in 1..(i - 1) : j \in RecIds
        /\ RecIds' = RecIds \cup {i}
        /\ CurrentIds' = {i}
        /\ \A j \in RecIds : recs'[j].profile_hash = recs[j].profile_hash
  BY CommitWrites
<1>4. i = n + 1
  <2>1. i \in Nat /\ i >= 1 /\ ~(i <= n)
    BY <1>1, <1>3, LoopAssumption
  <2>2. ASSUME i > n + 1  PROVE FALSE
    <3>1. n + 1 \in 1..(i - 1)
      BY <2>1, <2>2
    <3>2. n + 1 \in 1..n
      BY <1>1, <1>3, <3>1
    <3>. QED  BY <3>2
  <2>. QED  BY <2>1, <2>2
<1>5. RecIds' = 1..(n + 1) /\ CurrentIds' = {n + 1} /\ n + 1 # 0
  BY <1>1, <1>3, <1>4
<1>6. Numbered'
  BY <1>5 DEF Numbered
<1>7. Latest = n /\ Latest' = n + 1
  BY <1>1, <1>5, LatestIsLast DEF Latest
<1>8. profile' # Absent
  BY <1>2, RowAssumption
<1>9. Log!Generate
  BY <1>1, <1>2, <1>3, <1>5, <1>7, <1>8 DEF Log!Generate
<1>. QED  BY <1>6, <1>9

LEMMA InitRefines == Init => Numbered /\ Log!Init
<1>. SUFFICES ASSUME Init  PROVE Numbered /\ Log!Init
  OBVIOUS
<1>1. RecIds = {} /\ CurrentIds = {} /\ profile = Absent
  BY DEF Init, RecIds, CurrentIds
<1>2. 0 \in Nat /\ 1..0 = {}
  OBVIOUS
<1>3. Numbered
  BY <1>1, <1>2 DEF Numbered
<1>4. Latest = 0
  BY <1>1 DEF Latest
<1>. QED  BY <1>1, <1>3, <1>4 DEF Log!Init

LEMMA StepRefines ==
  IInv /\ Numbered /\ [Next]_vars => Numbered' /\ [Log!Next]_Log!logVars
<1>. SUFFICES ASSUME IInv, Numbered, [Next]_vars
              PROVE  Numbered' /\ [Log!Next]_Log!logVars
  OBVIOUS
<1>1. CASE UNCHANGED <<profile, recs>>
  BY <1>1, QuietRefines
<1>2. ASSUME NEW t \in Tasks, upsert_profile(t)
      PROVE  Numbered' /\ [Log!Next]_Log!logVars
  BY <1>2, UpsertRefines DEF Log!Next
<1>3. ASSUME NEW t \in Tasks, Commit(t)
      PROVE  Numbered' /\ [Log!Next]_Log!logVars
  BY <1>3, CommitRefines DEF Log!Next
<1>4. ASSUME NEW t \in Tasks, TaskStep(t), ~upsert_profile(t), ~Commit(t)
      PROVE  UNCHANGED <<profile, recs>>
  BY <1>4
     DEF TaskStep, Progress, ReadProfile, GateRefuses, GateProfile,
         GatePasses, GateHolds, AgentSkips, AgentProfile, AgentRec,
         load_signals, ModelAnswers, ModelFails, FlipRow, FlipBlocks,
         FlipResumes, InsertCurrent, DuplicateKey, PersistFails,
         mark_generated, RecordRun, RecordRaises
<1>. QED
  BY <1>1, <1>2, <1>3, <1>4
     DEF Next, vars, ingest, StartTask, CrashTask, CooldownEnds

\* What readers rely on, for any number of overlapping runs, failures and
\* crashes: no recommendation is lost, the last one committed is current, and
\* the counter starts again in that step and never otherwise goes down.
THEOREM RunsKeepTheLog == Spec => KeepsTheLog
<1>1. Init => Numbered /\ Log!Init
  BY InitRefines
<1>2. IInv /\ Numbered /\ [Next]_vars => Numbered' /\ [Log!Next]_Log!logVars
  BY StepRefines
<1>. QED  BY <1>1, <1>2, LoopInvariant, PTL DEF Spec, KeepsTheLog, Log!Spec
-----------------------------------------------------------------------------
(* Runs and batches never all wait for one another.                        *)

LockPoints == {"insert", "mark", "commit"}

\* A step of one task that takes no row lock somebody else holds.
LEMMA LockStep ==
  ASSUME IInv, RowLocks, NEW t \in Tasks, NEW r,
         task' = [task EXCEPT ![t] = r],
         r.flipped # 0 => r.pc = "blocked" \/ r.pc \in LockPoints,
         r.pc \in LockPoints =>
            \/ r.flipped = task[t].flipped /\ task[t].pc \in LockPoints
            \/ r.flipped = 0
            \/ \A v \in Tasks : ~LocksRow(v, r.flipped)
  PROVE  RowLocks'
<1>1. task'[t] = r /\ \A v \in Tasks \ {t} : task'[v] = task[v]
  BY DEF IInv, TypeOK
<1>2. \A v \in Tasks \ {t} : \A i : LocksRow(v, i)' <=> LocksRow(v, i)
  BY <1>1 DEF LocksRow
<1>3. ASSUME NEW v \in Tasks \ {t}, NEW i \in 1..MaxRecs,
             LocksRow(t, i)', LocksRow(v, i)'
      PROVE  FALSE
  <2>1. r.flipped = i /\ r.pc \in LockPoints /\ i # 0
    BY <1>1, <1>3 DEF LocksRow, LockPoints
  <2>2. LocksRow(v, i)
    BY <1>2, <1>3
  <2>3. LocksRow(t, i)
    BY <2>1, <2>2 DEF LocksRow, LockPoints
  <2>. QED  BY <2>2, <2>3 DEF RowLocks, OneRowLock
<1>4. OneRowLock'
  BY <1>2, <1>3 DEF RowLocks, OneRowLock
<1>5. FlippedInside'
  BY <1>1 DEF RowLocks, FlippedInside, LockPoints
<1>. QED  BY <1>4, <1>5 DEF RowLocks

\* The same for a step that only moves the program point.
LEMMA LockGoto ==
  ASSUME IInv, RowLocks, NEW t \in Tasks, NEW pc, Goto(t, pc),
         task[t].pc # "blocked",
         pc \in LockPoints \/ task[t].pc \notin LockPoints
  PROVE  RowLocks'
<1>. DEFINE r == [task[t] EXCEPT !.pc = pc]
<1>1. task[t] \in TaskState
  BY DEF IInv, TypeOK
<1>2. r.pc = pc /\ r.flipped = task[t].flipped /\ task' = [task EXCEPT ![t] = r]
  BY <1>1 DEF TaskState, Goto
<1>3. task[t].flipped # 0 => task[t].pc \in LockPoints
  BY DEF RowLocks, FlippedInside, LockPoints
<1>. HIDE DEF r
<1>. QED  BY <1>2, <1>3, LockStep

LEMMA LockFinish ==
  ASSUME IInv, RowLocks, NEW t \in Tasks, Finish(t)
  PROVE  RowLocks'
<1>1. IdleTask.flipped = 0 /\ IdleTask.pc \notin LockPoints
  BY DEF IdleTask, LockPoints
<1>. QED  BY <1>1, LockStep DEF Finish

\* The same for a step that sets program point and flipped row.
LEMMA LockFlip ==
  ASSUME IInv, RowLocks, NEW t \in Tasks, NEW pc, NEW i,
         task' = [task EXCEPT ![t] =
                    [task[t] EXCEPT !.pc = pc, !.flipped = i]],
         i # 0 => pc = "blocked" \/ pc \in LockPoints,
         pc \in LockPoints =>
            i = 0 \/ \A v \in Tasks : ~LocksRow(v, i)
  PROVE  RowLocks'
<1>. DEFINE r1 == [task[t] EXCEPT !.pc = pc]
            r  == [r1 EXCEPT !.flipped = i]
<1>1. task[t] \in TaskState
  BY DEF IInv, TypeOK
<1>2. r1.pc = pc /\ r1 = [f \in DOMAIN task[t] |-> r1[f]]
        /\ DOMAIN r1 = {"pc", "kind", "batch", "prof", "flipped"}
  BY <1>1 DEF TaskState
<1>. HIDE DEF r1
<1>3. r.pc = pc /\ r.flipped = i
  BY <1>2
<1>4. task' = [task EXCEPT ![t] = r]
  BY DEF r1
<1>. HIDE DEF r
<1>. QED  BY <1>3, <1>4, LockStep

\* The same for a step that reads the profile.
LEMMA LockRead ==
  ASSUME IInv, RowLocks, NEW t \in Tasks, NEW pc, NEW p,
         task' = [task EXCEPT ![t] =
                    [task[t] EXCEPT !.pc = pc, !.prof = p]],
         task[t].pc # "blocked", task[t].pc \notin LockPoints,
         pc \notin LockPoints
  PROVE  RowLocks'
<1>. DEFINE r1 == [task[t] EXCEPT !.pc = pc]
            r  == [r1 EXCEPT !.prof = p]
<1>1. task[t] \in TaskState /\ task[t].flipped = 0
  BY DEF IInv, TypeOK, RowLocks, FlippedInside, LockPoints
<1>2. r1.pc = pc /\ r1.flipped = 0 /\ r1 = [f \in DOMAIN task[t] |-> r1[f]]
        /\ DOMAIN r1 = {"pc", "kind", "batch", "prof", "flipped"}
  BY <1>1 DEF TaskState
<1>. HIDE DEF r1
<1>3. r.pc = pc /\ r.flipped = 0
  BY <1>2
<1>4. task' = [task EXCEPT ![t] = r]
  BY DEF r1
<1>. HIDE DEF r
<1>. QED  BY <1>3, <1>4, LockStep

LEMMA LockReads ==
  ASSUME IInv, RowLocks, NEW t \in Tasks,
         ReadProfile(t) \/ GateProfile(t) \/ AgentProfile(t) \/ load_signals(t)
  PROVE  RowLocks'
<1>1. CASE ReadProfile(t)
  BY <1>1, LockRead DEF ReadProfile, LockPoints
<1>2. CASE GateProfile(t)
  <2>. DEFINE pc == IF task[t].kind = "manual" THEN "agent" ELSE "gate_rec"
  <2>1. task' = [task EXCEPT ![t] =
                   [task[t] EXCEPT !.pc = pc, !.prof = profile]]
    BY <1>2 DEF GateProfile
  <2>2. task[t].pc = "gate" /\ pc \notin LockPoints
    BY <1>2 DEF GateProfile, LockPoints
  <2>3. task[t].pc # "blocked" /\ task[t].pc \notin LockPoints
    BY <2>2 DEF LockPoints
  <2>. HIDE DEF pc
  <2>. QED  BY <2>1, <2>2, <2>3, LockRead
<1>3. CASE AgentProfile(t)
  BY <1>3, LockRead DEF AgentProfile, LockPoints
<1>4. CASE load_signals(t)
  <2>1. /\ task[t].pc = "load"
        /\ task' = [task EXCEPT ![t] =
                      [task[t] EXCEPT !.pc = "model", !.prof = profile]]
    BY <1>4 DEF load_signals
  <2>2. /\ task[t].pc # "blocked" /\ task[t].pc \notin LockPoints
        /\ "model" \notin LockPoints
    BY <2>1 DEF LockPoints
  <2>. QED  BY <2>1, <2>2, LockRead
<1>. QED  BY <1>1, <1>2, <1>3, <1>4

LEMMA LockMoves ==
  ASSUME IInv, RowLocks, NEW t \in Tasks,
         \/ upsert_profile(t) \/ GatePasses(t)
         \/ AgentRec(t) \/ ModelAnswers(t) \/ ModelFails(t)
         \/ InsertCurrent(t) \/ mark_generated(t) \/ RecordRaises(t)
  PROVE  RowLocks'
<1>1. CASE upsert_profile(t)
  BY <1>1, LockGoto DEF upsert_profile, LockPoints
<1>2. CASE GatePasses(t)
  BY <1>2, LockGoto DEF GatePasses, LockPoints
<1>3. CASE AgentRec(t)
  BY <1>3, LockGoto DEF AgentRec, LockPoints
<1>4. CASE ModelAnswers(t) \/ ModelFails(t)
  BY <1>4, LockGoto DEF ModelAnswers, ModelFails, LockPoints
<1>5. CASE InsertCurrent(t)
  BY <1>5, LockGoto DEF InsertCurrent, LockPoints
<1>6. CASE mark_generated(t)
  BY <1>6, LockGoto DEF mark_generated, LockPoints
<1>7. CASE RecordRaises(t)
  BY <1>7, LockGoto DEF RecordRaises, LockPoints
<1>. QED  BY <1>1, <1>2, <1>3, <1>4, <1>5, <1>6, <1>7

\* The steps that take or give up the lock of a row: a row that somebody has
\* flipped is waited for, and taken only when it is free.
LEMMA LockFlips ==
  ASSUME IInv, RowLocks, NEW t \in Tasks,
         \/ FlipRow(t) \/ FlipBlocks(t) \/ FlipResumes(t)
         \/ PersistFails(t) \/ Commit(t)
  PROVE  RowLocks'
<1>1. CASE FlipRow(t)
  <2>1. CASE Goto(t, "insert")
    BY <1>1, <2>1, LockGoto DEF FlipRow, LockPoints
  <2>2. CASE ~Goto(t, "insert")
    <3>1. PICK i \in CurrentIds :
            /\ \A v \in Tasks : ~LocksRow(v, i)
            /\ task' = [task EXCEPT ![t] =
                  [task[t] EXCEPT !.pc = "insert", !.flipped = i]]
      BY <1>1, <2>2 DEF FlipRow
    <3>. QED  BY <3>1, LockFlip DEF LockPoints
  <2>. QED  BY <2>1, <2>2
<1>2. CASE FlipBlocks(t)
  <2>1. PICK i \in CurrentIds :
          task' = [task EXCEPT ![t] =
                     [task[t] EXCEPT !.pc = "blocked", !.flipped = i]]
    BY <1>2 DEF FlipBlocks
  <2>. QED  BY <2>1, LockFlip DEF LockPoints
<1>3. CASE FlipResumes(t)
  <2>. DEFINE i == IF task[t].flipped \in CurrentIds THEN task[t].flipped ELSE 0
  <2>1. task' = [task EXCEPT ![t] =
                   [task[t] EXCEPT !.pc = "insert", !.flipped = i]]
    BY <1>3 DEF FlipResumes
  <2>2. i = 0 \/ \A v \in Tasks : ~LocksRow(v, i)
    BY <1>3 DEF FlipResumes
  <2>. HIDE DEF i
  <2>. QED  BY <2>1, <2>2, LockFlip DEF LockPoints
<1>4. CASE PersistFails(t)
  BY <1>4, LockFlip DEF PersistFails, LockPoints
<1>5. CASE Commit(t)
  BY <1>5, LockFlip DEF Commit, LockPoints
<1>. QED  BY <1>1, <1>2, <1>3, <1>4, <1>5

LEMMA LockStarts ==
  ASSUME IInv, RowLocks, NEW t \in Tasks,
         (\E b \in Batches : ingest(t, b)) \/ (\E c \in Callers : StartTask(t, c))
  PROVE  RowLocks'
<1>1. CASE \E b \in Batches : ingest(t, b)
  <2>1. PICK b \in Batches : ingest(t, b)
    BY <1>1
  <2>. DEFINE r == [IdleTask EXCEPT !.pc = "read", !.batch = b]
  <2>2. r.flipped = 0 /\ r.pc = "read"
    BY DEF IdleTask
  <2>. QED  BY <2>1, <2>2, LockStep DEF ingest, LockPoints
<1>2. CASE \E c \in Callers : StartTask(t, c)
  <2>1. PICK c \in Callers : StartTask(t, c)
    BY <1>2
  <2>. DEFINE pc == IF c = "manual" THEN "gate" ELSE "agent"
              r  == [IdleTask EXCEPT !.pc = pc, !.kind = c]
  <2>2. r.flipped = 0 /\ r.pc \notin LockPoints
    BY DEF IdleTask, LockPoints
  <2>3. task' = [task EXCEPT ![t] = r]
    BY <2>1 DEF StartTask
  <2>. HIDE DEF r
  <2>. QED  BY <2>2, <2>3, LockStep
<1>. QED  BY <1>1, <1>2

LEMMA LockStays ==
  ASSUME RowLocks, UNCHANGED task
  PROVE  RowLocks'
BY DEF RowLocks, OneRowLock, FlippedInside, LocksRow

LEMMA NextLocks == IInv /\ RowLocks /\ [Next]_vars => RowLocks'
<1>. SUFFICES ASSUME IInv, RowLocks, [Next]_vars  PROVE RowLocks'
  OBVIOUS
<1>1. ASSUME NEW t \in Tasks,
             \/ GateRefuses(t) \/ GateHolds(t) \/ AgentSkips(t)
             \/ RecordRun(t) \/ CrashTask(t)
      PROVE  RowLocks'
  BY <1>1, LockFinish DEF GateRefuses, GateHolds, AgentSkips, RecordRun, CrashTask
<1>2. ASSUME NEW t \in Tasks, TaskStep(t)  PROVE RowLocks'
  BY <1>1, <1>2, LockReads, LockMoves, LockFlips
     DEF TaskStep, Progress, DuplicateKey
<1>3. CASE CooldownEnds \/ UNCHANGED vars
  BY <1>3, LockStays DEF CooldownEnds, vars
<1>. QED  BY <1>1, <1>2, <1>3, LockStarts DEF Next

\* The task to look at: one that is about to commit waits for nobody; failing
\* that one that is about to lock the profile; failing that the one that has
\* flipped the current row, or anybody at the insert; failing that anybody.
LEMMA NoCircle ==
  ASSUME IInv, RowLocks
  PROVE  SomeoneGoesOn
<1>. SUFFICES ASSUME NEW s \in Tasks, AtTheDatabase(s)
              PROVE  \E t \in Tasks : AtTheDatabase(t) /\ ~HeldUp(t)
  BY DEF SomeoneGoesOn
<1>1. CASE \E t \in Tasks : task[t].pc = "commit"
  BY <1>1 DEF AtTheDatabase, InTransaction, HeldUp
<1>2. ASSUME \A t \in Tasks : task[t].pc # "commit",
             NEW t \in Tasks, task[t].pc \in {"write", "mark"}
      PROVE  AtTheDatabase(t) /\ ~HeldUp(t)
  BY <1>2 DEF AtTheDatabase, InTransaction, HeldUp, LocksProfile
<1>3. ASSUME \A t \in Tasks : task[t].pc \notin {"mark", "commit"},
             NEW t \in Tasks, task[t].pc = "insert",
             \/ \E i \in CurrentIds : LocksRow(t, i)
             \/ \A v \in Tasks : \A i \in CurrentIds : ~LocksRow(v, i)
      PROVE  AtTheDatabase(t) /\ ~HeldUp(t)
  <2>1. \A v \in Tasks : ~LocksKey(v)
    BY <1>3 DEF LocksKey
  <2>2. \A v \in Tasks \ {t} : \A i \in CurrentIds : ~LocksRow(v, i)
    BY <1>3 DEF IInv, AtMostOneCurrent, RowLocks, OneRowLock, CurrentIds, RecIds
  <2>. QED  BY <1>3, <2>1, <2>2 DEF AtTheDatabase, InTransaction, HeldUp, KeyFree
<1>4. CASE /\ \A t \in Tasks : task[t].pc \notin {"mark", "commit"}
           /\ \E t \in Tasks : task[t].pc = "insert"
  <2>1. PICK t \in Tasks : task[t].pc = "insert"
    BY <1>4
  <2>2. CASE \A v \in Tasks : \A i \in CurrentIds : ~LocksRow(v, i)
    BY <1>3, <1>4, <2>1, <2>2
  <2>3. CASE \E v \in Tasks : \E i \in CurrentIds : LocksRow(v, i)
    <3>1. PICK v \in Tasks : \E i \in CurrentIds : LocksRow(v, i)
      BY <2>3
    <3>2. task[v].pc = "insert"
      BY <1>4, <3>1 DEF LocksRow
    <3>. QED  BY <1>3, <1>4, <3>1, <3>2
  <2>. QED  BY <2>2, <2>3
<1>5. CASE \A t \in Tasks : task[t].pc \notin {"write", "insert", "mark", "commit"}
  BY <1>5 DEF AtTheDatabase, InTransaction, HeldUp, LocksRow
<1>. QED  BY <1>1, <1>2, <1>4, <1>5

\* Whatever order overlapping runs and batches come to the flipped row, the
\* key of the new row and the profile row in, somebody can always go on: the
\* persist transactions cannot deadlock, for any number of tasks.
THEOREM NoCircleOfLocks == Spec => []SomeoneGoesOn
<1>1. Init => RowLocks
  BY DEF Init, IdleTask, RowLocks, OneRowLock, FlippedInside, LocksRow
<1>2. IInv /\ RowLocks => SomeoneGoesOn
  BY NoCircle
<1>. QED  BY <1>1, <1>2, NextLocks, LoopInvariant, PTL DEF Spec
-----------------------------------------------------------------------------
(* What overlapping tasks lose, and that they lose nothing else.           *)

\* Only a run that has read its signals has anything to be late for.
LateWhileAnswering == \A t \in Tasks : ~Answering(t) => late[t] = {}

FoldsABatch == \A t \in Tasks : Reading(t) => task[t].batch \in Batches

\* What a task read and writes from is the profile as it is, but for events
\* that are overtaken ...
Fresh ==
    \A t \in Tasks : task[t].pc = "write" =>
        \A e \in Countable \ overtaken :
            Weight(task[t].prof, e) = Weight(profile, e)

\* ... and what a run read its signals from, but for those that came late.
Snapshot ==
    \A t \in Tasks : Answering(t) =>
        \A e \in Loud \ (overtaken \cup late[t]) :
            Weight(task[t].prof, e) = Weight(profile, e)

HInv ==
    /\ HistoryTypeOK
    /\ LateWhileAnswering
    /\ FoldsABatch
    /\ Fresh
    /\ Snapshot
    /\ EveryBatchCounted
    /\ CounterCoversMoves

Moved(i) ==
    {e \in Loud \ (overtaken \cup missed) :
        profile.weights[e] > recs[i].profile_hash[e]}

\* Tasks that do not move fold, commit and lose nothing.
LEMMA OthersStay ==
  ASSUME TypeOK, NEW t \in Tasks, NEW r, task' = [task EXCEPT ![t] = r]
  PROVE  /\ task'[t] = r
         /\ \A v \in Tasks \ {t} :
               /\ task'[v] = task[v]
               /\ ~Folds(v) /\ ~Commits(v) /\ ~LosesBatch(v)
               /\ Answering(v)' = Answering(v)
               /\ Reading(v)' = Reading(v)
<1>1. task'[t] = r /\ \A v \in Tasks \ {t} : task'[v] = task[v]
  BY DEF TypeOK
<1>2. ASSUME NEW v \in Tasks \ {t}
      PROVE  /\ ~Folds(v) /\ ~Commits(v) /\ ~LosesBatch(v)
             /\ Answering(v)' = Answering(v)
             /\ Reading(v)' = Reading(v)
  <2>1. task'[v] = task[v]
    BY <1>1
  <2>2. ~Folds(v) /\ ~Commits(v)
    BY <2>1 DEF Folds, Commits
  <2>3. ~LosesBatch(v)
    BY <2>1, <2>2 DEF LosesBatch, Reading
  <2>. QED  BY <2>1, <2>2, <2>3 DEF Answering, InTransaction, Reading
<1>. QED  BY <1>1, <1>2

LEMMA FewerMoved ==
  ASSUME NEW i, NEW j, Moved(j)' \subseteq Moved(i)
  PROVE  /\ Cardinality(Moved(i)) \in Nat /\ Cardinality(Moved(j)') \in Nat
         /\ Cardinality(Moved(j)') <= Cardinality(Moved(i))
<1>1. Moved(i) \subseteq Events
  BY LoopAssumption DEF Moved
<1>2. IsFiniteSet(Moved(i))
  BY <1>1, LoopAssumption, FS_Subset
<1>. QED  BY <1>2, FS_Subset, FS_CardinalityType

\* A step that keeps profile, counters and who is on the way, and of one task
\* at most the locals that the history does not look at.
Keeps(t, r) ==
    LET answering == {"model", "flip", "blocked", "insert", "mark", "commit"} IN
    /\ r \in TaskState
    /\ task' = [task EXCEPT ![t] = r]
    /\ UNCHANGED <<delivered, profile, recs>>
    /\ r.pc \in {"read", "write"} <=> Reading(t)
    /\ Reading(t) => r.batch = task[t].batch
    /\ r.pc = "write" => r.prof = profile
    /\ r.pc \in answering
          => r.prof = IF Answering(t) THEN task[t].prof ELSE profile
    /\ task[t].pc = "commit" => r.pc # "record"

LEMMA KeepsHistory ==
  ASSUME TypeOK, HInv, NEW t \in Tasks, NEW r, Keeps(t, r), Observe
  PROVE  HInv'
<1>1. /\ task'[t] = r
      /\ \A v \in Tasks \ {t} :
            /\ task'[v] = task[v]
            /\ ~Folds(v) /\ ~Commits(v) /\ ~LosesBatch(v)
            /\ Answering(v)' = Answering(v)
            /\ Reading(v)' = Reading(v)
  BY OthersStay DEF Keeps
<1>2. UNCHANGED <<delivered, profile, recs>>
  BY DEF Keeps
<1>3. ~Folds(t) /\ ~Commits(t) /\ ~LosesBatch(t) /\ Reading(t)' = Reading(t)
  BY <1>1 DEF Keeps, Folds, Commits, LosesBatch, Reading
<1>4. /\ overtaken' = overtaken
      /\ missed' = missed
      /\ late' = [v \in Tasks |-> IF Answering(v)' THEN late[v] ELSE {}]
  <2>1. \A v \in Tasks : ~Folds(v) /\ ~Commits(v) /\ ~LosesBatch(v)
    BY <1>1, <1>3
  <2>2. BatchesOf({v \in Tasks : LosesBatch(v)}) = {}
    BY <2>1 DEF BatchesOf
  <2>3. BatchesOf({v \in Tasks : Folds(v)}) = {}
    BY <2>1 DEF BatchesOf
  <2>. QED  BY <2>1, <2>2, <2>3 DEF Observe
<1>5. HistoryTypeOK'
  BY <1>4 DEF HInv, HistoryTypeOK
<1>6. LateWhileAnswering'
  BY <1>4 DEF LateWhileAnswering
<1>7. FoldsABatch'
  BY <1>1, <1>3 DEF HInv, FoldsABatch, Keeps
<1>8. Fresh'
  BY <1>1, <1>2, <1>4 DEF HInv, Fresh, Keeps
<1>9. Snapshot'
  <2>. SUFFICES ASSUME NEW v \in Tasks, Answering(v)',
                       NEW e \in Loud \ (overtaken \cup late'[v])
                PROVE  Weight(task'[v].prof, e) = Weight(profile, e)
    BY <1>2, <1>4 DEF Snapshot
  <2>1. late'[v] = late[v]
    BY <1>4
  <2>2. CASE v # t
    BY <1>1, <2>1, <2>2 DEF HInv, Snapshot
  <2>3. CASE v = t
    <3>1. r.prof = IF Answering(t) THEN task[t].prof ELSE profile
      BY <1>1, <2>3 DEF Keeps, Answering, InTransaction
    <3>. QED  BY <1>1, <2>1, <2>3, <3>1 DEF HInv, Snapshot
  <2>. QED  BY <2>2, <2>3
<1>10. EveryBatchCounted'
  <2>1. \A b \in Batches : OnTheWay(b)' = OnTheWay(b)
    BY <1>1, <1>3 DEF OnTheWay, Keeps
  <2>. QED  BY <1>2, <1>4, <2>1 DEF HInv, EveryBatchCounted
<1>11. CounterCoversMoves'
  BY <1>2, <1>4 DEF HInv, CounterCoversMoves, CurrentIds, RecIds
<1>. QED  BY <1>5, <1>6, <1>7, <1>8, <1>9, <1>10, <1>11 DEF HInv

\* The same for a step that moves no task.
LEMMA StayHistory ==
  ASSUME TypeOK, HInv, Observe, UNCHANGED <<delivered, profile, recs, task>>
  PROVE  HInv'
<1>1. \A v \in Tasks : ~Folds(v) /\ ~Commits(v) /\ ~LosesBatch(v)
  BY DEF Folds, Commits, LosesBatch, Reading
<1>2. /\ BatchesOf({v \in Tasks : LosesBatch(v)}) = {}
      /\ BatchesOf({v \in Tasks : Folds(v)}) = {}
  BY <1>1 DEF BatchesOf
<1>3. \A v \in Tasks : Answering(v)' = Answering(v)
  BY DEF Answering, InTransaction
<1>4. /\ overtaken' = overtaken
      /\ missed' = missed
      /\ late' = [v \in Tasks |-> IF Answering(v) THEN late[v] ELSE {}]
  BY <1>1, <1>2, <1>3 DEF Observe
<1>5. late' = late
  BY <1>4 DEF HInv, HistoryTypeOK, LateWhileAnswering
<1>6. HistoryTypeOK' /\ LateWhileAnswering' /\ FoldsABatch'
  BY <1>3, <1>4, <1>5
     DEF HInv, HistoryTypeOK, LateWhileAnswering, FoldsABatch, Reading
<1>7. Fresh' /\ Snapshot'
  BY <1>3, <1>4, <1>5 DEF HInv, Fresh, Snapshot
<1>8. EveryBatchCounted' /\ CounterCoversMoves'
  BY <1>4 DEF HInv, EveryBatchCounted, OnTheWay, Reading, CounterCoversMoves,
              CurrentIds, RecIds
<1>. QED  BY <1>6, <1>7, <1>8 DEF HInv

-----------------------------------------------------------------------------
\* Which steps those are: the ones that take the profile into the locals ...
LEMMA ReadingKeeps ==
  ASSUME TypeOK, NEW t \in Tasks,
         \/ ReadProfile(t) \/ GateProfile(t) \/ AgentProfile(t)
         \/ load_signals(t)
  PROVE  \E r : Keeps(t, r)
<1>1. task[t] \in TaskState /\ profile \in Profile \cup {Absent}
  BY DEF TypeOK
<1>2. ASSUME NEW pc \in TaskPC \ {"read", "record"},
             pc = "write" <=> Reading(t), ~Answering(t),
             task' = [task EXCEPT ![t] =
                        [task[t] EXCEPT !.pc = pc, !.prof = profile]],
             UNCHANGED <<delivered, profile, recs>>
      PROVE  \E r : Keeps(t, r)
  <2>. DEFINE r1 == [task[t] EXCEPT !.pc = pc]
              r  == [r1 EXCEPT !.prof = profile]
  <2>1. r1 \in TaskState /\ r1.pc = pc /\ r1.batch = task[t].batch
    BY <1>1 DEF TaskState
  <2>2. task' = [task EXCEPT ![t] = r]
    BY <1>2
  <2>. HIDE DEF r1
  <2>3. /\ r \in TaskState /\ r.pc = pc /\ r.prof = profile
        /\ r.batch = task[t].batch
    BY <2>1, <1>1 DEF TaskState
  <2>. HIDE DEF r
  <2>4. Keeps(t, r)
    BY <1>2, <2>2, <2>3 DEF Keeps
  <2>. QED  BY <2>4
<1>3. CASE ReadProfile(t)
  BY <1>2, <1>3 DEF ReadProfile, TaskPC, Reading, Answering, InTransaction
<1>4. CASE GateProfile(t)
  <2>1. CASE task[t].kind = "manual"
    BY <1>2, <1>4, <2>1
       DEF GateProfile, TaskPC, Reading, Answering, InTransaction
  <2>2. CASE task[t].kind # "manual"
    BY <1>2, <1>4, <2>2
       DEF GateProfile, TaskPC, Reading, Answering, InTransaction
  <2>. QED  BY <2>1, <2>2
<1>5. CASE AgentProfile(t)
  BY <1>2, <1>5 DEF AgentProfile, TaskPC, Reading, Answering, InTransaction
<1>6. CASE load_signals(t)
  BY <1>2, <1>6 DEF load_signals, TaskPC, Reading, Answering, InTransaction
<1>. QED  BY <1>3, <1>4, <1>5, <1>6

\* ... the ones that only move the program point ...
LEMMA MovingKeeps ==
  ASSUME TypeOK, NEW t \in Tasks,
         \/ GatePasses(t) \/ AgentRec(t) \/ ModelAnswers(t) \/ ModelFails(t)
         \/ RecordRaises(t) \/ InsertCurrent(t) \/ mark_generated(t)
  PROVE  \E r : Keeps(t, r)
<1>. DEFINE answering ==
              {"model", "flip", "blocked", "insert", "mark", "commit"}
<1>1. ASSUME NEW pc \in TaskPC \ {"read", "write", "record"}, Goto(t, pc),
             UNCHANGED <<delivered, profile, recs>>,
             ~Reading(t), pc \in answering => Answering(t)
      PROVE  \E r : Keeps(t, r)
  <2>. DEFINE r == [task[t] EXCEPT !.pc = pc]
  <2>1. task[t] \in TaskState
    BY DEF TypeOK
  <2>2. r \in TaskState /\ r.pc = pc /\ r.prof = task[t].prof
    BY <2>1 DEF TaskState
  <2>3. task' = [task EXCEPT ![t] = r]
    BY <1>1 DEF Goto
  <2>. HIDE DEF r
  <2>4. Keeps(t, r)
    BY <1>1, <2>2, <2>3 DEF Keeps
  <2>. QED  BY <2>4
<1>2. CASE GatePasses(t)
  BY <1>1, <1>2 DEF GatePasses, TaskPC, Reading
<1>3. CASE AgentRec(t)
  <2>. DEFINE pc == IF task[t].kind = "scheduled" /\ Unmoved(task[t].prof)
                    THEN "record_cache" ELSE "load"
  <2>1. pc \in {"record_cache", "load"}
    OBVIOUS
  <2>2. Goto(t, pc)
    BY <1>3 DEF AgentRec
  <2>. HIDE DEF pc
  <2>. QED  BY <1>1, <1>3, <2>1, <2>2 DEF AgentRec, TaskPC, Reading
<1>4. CASE ModelAnswers(t)
  BY <1>1, <1>4 DEF ModelAnswers, TaskPC, Reading, Answering
<1>5. CASE ModelFails(t)
  BY <1>1, <1>5 DEF ModelFails, TaskPC, Reading
<1>6. CASE RecordRaises(t)
  BY <1>1, <1>6 DEF RecordRaises, TaskPC, Reading
<1>7. CASE InsertCurrent(t)
  BY <1>1, <1>7 DEF InsertCurrent, TaskPC, Reading, Answering, InTransaction
<1>8. CASE mark_generated(t)
  BY <1>1, <1>8 DEF mark_generated, TaskPC, Reading, Answering, InTransaction
<1>. QED  BY <1>2, <1>3, <1>4, <1>5, <1>6, <1>7, <1>8

\* ... and the row that is flipped ...
LEMMA FlippingKeeps ==
  ASSUME TypeOK, NEW t \in Tasks,
         FlipRow(t) \/ FlipBlocks(t) \/ FlipResumes(t) \/ PersistFails(t)
  PROVE  \E r : Keeps(t, r)
<1>1. task[t] \in TaskState
  BY DEF TypeOK
<1>2. /\ Answering(t) /\ ~Reading(t)
      /\ UNCHANGED <<delivered, profile, recs>>
  BY DEF FlipRow, FlipBlocks, FlipResumes, PersistFails, Answering,
         InTransaction, Reading
<1>3. ASSUME NEW pc \in {"insert", "blocked", "record_error"},
             NEW i \in RecIds \cup {0},
             task' = [task EXCEPT ![t] =
                        [task[t] EXCEPT !.pc = pc, !.flipped = i]]
      PROVE  \E r : Keeps(t, r)
  <2>. DEFINE r1 == [task[t] EXCEPT !.pc = pc]
              r  == [r1 EXCEPT !.flipped = i]
  <2>1. r1 \in TaskState /\ r1.pc = pc /\ r1.prof = task[t].prof
    BY <1>1 DEF TaskState, TaskPC
  <2>2. task' = [task EXCEPT ![t] = r]
    BY <1>3
  <2>3. i \in 0..MaxRecs
    BY LoopAssumption DEF RecIds
  <2>. HIDE DEF r1
  <2>4. r \in TaskState /\ r.pc = pc /\ r.prof = task[t].prof
    BY <2>1, <2>3 DEF TaskState
  <2>. HIDE DEF r
  <2>5. Keeps(t, r)
    BY <1>2, <2>2, <2>4 DEF Keeps
  <2>. QED  BY <2>5
<1>4. CurrentIds \subseteq RecIds
  BY DEF CurrentIds
<1>5. CASE FlipRow(t)
  <2>1. CASE Goto(t, "insert")
    <3>. DEFINE r == [task[t] EXCEPT !.pc = "insert"]
    <3>1. r \in TaskState /\ r.pc = "insert" /\ r.prof = task[t].prof
      BY <1>1 DEF TaskState, TaskPC
    <3>2. task' = [task EXCEPT ![t] = r]
      BY <2>1 DEF Goto
    <3>. HIDE DEF r
    <3>3. Keeps(t, r)
      BY <1>2, <3>1, <3>2 DEF Keeps
    <3>. QED  BY <3>3
  <2>2. CASE ~Goto(t, "insert")
    BY <1>3, <1>4, <1>5, <2>2 DEF FlipRow
  <2>. QED  BY <2>1, <2>2
<1>6. CASE FlipBlocks(t)
  BY <1>3, <1>4, <1>6 DEF FlipBlocks
<1>7. CASE FlipResumes(t)
  <2>. DEFINE i == IF task[t].flipped \in CurrentIds THEN task[t].flipped ELSE 0
  <2>1. i \in RecIds \cup {0}
    BY <1>4
  <2>2. task' = [task EXCEPT ![t] =
                   [task[t] EXCEPT !.pc = "insert", !.flipped = i]]
    BY <1>7 DEF FlipResumes
  <2>. HIDE DEF i
  <2>. QED  BY <1>3, <2>1, <2>2
<1>8. CASE PersistFails(t)
  BY <1>3, <1>8 DEF PersistFails
<1>. QED  BY <1>5, <1>6, <1>7, <1>8

\* ... and a task's end or beginning that no batch goes with.
LEMMA EndingKeeps ==
  ASSUME NEW t \in Tasks,
         \/ GateRefuses(t) \/ GateHolds(t) \/ AgentSkips(t) \/ RecordRun(t)
         \/ CrashTask(t) /\ ~Reading(t)
  PROVE  Keeps(t, IdleTask)
<1>1. /\ ~Reading(t)
      /\ Finish(t)
      /\ UNCHANGED <<delivered, profile, recs>>
  BY DEF GateRefuses, GateHolds, AgentSkips, RecordRun, CrashTask, Reading
<1>2. IdleTask.pc = "idle"
  BY DEF IdleTask
<1>. QED  BY <1>1, <1>2, IdleTaskType DEF Finish, Keeps

LEMMA StartKeeps ==
  ASSUME NEW t \in Tasks, NEW c \in Callers, StartTask(t, c)
  PROVE  \E r : Keeps(t, r)
<1>. DEFINE pc == IF c = "manual" THEN "gate" ELSE "agent"
            r1 == [IdleTask EXCEPT !.pc = pc]
            r  == [r1 EXCEPT !.kind = c]
<1>1. c \in {"manual", "scheduled"}
  BY LoopAssumption
<1>2. r1 \in TaskState /\ r1.pc = pc
  BY IdleTaskType DEF IdleTask, TaskState, TaskPC
<1>3. /\ task' = [task EXCEPT ![t] = r] /\ ~Reading(t)
      /\ UNCHANGED <<delivered, profile, recs>>
  BY DEF StartTask, Reading
<1>4. pc \in {"gate", "agent"} /\ task[t].pc # "commit"
  BY DEF StartTask
<1>. HIDE DEF r1
<1>5. r \in TaskState /\ r.pc = pc
  BY <1>1, <1>2 DEF TaskState
<1>. HIDE DEF r, pc
<1>6. Keeps(t, r)
  BY <1>3, <1>4, <1>5 DEF Keeps
<1>. QED  BY <1>6

-----------------------------------------------------------------------------
LEMMA OnTheWayFinite ==
  ASSUME NEW b
  PROVE  IsFiniteSet(OnTheWay(b)) /\ Cardinality(OnTheWay(b)) \in Nat
<1>1. OnTheWay(b) \subseteq Tasks
  BY DEF OnTheWay
<1>. QED  BY <1>1, HistoryAssumption, FS_Subset, FS_CardinalityType

LEMMA WeightType ==
  ASSUME NEW p \in Profile \cup {Absent}, NEW e \in Events
  PROVE  Weight(p, e) \in Nat
  BY DEF Weight, Profile

\* A delivery is on its way as soon as it is stored.
LEMMA IngestHistory ==
  ASSUME IInv, HInv, NEW t \in Tasks, NEW b \in Batches, ingest(t, b), Observe
  PROVE  HInv'
<1>. DEFINE r == [IdleTask EXCEPT !.pc = "read", !.batch = b]
<1>1. r.pc = "read" /\ r.batch = b /\ task[t].pc = "idle"
  BY DEF ingest, IdleTask
<1>2. task' = [task EXCEPT ![t] = r]
  BY DEF ingest
<1>. HIDE DEF r
<1>3. /\ task'[t] = r
      /\ \A v \in Tasks \ {t} :
            /\ task'[v] = task[v]
            /\ ~Folds(v) /\ ~Commits(v) /\ ~LosesBatch(v)
            /\ Answering(v)' = Answering(v)
            /\ Reading(v)' = Reading(v)
  BY <1>2, OthersStay DEF IInv
<1>4. /\ ~Folds(t) /\ ~Commits(t) /\ ~LosesBatch(t)
      /\ ~Answering(t) /\ ~Answering(t)' /\ ~Reading(t) /\ Reading(t)'
  BY <1>1, <1>3 DEF Folds, Commits, LosesBatch, Reading, Answering, InTransaction
<1>5. UNCHANGED <<profile, recs>>
  BY DEF ingest
<1>6. /\ overtaken' = overtaken
      /\ missed' = missed
      /\ late' = [v \in Tasks |-> IF Answering(v) THEN late[v] ELSE {}]
  <2>1. \A v \in Tasks : ~Folds(v) /\ ~Commits(v) /\ ~LosesBatch(v)
                           /\ Answering(v)' = Answering(v)
    BY <1>3, <1>4 DEF Answering, InTransaction
  <2>2. /\ BatchesOf({v \in Tasks : LosesBatch(v)}) = {}
        /\ BatchesOf({v \in Tasks : Folds(v)}) = {}
    BY <2>1 DEF BatchesOf
  <2>. QED  BY <2>1, <2>2 DEF Observe
<1>7. late' = late
  BY <1>6 DEF HInv, HistoryTypeOK, LateWhileAnswering
<1>8. HistoryTypeOK' /\ LateWhileAnswering' /\ FoldsABatch'
  BY <1>1, <1>3, <1>4, <1>6, <1>7
     DEF HInv, HistoryTypeOK, LateWhileAnswering, FoldsABatch
<1>9. Fresh' /\ Snapshot'
  BY <1>1, <1>3, <1>4, <1>5, <1>6, <1>7 DEF HInv, Fresh, Snapshot
<1>10. EveryBatchCounted'
  <2>. SUFFICES ASSUME NEW c \in Batches,
                       NEW e \in (c \cap Countable) \ overtaken
                PROVE  Weight(profile, e) + Cardinality(OnTheWay(c)')
                          = delivered'[c]
    BY <1>5, <1>6 DEF EveryBatchCounted
  <2>1. Weight(profile, e) + Cardinality(OnTheWay(c)) = delivered[c]
    BY DEF HInv, EveryBatchCounted
  <2>2. CASE c # b
    <3>1. OnTheWay(c)' = OnTheWay(c)
      BY <1>1, <1>3, <1>4, <2>2 DEF OnTheWay
    <3>2. delivered'[c] = delivered[c]
      BY <2>2 DEF ingest, IInv, TypeOK
    <3>. QED  BY <2>1, <3>1, <3>2
  <2>3. CASE c = b
    <3>1. OnTheWay(c)' = OnTheWay(c) \cup {t} /\ t \notin OnTheWay(c)
      BY <1>1, <1>3, <1>4, <2>3 DEF OnTheWay
    <3>2. Cardinality(OnTheWay(c)') = Cardinality(OnTheWay(c)) + 1
      BY <3>1, OnTheWayFinite, FS_AddElement
    <3>3. delivered'[c] = delivered[c] + 1
      BY <2>3 DEF ingest, IInv, TypeOK
    <3>4. Weight(profile, e) \in Nat
      BY LoopAssumption, WeightType DEF IInv, TypeOK
    <3>. QED  BY <2>1, <3>2, <3>3, <3>4, OnTheWayFinite
  <2>. QED  BY <2>2, <2>3
<1>11. CounterCoversMoves'
  BY <1>5, <1>6 DEF HInv, CounterCoversMoves, CurrentIds, RecIds
<1>. QED  BY <1>8, <1>9, <1>10, <1>11 DEF HInv

\* A task that dies with its batch loses that batch and nothing else.
LEMMA LossHistory ==
  ASSUME IInv, HInv, NEW t \in Tasks, CrashTask(t), Reading(t), Observe
  PROVE  HInv'
<1>1. /\ task' = [task EXCEPT ![t] = IdleTask]
      /\ UNCHANGED <<delivered, profile, recs>>
      /\ IdleTask.pc = "idle"
  BY DEF CrashTask, Finish, IdleTask
<1>2. /\ task'[t] = IdleTask
      /\ \A v \in Tasks \ {t} :
            /\ task'[v] = task[v]
            /\ ~Folds(v) /\ ~Commits(v) /\ ~LosesBatch(v)
            /\ Answering(v)' = Answering(v)
            /\ Reading(v)' = Reading(v)
  BY <1>1, OthersStay DEF IInv
<1>3. /\ ~Folds(t) /\ ~Commits(t) /\ LosesBatch(t)
      /\ ~Answering(t) /\ ~Answering(t)' /\ ~Reading(t)'
  BY <1>1, <1>2 DEF Folds, Commits, LosesBatch, Reading, Answering,
                    InTransaction
<1>4. /\ overtaken' = overtaken \cup task[t].batch
      /\ missed' = missed
      /\ late' = late
  <2>1. {v \in Tasks : LosesBatch(v)} = {t}
    BY <1>2, <1>3
  <2>2. BatchesOf({v \in Tasks : LosesBatch(v)}) = task[t].batch
    BY <2>1 DEF BatchesOf
  <2>3. \A v \in Tasks : ~Folds(v) /\ ~Commits(v) /\ Answering(v)' = Answering(v)
    BY <1>2, <1>3 DEF Answering, InTransaction
  <2>4. BatchesOf({v \in Tasks : Folds(v)}) = {}
    BY <2>3 DEF BatchesOf
  <2>5. late' = [v \in Tasks |-> IF Answering(v) THEN late[v] ELSE {}]
    BY <2>3, <2>4 DEF Observe
  <2>. QED  BY <2>2, <2>3, <2>5
            DEF Observe, HInv, HistoryTypeOK, LateWhileAnswering
<1>5. HistoryTypeOK' /\ LateWhileAnswering' /\ FoldsABatch'
  <2>1. task[t].batch \subseteq Events
    BY LoopAssumption DEF HInv, FoldsABatch
  <2>. QED  BY <1>2, <1>3, <1>4, <2>1
            DEF HInv, HistoryTypeOK, LateWhileAnswering, FoldsABatch
<1>6. Fresh' /\ Snapshot'
  BY <1>1, <1>2, <1>3, <1>4 DEF HInv, Fresh, Snapshot
<1>7. EveryBatchCounted'
  <2>. SUFFICES ASSUME NEW c \in Batches,
                       NEW e \in (c \cap Countable) \ overtaken'
                PROVE  Weight(profile, e) + Cardinality(OnTheWay(c)')
                          = delivered[c]
    BY <1>1 DEF EveryBatchCounted
  <2>1. task[t].batch # c
    BY <1>4
  <2>2. OnTheWay(c)' = OnTheWay(c)
    BY <1>2, <1>3, <2>1 DEF OnTheWay
  <2>. QED  BY <1>4, <2>2 DEF HInv, EveryBatchCounted
<1>8. CounterCoversMoves'
  <2>. SUFFICES ASSUME NEW i \in CurrentIds
                PROVE  Cardinality(Moved(i)') <= profile.events_since_gen
    BY <1>1 DEF CounterCoversMoves, Moved, CurrentIds, RecIds
  <2>1. Moved(i)' \subseteq Moved(i)
    BY <1>1, <1>4 DEF Moved
  <2>2. Cardinality(Moved(i)) <= profile.events_since_gen
    BY DEF HInv, CounterCoversMoves, Moved
  <2>3. profile.events_since_gen \in Nat
    BY RowAssumption
       DEF IInv, TypeOK, BaselineMatchesCurrent, Profile
  <2>. QED  BY <2>1, <2>2, <2>3, FewerMoved
<1>. QED  BY <1>5, <1>6, <1>7, <1>8 DEF HInv

\* The batch is folded into what was read, which is the profile as it is but
\* for events that are overtaken: every other weight grows by what the batch
\* brings.
LEMMA UpsertFolds ==
  ASSUME IInv, HInv, NEW t \in Tasks, upsert_profile(t)
  PROVE  /\ profile' \in Profile /\ profile' # Absent
         /\ profile'.events_since_gen =
               Cardinality(task[t].batch \cap Countable)
                   + (IF profile = Absent THEN 0 ELSE profile.events_since_gen)
         /\ \A e \in Countable \ overtaken :
               Weight(profile', e) = Weight(profile, e)
                   + (IF e \in task[t].batch THEN 1 ELSE 0)
<1>1. task[t].pc = "write"
  BY DEF upsert_profile
<1>2. profile' \in Profile /\ profile' # Absent
  BY UpsertedProfile
<1>3. /\ profile'.weights = Folded(task[t].prof, task[t].batch)
      /\ profile'.events_since_gen =
            Cardinality(task[t].batch \cap Countable)
                + (IF profile = Absent THEN 0 ELSE profile.events_since_gen)
  BY DEF upsert_profile
<1>4. ASSUME NEW e \in Countable \ overtaken
      PROVE  Weight(profile', e) = Weight(profile, e)
                + (IF e \in task[t].batch THEN 1 ELSE 0)
  <2>1. e \in Events
    BY LoopAssumption
  <2>2. Weight(profile', e) = Weight(task[t].prof, e)
                + (IF e \in task[t].batch THEN 1 ELSE 0)
    BY <1>2, <1>3, <2>1 DEF Weight, Folded
  <2>3. Weight(task[t].prof, e) = Weight(profile, e)
    BY <1>1 DEF HInv, Fresh
  <2>. QED  BY <2>2, <2>3
<1>. QED  BY <1>2, <1>3, <1>4

LEMMA UpsertHistory ==
  ASSUME IInv, HInv, NEW t \in Tasks, upsert_profile(t), Observe
  PROVE  HInv'
<1>. DEFINE b == task[t].batch
            n == Cardinality(b \cap Countable)
            r == [task[t] EXCEPT !.pc = "gate"]
<1>1. /\ task[t] \in TaskState
      /\ task[t].pc = "write"
      /\ profile \in Profile \cup {Absent}
      /\ recs \in [1..MaxRecs -> Rec \cup {Absent}]
      /\ UNCHANGED <<delivered, recs>>
      /\ task' = [task EXCEPT ![t] = r]
  BY DEF IInv, TypeOK, upsert_profile, Goto
<1>2. r.pc = "gate"
  BY <1>1 DEF TaskState
<1>. HIDE DEF r
<1>3. /\ task'[t] = r
      /\ \A v \in Tasks \ {t} :
            /\ task'[v] = task[v]
            /\ ~Folds(v) /\ ~Commits(v) /\ ~LosesBatch(v)
            /\ Answering(v)' = Answering(v)
            /\ Reading(v)' = Reading(v)
  BY <1>1, OthersStay DEF IInv
<1>4. /\ Folds(t) /\ ~Commits(t) /\ Reading(t) /\ ~Reading(t)'
      /\ ~Answering(t) /\ ~Answering(t)'
      /\ LosesBatch(t) <=> \E v \in Tasks \ {t} : task[v].pc = "write"
  BY <1>1, <1>2, <1>3
     DEF Folds, Commits, Reading, Answering, InTransaction, LosesBatch
<1>5. b \in Batches /\ b \subseteq Events
  BY <1>4, LoopAssumption DEF HInv, FoldsABatch
<1>6. /\ overtaken' = overtaken \cup (IF LosesBatch(t) THEN b ELSE {})
      /\ missed' = missed
      /\ late' = [v \in Tasks |->
                    IF Answering(v) THEN late[v] \cup b ELSE {}]
  <2>1. {v \in Tasks : LosesBatch(v)} = IF LosesBatch(t) THEN {t} ELSE {}
    BY <1>3
  <2>2. BatchesOf({v \in Tasks : LosesBatch(v)})
          = IF LosesBatch(t) THEN b ELSE {}
    BY <2>1 DEF BatchesOf
  <2>3. {v \in Tasks : Folds(v)} = {t}
    BY <1>3, <1>4
  <2>4. BatchesOf({v \in Tasks : Folds(v)}) = b
    BY <2>3 DEF BatchesOf
  <2>5. \A v \in Tasks : ~Commits(v) /\ Answering(v)' = Answering(v)
    BY <1>3, <1>4 DEF Answering, InTransaction
  <2>. QED  BY <2>2, <2>4, <2>5 DEF Observe
<1>7. /\ profile' \in Profile /\ profile' # Absent
      /\ profile'.events_since_gen =
            n + (IF profile = Absent THEN 0 ELSE profile.events_since_gen)
      /\ \A e \in Countable \ overtaken :
            Weight(profile', e) = Weight(profile, e)
                + (IF e \in b THEN 1 ELSE 0)
  BY UpsertFolds
<1>. HIDE DEF n
<1>8. HistoryTypeOK' /\ LateWhileAnswering' /\ FoldsABatch'
  BY <1>3, <1>4, <1>5, <1>6
     DEF HInv, HistoryTypeOK, LateWhileAnswering, FoldsABatch
<1>9. Fresh'
  <2>. SUFFICES ASSUME NEW v \in Tasks, task'[v].pc = "write",
                       NEW e \in Countable \ overtaken'
                PROVE  Weight(task'[v].prof, e) = Weight(profile', e)
    BY DEF Fresh
  <2>1. v # t /\ task'[v] = task[v]
    BY <1>2, <1>3
  <2>2. e \notin b /\ e \notin overtaken
    BY <1>4, <1>6, <2>1
  <2>3. Weight(profile', e) = Weight(profile, e)
    BY <1>1, <1>7, <2>2, LoopAssumption, WeightType
  <2>. QED  BY <2>1, <2>2, <2>3 DEF HInv, Fresh
<1>10. Snapshot'
  <2>. SUFFICES ASSUME NEW v \in Tasks, Answering(v)',
                       NEW e \in Loud \ (overtaken' \cup late'[v])
                PROVE  Weight(task'[v].prof, e) = Weight(profile', e)
    BY DEF Snapshot
  <2>1. v # t /\ task'[v] = task[v] /\ Answering(v)
    BY <1>3, <1>4
  <2>2. e \notin b /\ e \notin overtaken /\ e \notin late[v]
    BY <1>6, <2>1
  <2>3. Weight(profile', e) = Weight(profile, e)
    BY <1>1, <1>7, <2>2, LoopAssumption, WeightType
  <2>. QED  BY <2>1, <2>2, <2>3 DEF HInv, Snapshot
<1>11. EveryBatchCounted'
  <2>. SUFFICES ASSUME NEW c \in Batches,
                       NEW e \in (c \cap Countable) \ overtaken'
                PROVE  Weight(profile', e) + Cardinality(OnTheWay(c)')
                          = delivered[c]
    BY <1>1 DEF EveryBatchCounted
  <2>1. /\ e \notin overtaken
        /\ Weight(profile, e) \in Nat
        /\ Weight(profile, e) + Cardinality(OnTheWay(c)) = delivered[c]
    BY <1>1, <1>6, LoopAssumption, WeightType DEF HInv, EveryBatchCounted
  <2>2. Weight(profile', e) = Weight(profile, e) + (IF e \in b THEN 1 ELSE 0)
    BY <1>7, <2>1
  <2>3. CASE c # b
    <3>1. e \notin b
      BY <1>5, <2>3, HistoryAssumption
    <3>2. OnTheWay(c)' = OnTheWay(c)
      BY <1>3, <1>4, <2>3 DEF OnTheWay
    <3>. QED  BY <2>1, <2>2, <3>1, <3>2
  <2>4. CASE c = b
    <3>1. OnTheWay(c)' = OnTheWay(c) \ {t} /\ t \in OnTheWay(c)
      BY <1>3, <1>4, <2>4 DEF OnTheWay
    <3>2. Cardinality(OnTheWay(c)') = Cardinality(OnTheWay(c)) - 1
      BY <3>1, OnTheWayFinite, FS_RemoveElement
    <3>. QED  BY <2>1, <2>2, <2>4, <3>2, OnTheWayFinite
  <2>. QED  BY <2>3, <2>4
<1>12. CounterCoversMoves'
  <2>. SUFFICES ASSUME NEW i \in CurrentIds
                PROVE  Cardinality(Moved(i)') <= profile'.events_since_gen
    BY <1>1 DEF CounterCoversMoves, Moved, CurrentIds, RecIds
  <2>1. profile # Absent /\ profile \in Profile
    BY <1>1 DEF IInv, BaselineMatchesCurrent
  <2>2. Moved(i)' \subseteq Moved(i) \cup (b \cap Countable)
    <3>. SUFFICES ASSUME NEW e \in Loud \ (overtaken \cup missed), e \notin b,
                         profile'.weights[e] > recs[i].profile_hash[e]
                  PROVE  profile.weights[e] > recs[i].profile_hash[e]
      BY <1>1, <1>6, LoopAssumption DEF Moved
    <3>1. e \in Events /\ e \in Countable
      BY LoopAssumption
    <3>2. Weight(profile', e) = Weight(profile, e) /\ Weight(profile, e) \in Nat
      BY <1>1, <1>7, <3>1, WeightType
    <3>3. profile'.weights[e] = profile.weights[e]
      BY <1>7, <2>1, <3>2 DEF Weight
    <3>. QED  BY <3>3
  <2>3. IsFiniteSet(Moved(i)) /\ IsFiniteSet(b \cap Countable)
    <3>1. Moved(i) \subseteq Events /\ b \cap Countable \subseteq Events
      BY <1>5, LoopAssumption DEF Moved
    <3>. QED  BY <3>1, LoopAssumption, FS_Subset
  <2>4. /\ Cardinality(Moved(i)') <= Cardinality(Moved(i)) + n
        /\ Cardinality(Moved(i)) \in Nat /\ Cardinality(Moved(i)') \in Nat
        /\ n \in Nat
    <3>. DEFINE u == Moved(i) \cup (b \cap Countable)
    <3>1. /\ IsFiniteSet(u)
          /\ Cardinality(u) = Cardinality(Moved(i)) + n
                - Cardinality(Moved(i) \cap (b \cap Countable))
      BY <2>3, FS_Union DEF n
    <3>2. Cardinality(Moved(i) \cap (b \cap Countable)) \in Nat
      BY <2>3, FS_Intersection, FS_CardinalityType
    <3>3. Cardinality(Moved(i)) \in Nat /\ n \in Nat
      BY <2>3, FS_CardinalityType DEF n
    <3>4. Cardinality(Moved(i)') <= Cardinality(u)
          /\ Cardinality(Moved(i)') \in Nat /\ Cardinality(u) \in Nat
      BY <2>2, <3>1, FS_Subset, FS_CardinalityType
    <3>. HIDE DEF u
    <3>. QED  BY <3>1, <3>2, <3>3, <3>4
  <2>5. Cardinality(Moved(i)) <= profile.events_since_gen
    BY DEF HInv, CounterCoversMoves, Moved
  <2>6. profile'.events_since_gen = n + profile.events_since_gen
        /\ profile.events_since_gen \in Nat
    BY <1>7, <2>1 DEF Profile
  <2>. QED  BY <2>4, <2>5, <2>6
<1>. QED  BY <1>8, <1>9, <1>10, <1>11, <1>12 DEF HInv

\* The recommendation is written for the signals the run has read: what has
\* moved since then came late for it.
LEMMA CommitHistory ==
  ASSUME IInv, HInv, NEW t \in Tasks, Commit(t), Observe
  PROVE  HInv'
<1>. DEFINE p == task[t].prof
            r == [task[t] EXCEPT !.pc = "record", !.flipped = 0]
<1>1. /\ task[t].pc = "commit"
      /\ task[t] \in TaskState
      /\ profile \in Profile /\ p \in Profile
      /\ task' = [task EXCEPT ![t] = r]
      /\ delivered' = delivered
  BY DEF Commit, IInv, TypeOK, HasProfile, InTransaction, TaskState
<1>2. r.pc = "record"
  <2>. DEFINE r1 == [task[t] EXCEPT !.pc = "record"]
  <2>1. r1 \in TaskState /\ r1.pc = "record"
    BY <1>1 DEF TaskState, TaskPC
  <2>2. r = [r1 EXCEPT !.flipped = 0]
    OBVIOUS
  <2>. HIDE DEF r1, r
  <2>. QED  BY <2>1, <2>2 DEF TaskState
<1>. HIDE DEF r
<1>3. /\ task'[t] = r
      /\ \A v \in Tasks \ {t} :
            /\ task'[v] = task[v]
            /\ ~Folds(v) /\ ~Commits(v) /\ ~LosesBatch(v)
            /\ Answering(v)' = Answering(v)
            /\ Reading(v)' = Reading(v)
  BY <1>1, OthersStay DEF IInv
<1>4. /\ ~Folds(t) /\ Commits(t) /\ ~LosesBatch(t)
      /\ ~Reading(t) /\ ~Reading(t)' /\ Answering(t) /\ ~Answering(t)'
  BY <1>1, <1>2, <1>3
     DEF Folds, Commits, LosesBatch, Reading, Answering, InTransaction
<1>5. /\ overtaken' = overtaken
      /\ missed' = late[t]
      /\ late' = [v \in Tasks |-> IF Answering(v)' THEN late[v] ELSE {}]
  <2>1. {v \in Tasks : Commits(v)} = {t}
    BY <1>3, <1>4
  <2>2. UNION {late[v] : v \in {v \in Tasks : Commits(v)}} = late[t]
    BY <2>1
  <2>3. \A v \in Tasks : ~Folds(v) /\ ~LosesBatch(v)
    BY <1>3, <1>4
  <2>4. /\ BatchesOf({v \in Tasks : Folds(v)}) = {}
        /\ BatchesOf({v \in Tasks : LosesBatch(v)}) = {}
    BY <2>3 DEF BatchesOf
  <2>. QED  BY <1>4, <2>2, <2>4 DEF Observe
<1>6. \A v \in Tasks : Answering(v)' => v # t /\ late'[v] = late[v]
  BY <1>4, <1>5
<1>7. HistoryTypeOK' /\ LateWhileAnswering'
  BY <1>5 DEF HInv, HistoryTypeOK, LateWhileAnswering
<1>8. FoldsABatch'
  BY <1>3, <1>4 DEF HInv, FoldsABatch
<1>9. /\ profile' \in Profile /\ profile' # Absent
      /\ profile'.weights = profile.weights
      /\ profile'.events_since_gen = 0
  <2>1. profile' = [profile EXCEPT !.gen_vector = interest_vector(p),
                                   !.events_since_gen = 0]
    BY DEF Commit
  <2>2. interest_vector(p) \in SUBSET Loud
    BY DEF interest_vector
  <2>. HIDE DEF p
  <2>3. /\ profile' \in Profile
        /\ profile'.weights = profile.weights
        /\ profile'.events_since_gen = 0
    BY <1>1, <2>1, <2>2 DEF Profile
  <2>. QED  BY <2>3, RowAssumption
<1>10. \A e : Weight(profile', e) = Weight(profile, e)
  BY <1>1, <1>9, RowAssumption DEF Weight
<1>11. Fresh'
  <2>. SUFFICES ASSUME NEW v \in Tasks, task'[v].pc = "write",
                       NEW e \in Countable \ overtaken
                PROVE  Weight(task'[v].prof, e) = Weight(profile', e)
    BY <1>5 DEF Fresh
  <2>1. v # t /\ task'[v] = task[v]
    BY <1>2, <1>3
  <2>. QED  BY <1>10, <2>1 DEF HInv, Fresh
<1>12. Snapshot'
  <2>. SUFFICES ASSUME NEW v \in Tasks, Answering(v)',
                       NEW e \in Loud \ (overtaken \cup late'[v])
                PROVE  Weight(task'[v].prof, e) = Weight(profile', e)
    BY <1>5 DEF Snapshot
  <2>1. v # t /\ task'[v] = task[v] /\ Answering(v) /\ late'[v] = late[v]
    BY <1>3, <1>6
  <2>. QED  BY <1>10, <2>1 DEF HInv, Snapshot
<1>13. EveryBatchCounted'
  <2>1. \A c \in Batches : OnTheWay(c)' = OnTheWay(c)
    BY <1>3, <1>4 DEF OnTheWay
  <2>. QED  BY <1>1, <1>5, <1>10, <2>1 DEF HInv, EveryBatchCounted
<1>14. CounterCoversMoves'
  <2>1. PICK i \in 1..MaxRecs : recs'[i] = NewRec(p) /\ CurrentIds' = {i}
    BY CommitWrites
  <2>2. Moved(i)' = {}
    <3>. SUFFICES ASSUME NEW e \in Loud \ (overtaken \cup late[t])
                  PROVE  ~(profile.weights[e] > recs'[i].profile_hash[e])
      <4>1. /\ overtaken' = overtaken /\ missed' = late[t]
            /\ profile'.weights = profile.weights
        BY <1>5, <1>9
      <4>2. Moved(i)' = {e \in Loud \ (overtaken \cup late[t]) :
                           profile.weights[e] > recs'[i].profile_hash[e]}
        BY <4>1, Zenon DEF Moved
      <4>. QED  BY <4>2, Zenon
    <3>1. recs'[i].profile_hash[e] = p.weights[e]
      BY <2>1 DEF NewRec, profile_hash
    <3>2. Weight(p, e) = Weight(profile, e)
      BY <1>4 DEF HInv, Snapshot
    <3>3. p.weights[e] = profile.weights[e] /\ profile.weights[e] \in Nat
      BY <1>1, <3>2, RowAssumption, LoopAssumption DEF Weight, Profile
    <3>. QED  BY <3>1, <3>3
  <2>3. Cardinality({}) = 0 /\ profile'.events_since_gen = 0
    BY <1>9, FS_EmptySet
  <2>4. \A j \in CurrentIds' : Cardinality(Moved(j)') <= profile'.events_since_gen
    <3>. SUFFICES Cardinality(Moved(i)') <= profile'.events_since_gen
      BY <2>1
    <3>. QED  BY <2>2, <2>3
  <2>. QED  BY ONLY <2>4 DEF CounterCoversMoves, Moved
<1>. QED  BY <1>7, <1>8, <1>11, <1>12, <1>13, <1>14 DEF HInv

LEMMA InitHistory == HistoryInit => HInv
<1>. SUFFICES ASSUME HistoryInit  PROVE HInv
  OBVIOUS
<1>1. /\ overtaken = {} /\ missed = {} /\ late = [t \in Tasks |-> {}]
      /\ profile = Absent /\ delivered = [b \in Batches |-> 0]
  BY DEF HistoryInit, Init
<1>2. \A t \in Tasks : ~Answering(t) /\ ~Reading(t) /\ task[t].pc # "write"
  BY DEF HistoryInit, Init, IdleTask, Answering, InTransaction, Reading
<1>3. HistoryTypeOK /\ LateWhileAnswering /\ FoldsABatch /\ Fresh /\ Snapshot
  BY <1>1, <1>2
     DEF HistoryTypeOK, LateWhileAnswering, FoldsABatch, Fresh, Snapshot
<1>4. EveryBatchCounted
  <2>1. \A b \in Batches : OnTheWay(b) = {}
    BY <1>2 DEF OnTheWay
  <2>. QED  BY <1>1, <2>1, FS_EmptySet DEF EveryBatchCounted, Weight
<1>5. CounterCoversMoves
  BY DEF HistoryInit, Init, CounterCoversMoves, CurrentIds, RecIds
<1>. QED  BY <1>3, <1>4, <1>5 DEF HInv

LEMMA NextHistory == IInv /\ HInv /\ [HistoryNext]_hvars => HInv'
<1>. SUFFICES ASSUME IInv, HInv, [HistoryNext]_hvars  PROVE HInv'
  OBVIOUS
<1>1. TypeOK
  BY DEF IInv
<1>2. ASSUME NEW t \in Tasks, Observe, \E r : Keeps(t, r)  PROVE HInv'
  BY <1>1, <1>2, KeepsHistory
<1>3. ASSUME NEW t \in Tasks, NEW b \in Batches, ingest(t, b), Observe
      PROVE  HInv'
  BY <1>3, IngestHistory
<1>4. ASSUME NEW t \in Tasks, NEW c \in Callers, StartTask(t, c), Observe
      PROVE  HInv'
  BY <1>2, <1>4, StartKeeps
<1>5. ASSUME NEW t \in Tasks, TaskStep(t), Observe  PROVE HInv'
  <2>1. CASE upsert_profile(t) \/ Commit(t)
    BY <1>5, <2>1, UpsertHistory, CommitHistory
  <2>2. CASE \/ GateRefuses(t) \/ GateHolds(t) \/ AgentSkips(t)
             \/ RecordRun(t)
    BY <1>2, <1>5, <2>2, EndingKeeps
  <2>3. CASE ~upsert_profile(t) /\ ~Commit(t)
    BY <1>1, <1>2, <1>5, <2>2, <2>3, ReadingKeeps, MovingKeeps, FlippingKeeps
       DEF TaskStep, Progress, DuplicateKey
  <2>. QED  BY <2>1, <2>3
<1>6. ASSUME NEW t \in Tasks, CrashTask(t), Observe  PROVE HInv'
  <2>1. CASE Reading(t)
    BY <1>6, <2>1, LossHistory
  <2>2. CASE ~Reading(t)
    BY <1>2, <1>6, <2>2, EndingKeeps
  <2>. QED  BY <2>1, <2>2
<1>7. CASE CooldownEnds /\ Observe
  BY <1>1, <1>7, StayHistory DEF CooldownEnds
<1>8. CASE UNCHANGED hvars
  <2>1. HistoryTypeOK' /\ LateWhileAnswering' /\ FoldsABatch'
    BY <1>8 DEF HInv, HistoryTypeOK, LateWhileAnswering, FoldsABatch, Reading,
                Answering, InTransaction, hvars, vars, historyVars
  <2>2. Fresh' /\ Snapshot'
    BY <1>8 DEF HInv, Fresh, Snapshot, Answering, InTransaction, hvars, vars,
                historyVars
  <2>3. EveryBatchCounted' /\ CounterCoversMoves'
    BY <1>8 DEF HInv, EveryBatchCounted, OnTheWay, Reading, CounterCoversMoves,
                CurrentIds, RecIds, hvars, vars, historyVars
  <2>. QED  BY <2>1, <2>2, <2>3 DEF HInv
<1>. QED
  BY <1>3, <1>4, <1>5, <1>6, <1>7, <1>8 DEF HistoryNext, Next

\* The history variables restrict nothing: without them a behaviour is one of
\* RecommendationLoop.
THEOREM HistoryIsLoop == HistorySpec => Spec
<1>1. HistoryInit => Init
  BY DEF HistoryInit
<1>2. [HistoryNext]_hvars => [Next]_vars
  BY DEF HistoryNext, hvars
<1>. QED  BY <1>1, <1>2, PTL DEF HistorySpec, Spec

\* What holds between the steps of any number of overlapping, dying tasks.
THEOREM HistoryInvariant == HistorySpec => [](IInv /\ HInv)
<1>1. HistorySpec => []IInv
  BY HistoryIsLoop, LoopInvariant, PTL
<1>. QED  BY <1>1, InitHistory, NextHistory, PTL DEF HistorySpec

\* However tasks overlap and die, and however often the network delivers a
\* batch: every delivery of an event is counted exactly once, unless its batch
\* was overwritten between another task's read and write or died with a task.
THEOREM BatchesAreCounted == HistorySpec => []EveryBatchCounted
<1>1. IInv /\ HInv => EveryBatchCounted
  BY DEF HInv
<1>. QED  BY <1>1, HistoryInvariant, PTL

\* However runs overlap: what moved the profile since the current
\* recommendation is on the counter the gate compares with its threshold,
\* unless it came between that run's reading of its signals and its commit.
THEOREM CounterCountsMoves == HistorySpec => []CounterCoversMoves
<1>1. IInv /\ HInv => CounterCoversMoves
  BY DEF HInv
<1>. QED  BY <1>1, HistoryInvariant, PTL
=============================================================================

------------------------- MODULE RecommendationLoop -------------------------
(***************************************************************************)
(* From behaviour to recommendation, for one user: batches of events are   *)
(* ingested, and every background task that follows updates the interest   *)
(* profile, asks the gate, runs the agent and persists what it wrote.      *)
(* Tasks of different batches, manual refreshes and digest runs overlap.   *)
(* Users share nothing but the tables' other rows, so one is enough.       *)
(*                                                                         *)
(*   batch:     read -> write -> gate -> gate_rec -> agent ...             *)
(*   manual:                     gate             -> agent ...             *)
(*   scheduled:                                      agent ...             *)
(*   ... agent -> agent_rec -> load -> model                               *)
(*             -> flip (-> blocked) -> insert -> mark -> commit -> record  *)
(*                                                                         *)
(* Every database call is a step of its own.  The persist transaction is   *)
(* four: READ COMMITTED lets other transactions in between its statements, *)
(* and only the row locks and the unique index recommendations_current_idx *)
(* keep them apart.                                                        *)
(*                                                                         *)
(* Interest weights are modelled by how often each event was folded in;    *)
(* Loud events are those that move the rounded weights (and so the profile *)
(* hash) and the interest vector.                                          *)
(***************************************************************************)
EXTENDS Integers, FiniteSets

CONSTANTS
    Events,         \* client-generated event ids
    Countable,      \* events with a weight (a scroll has none)
    Loud,           \* countable events that move the hash and the vector
    Batches,        \* the batches the tracker may send
    Tasks,          \* tasks that may run at the same time
    Callers,        \* who starts tasks besides batches: "manual", "scheduled"
    Threshold,      \* COUNT_THRESHOLD of the gate
    Absent,         \* "no such row"
    MaxDeliveries,  \* BOUND: how often the network delivers a batch
    MaxRecs,        \* BOUND: recommendations ever generated
    MaxCrashes      \* BOUND: tasks that die half way

ASSUME LoopAssumption ==
    /\ IsFiniteSet(Events)
    /\ Countable \subseteq Events
    /\ Loud \subseteq Countable
    /\ Batches \subseteq SUBSET Events
    /\ Callers \subseteq {"manual", "scheduled"}
    /\ Threshold \in Nat \ {0}
    /\ MaxDeliveries \in Nat
    /\ MaxRecs \in Nat
    /\ MaxCrashes \in Nat

VARIABLES
    stored,      \* event ids in catalog.events
    delivered,   \* [Batches -> 0..MaxDeliveries]
    profile,     \* the row of catalog.user_profiles, or Absent
    cooling,     \* last_generated_at is younger than COOLDOWN
    recs,        \* [1..MaxRecs -> Rec \cup {Absent}], committed rows
    task,        \* [Tasks -> TaskState], locals of each task
    crashes

vars == <<stored, delivered, profile, cooling, recs, task, crashes>>

Hash == [Loud -> Nat]

Profile ==
    [weights : [Events -> Nat],
     events_since_gen : Nat,
     gen_vector : SUBSET Loud]      \* {} is null

Rec == [profile_hash : Hash, is_current : BOOLEAN]

ASSUME RowAssumption == Absent \notin Profile /\ Absent \notin Rec

TaskPC == {"idle", "read", "write", "gate", "gate_rec", "agent", "agent_rec",
           "load", "model", "flip", "blocked", "insert", "mark", "commit",
           "record", "record_error", "record_cache"}

TaskState ==
    [pc      : TaskPC,
     kind    : {"batch", "manual", "scheduled"},
     batch   : SUBSET Events,
     prof    : Profile \cup {Absent},   \* the profile as last read
     flipped : 0..MaxRecs]              \* row locked by the flip, 0: none

IdleTask ==
    [pc |-> "idle", kind |-> "batch", batch |-> {}, prof |-> Absent,
     flipped |-> 0]

Init ==
    /\ stored = {}
    /\ delivered = [b \in Batches |-> 0]
    /\ profile = Absent
    /\ cooling = FALSE
    /\ recs = [i \in 1..MaxRecs |-> Absent]
    /\ task = [t \in Tasks |-> IdleTask]
    /\ crashes = 0

-----------------------------------------------------------------------------
profile_hash(p) == [e \in Loud |-> p.weights[e]]

interest_vector(p) == {e \in Loud : p.weights[e] > 0}

RecIds == {i \in 1..MaxRecs : recs[i] # Absent}

CurrentIds == {i \in RecIds : recs[i].is_current}

\* The current recommendation was written for exactly this profile.
Unmoved(p) == \E i \in CurrentIds : recs[i].profile_hash = profile_hash(p)

\* Row locks of open persist transactions, by the program point of the task:
\* the flipped row, the key of the new row in the unique index, the profile.
LocksRow(t, i) ==
    task[t].flipped = i /\ task[t].pc \in {"insert", "mark", "commit"}

LocksKey(t) == task[t].pc \in {"mark", "commit"}

\* SLIP of LocksProfile: the insert takes a lock on the profile row (a foreign
\* key would) that mark_generated has to take again in full.
LocksProfileTwice(t) == task[t].pc \in {"insert", "commit"}

LocksProfile(t) == task[t].pc = "commit"

InTransaction(t) ==
    task[t].pc \in {"flip", "blocked", "insert", "mark", "commit"}

Goto(t, pc) == task' = [task EXCEPT ![t].pc = pc]

Finish(t) == task' = [task EXCEPT ![t] = IdleTask]

-----------------------------------------------------------------------------
(* Tier 0: ingest and profile.                                             *)

\* POST /api/events: inserted on conflict do nothing, answered, and handed to
\* a background task whole, whatever was inserted.
ingest(t, b) ==
    /\ task[t].pc = "idle"
    /\ delivered[b] < MaxDeliveries
    /\ delivered' = [delivered EXCEPT ![b] = @ + 1]
    /\ stored' = stored \cup b
    /\ task' = [task EXCEPT ![t] =
          [IdleTask EXCEPT !.pc = "read", !.batch = b]]
    /\ UNCHANGED <<profile, cooling, recs, crashes>>

\* profile.apply reads the row ...
ReadProfile(t) ==
    /\ task[t].pc = "read"
    /\ task' = [task EXCEPT ![t] =
          [task[t] EXCEPT !.pc = "write", !.prof = profile]]
    /\ UNCHANGED <<stored, delivered, profile, cooling, recs, crashes>>

Folded(p, b) ==
    [e \in Events |->
        (IF p = Absent THEN 0 ELSE p.weights[e])
            + (IF e \in b \cap Countable THEN 1 ELSE 0)]

\* SLIP of upsert_profile: the batch is read but not folded in.
WritesWeightsBack(t) ==
    /\ task[t].pc = "write"
    /\ profile' =
          [weights |-> Folded(task[t].prof, {}),
           events_since_gen |-> 1,
           gen_vector |-> IF profile = Absent THEN {} ELSE profile.gen_vector]
    /\ Goto(t, "gate")
    /\ UNCHANGED <<stored, delivered, cooling, recs, crashes>>

\* ... and writes weights and vector computed from what it read; only the
\* counter is added to in place.
upsert_profile(t) ==
    LET b == task[t].batch
        count == Cardinality(b \cap Countable)
    IN
    /\ task[t].pc = "write"
    /\ \A v \in Tasks : ~LocksProfile(v)
    /\ profile' =
          [weights |-> Folded(task[t].prof, b),
           events_since_gen |->
               count + (IF profile = Absent THEN 0
                        ELSE profile.events_since_gen),
           gen_vector |-> IF profile = Absent THEN {} ELSE profile.gen_vector]
    /\ Goto(t, "gate")
    /\ UNCHANGED <<stored, delivered, cooling, recs, crashes>>

-----------------------------------------------------------------------------
(* Tier 1: the gate.                                                       *)

\* "Refresh now" and the digest worker.
StartTask(t, caller) ==
    /\ task[t].pc = "idle"
    /\ task' = [task EXCEPT ![t] =
          [IdleTask EXCEPT
              !.pc = IF caller = "manual" THEN "gate" ELSE "agent",
              !.kind = caller]]
    /\ UNCHANGED <<stored, delivered, profile, cooling, recs, crashes>>

\* No profile, or the cooldown: nothing to do.
GateRefuses(t) ==
    /\ task[t].pc = "gate"
    /\ profile = Absent \/ cooling
    /\ Finish(t)
    /\ UNCHANGED <<stored, delivered, profile, cooling, recs, crashes>>

\* A forced request passes at this point, any other looks further.
GateProfile(t) ==
    /\ task[t].pc = "gate"
    /\ profile # Absent /\ ~cooling
    /\ task' = [task EXCEPT ![t] =
          [task[t] EXCEPT
              !.pc = IF task[t].kind = "manual" THEN "agent" ELSE "gate_rec",
              !.prof = profile]]
    /\ UNCHANGED <<stored, delivered, profile, cooling, recs, crashes>>

\* Drift needs both vectors, category shift a recommendation to compare with;
\* how far is far enough is left open.
MayShift(p) ==
    \/ /\ interest_vector(p) # {}
       /\ p.gen_vector # {}
       /\ interest_vector(p) # p.gen_vector
    \/ CurrentIds # {}

GatePasses(t) ==
    LET p == task[t].prof IN
    /\ task[t].pc = "gate_rec"
    /\ ~Unmoved(p)
    /\ p.events_since_gen >= Threshold \/ MayShift(p)
    /\ Goto(t, "agent")
    /\ UNCHANGED <<stored, delivered, profile, cooling, recs, crashes>>

GateHolds(t) ==
    LET p == task[t].prof IN
    /\ task[t].pc = "gate_rec"
    /\ Unmoved(p) \/ p.events_since_gen < Threshold
    /\ Finish(t)
    /\ UNCHANGED <<stored, delivered, profile, cooling, recs, crashes>>

-----------------------------------------------------------------------------
(* Tier 2: run_agent up to the answer of the model.                        *)

AgentSkips(t) ==
    /\ task[t].pc = "agent"
    /\ profile # Absent => interest_vector(profile) = {}
    /\ Finish(t)
    /\ UNCHANGED <<stored, delivered, profile, cooling, recs, crashes>>

AgentProfile(t) ==
    /\ task[t].pc = "agent"
    /\ profile # Absent
    /\ interest_vector(profile) # {}
    /\ task' = [task EXCEPT ![t] =
          [task[t] EXCEPT !.pc = "agent_rec", !.prof = profile]]
    /\ UNCHANGED <<stored, delivered, profile, cooling, recs, crashes>>

\* A scheduled run of an unmoved profile is a cache hit.
AgentRec(t) ==
    /\ task[t].pc = "agent_rec"
    /\ Goto(t, IF task[t].kind = "scheduled" /\ Unmoved(task[t].prof)
               THEN "record_cache" ELSE "load")
    /\ UNCHANGED <<stored, delivered, profile, cooling, recs, crashes>>

\* SLIP of load_signals: the snapshot is the one that run_agent took.
KeepsItsProfile(t) ==
    /\ task[t].pc = "load"
    /\ Goto(t, "model")
    /\ UNCHANGED <<stored, delivered, profile, cooling, recs, crashes>>

\* The graph reads the profile once more; this is the snapshot that hash and
\* baseline are taken from in the end.
load_signals(t) ==
    /\ task[t].pc = "load"
    /\ task' = [task EXCEPT ![t] =
          [task[t] EXCEPT !.pc = "model", !.prof = profile]]
    /\ UNCHANGED <<stored, delivered, profile, cooling, recs, crashes>>

ModelAnswers(t) ==
    /\ task[t].pc = "model"
    /\ Cardinality(RecIds) + Cardinality({v \in Tasks : InTransaction(v)})
          < MaxRecs
    /\ Goto(t, "flip")
    /\ UNCHANGED <<stored, delivered, profile, cooling, recs, crashes>>

\* Mesh failed, or nothing grounded came back.
ModelFails(t) ==
    /\ task[t].pc = "model"
    /\ Goto(t, "record_error")
    /\ UNCHANGED <<stored, delivered, profile, cooling, recs, crashes>>

-----------------------------------------------------------------------------
(* The persist transaction.                                                *)

\* update recommendations set is_current = false where is_current: locks the
\* row; finds none for a first recommendation.
FlipRow(t) ==
    /\ task[t].pc = "flip"
    /\ \/ CurrentIds = {} /\ Goto(t, "insert")
       \/ \E i \in CurrentIds :
             /\ \A v \in Tasks : ~LocksRow(v, i)
             /\ task' = [task EXCEPT ![t] =
                   [task[t] EXCEPT !.pc = "insert", !.flipped = i]]
    /\ UNCHANGED <<stored, delivered, profile, cooling, recs, crashes>>

\* Somebody else has flipped that row and not committed: the statement waits
\* for this one row, and will not see a row inserted meanwhile.
FlipBlocks(t) ==
    /\ task[t].pc = "flip"
    /\ \E i \in CurrentIds :
          /\ \E v \in Tasks : LocksRow(v, i)
          /\ task' = [task EXCEPT ![t] =
                [task[t] EXCEPT !.pc = "blocked", !.flipped = i]]
    /\ UNCHANGED <<stored, delivered, profile, cooling, recs, crashes>>

\* After a rollback the row is still current and is flipped; after a commit
\* it is not and the update finds nothing.
FlipResumes(t) ==
    LET i == task[t].flipped IN
    /\ task[t].pc = "blocked"
    /\ \A v \in Tasks : ~LocksRow(v, i)
    /\ task' = [task EXCEPT ![t] =
          [task[t] EXCEPT !.pc = "insert",
                          !.flipped = IF i \in CurrentIds THEN i ELSE 0]]
    /\ UNCHANGED <<stored, delivered, profile, cooling, recs, crashes>>

\* The unique index waits for open transactions with the same key.
KeyFree(t) ==
    \A v \in Tasks \ {t} :
        ~LocksKey(v) /\ \A i \in CurrentIds : ~LocksRow(v, i)

\* SLIP of InsertCurrent: an index that is not unique.
InsertUnchecked(t) ==
    /\ task[t].pc = "insert"
    /\ Goto(t, "mark")
    /\ UNCHANGED <<stored, delivered, profile, cooling, recs, crashes>>

InsertCurrent(t) ==
    /\ task[t].pc = "insert"
    /\ KeyFree(t)
    /\ CurrentIds \subseteq {task[t].flipped}
    /\ Goto(t, "mark")
    /\ UNCHANGED <<stored, delivered, profile, cooling, recs, crashes>>

\* mark_generated joins the transaction and locks the profile row.
mark_generated(t) ==
    /\ task[t].pc = "mark"
    /\ \A v \in Tasks : ~LocksProfile(v)
    /\ Goto(t, "commit")
    /\ UNCHANGED <<stored, delivered, profile, cooling, recs, crashes>>

\* SLIP of PersistFails: the transaction is tried again.
PersistRetries(t) ==
    /\ task[t].pc \in {"insert", "mark", "commit"}
    /\ Goto(t, "flip")
    /\ UNCHANGED <<stored, delivered, profile, cooling, recs, crashes>>

\* A statement raises (the unique index, a duplicate item, a lost
\* connection): everything is rolled back.
PersistFails(t) ==
    /\ task[t].pc \in {"flip", "insert", "mark", "commit"}
    /\ task' = [task EXCEPT ![t] =
          [task[t] EXCEPT !.pc = "record_error", !.flipped = 0]]
    /\ UNCHANGED <<stored, delivered, profile, cooling, recs, crashes>>

\* The failure that overlapping runs bring about: the index already holds
\* another current row of the user.
DuplicateKey(t) ==
    /\ task[t].pc = "insert"
    /\ KeyFree(t)
    /\ ~(CurrentIds \subseteq {task[t].flipped})
    /\ PersistFails(t)

NewRec(p) == [profile_hash |-> profile_hash(p), is_current |-> TRUE]

\* SLIP of Commit: the baseline is the profile of the moment, not the one
\* the recommendation was written for.
CommitOwnBaseline(t) ==
    /\ task[t].pc = "commit"
    /\ \E i \in (1..MaxRecs) \ RecIds :
          /\ \A j \in 1..(i - 1) : j \in RecIds
          /\ recs' = [j \in 1..MaxRecs |->
                IF j = i THEN NewRec(task[t].prof)
                ELSE IF j = task[t].flipped
                     THEN [recs[j] EXCEPT !.is_current = FALSE] ELSE recs[j]]
    /\ profile' = [profile EXCEPT !.gen_vector = interest_vector(profile),
                                  !.events_since_gen = 0]
    /\ cooling' = TRUE
    /\ task' = [task EXCEPT ![t] =
          [task[t] EXCEPT !.pc = "record", !.flipped = 0]]
    /\ UNCHANGED <<stored, delivered, crashes>>

\* SLIP of Commit: the threshold is taken off the counter.
CommitSubtracts(t) ==
    /\ task[t].pc = "commit"
    /\ \E i \in (1..MaxRecs) \ RecIds :
          /\ \A j \in 1..(i - 1) : j \in RecIds
          /\ recs' = [j \in 1..MaxRecs |->
                IF j = i THEN NewRec(task[t].prof)
                ELSE IF j = task[t].flipped
                     THEN [recs[j] EXCEPT !.is_current = FALSE] ELSE recs[j]]
    /\ profile' = [profile EXCEPT
          !.gen_vector = interest_vector(task[t].prof),
          !.events_since_gen = @ - Threshold]
    /\ cooling' = TRUE
    /\ task' = [task EXCEPT ![t] =
          [task[t] EXCEPT !.pc = "record", !.flipped = 0]]
    /\ UNCHANGED <<stored, delivered, crashes>>

\* Flip, new row, baseline and counter become visible together.
Commit(t) ==
    /\ task[t].pc = "commit"
    /\ \E i \in (1..MaxRecs) \ RecIds :
          /\ \A j \in 1..(i - 1) : j \in RecIds
          /\ recs' = [j \in 1..MaxRecs |->
                IF j = i THEN NewRec(task[t].prof)
                ELSE IF j = task[t].flipped
                     THEN [recs[j] EXCEPT !.is_current = FALSE] ELSE recs[j]]
    /\ profile' = [profile EXCEPT
          !.gen_vector = interest_vector(task[t].prof),
          !.events_since_gen = 0]
    /\ cooling' = TRUE
    /\ task' = [task EXCEPT ![t] =
          [task[t] EXCEPT !.pc = "record", !.flipped = 0]]
    /\ UNCHANGED <<stored, delivered, crashes>>

-----------------------------------------------------------------------------
(* The evidence row of agent_runs, and the end of a task.                  *)

\* insert_agent_run; if it raises in a handler, the task ends all the same.
RecordRun(t) ==
    /\ task[t].pc \in {"record", "record_error", "record_cache"}
    /\ Finish(t)
    /\ UNCHANGED <<stored, delivered, profile, cooling, recs, crashes>>

\* The evidence row of a saved recommendation cannot be written: run_agent's
\* handler takes it for a failed run.
RecordRaises(t) ==
    /\ task[t].pc = "record"
    /\ Goto(t, "record_error")
    /\ UNCHANGED <<stored, delivered, profile, cooling, recs, crashes>>

\* The process stops; an open transaction is rolled back.
CrashTask(t) ==
    /\ task[t].pc # "idle"
    /\ crashes < MaxCrashes
    /\ crashes' = crashes + 1
    /\ Finish(t)
    /\ UNCHANGED <<stored, delivered, profile, cooling, recs>>

CooldownEnds ==
    /\ cooling
    /\ cooling' = FALSE
    /\ UNCHANGED <<stored, delivered, profile, recs, task, crashes>>

\* What a running task does next if nothing goes wrong around it.
Progress(t) ==
    \/ ReadProfile(t) \/ upsert_profile(t)
    \/ GateRefuses(t) \/ GateProfile(t) \/ GatePasses(t) \/ GateHolds(t)
    \/ AgentSkips(t) \/ AgentProfile(t) \/ AgentRec(t) \/ load_signals(t)
    \/ ModelAnswers(t) \/ ModelFails(t)
    \/ FlipRow(t) \/ FlipBlocks(t) \/ FlipResumes(t)
    \/ InsertCurrent(t) \/ DuplicateKey(t) \/ mark_generated(t) \/ Commit(t)
    \/ RecordRun(t)

TaskStep(t) == Progress(t) \/ PersistFails(t) \/ RecordRaises(t)

Next ==
    \/ \E t \in Tasks :
          \/ \E b \in Batches : ingest(t, b)
          \/ \E c \in Callers : StartTask(t, c)
          \/ TaskStep(t)
          \/ CrashTask(t)
    \/ CooldownEnds

Spec == Init /\ [][Next]_vars

\* A task that has started goes on unless the process dies; the model answers
\* or its client gives up (30 s, two retries); PostgreSQL queues those who
\* wait for a row lock, so nobody is passed over for ever (strong fairness).
\* Nobody has to start a task, the cooldown need not end, and no statement is
\* ever owed a failure that would end a wait.
FairSpec == Spec /\ \A t \in Tasks : SF_vars(Progress(t))

-----------------------------------------------------------------------------
(* Properties.                                                             *)

\* Every variable keeps its shape.
TypeOK ==
    /\ stored \subseteq Events
    /\ delivered \in [Batches -> 0..MaxDeliveries]
    /\ profile \in Profile \cup {Absent}
    /\ cooling \in BOOLEAN
    /\ recs \in [1..MaxRecs -> Rec \cup {Absent}]
    /\ task \in [Tasks -> TaskState]
    /\ crashes \in 0..MaxCrashes

\* However many runs persist at the same time, at most one recommendation of
\* the user is current (the comment on the index calls for exactly this, and
\* every page and the digest show "the" current one).
AtMostOneCurrent == \A i, j \in CurrentIds : i = j

\* The drift baseline is the interest vector of the very snapshot the current
\* recommendation was written for: hash short-circuit and drift are measured
\* from the same point, whatever was folded in or persisted meanwhile.
BaselineMatchesCurrent ==
    \A i \in CurrentIds :
        /\ profile # Absent
        /\ profile.gen_vector = {e \in Loud : recs[i].profile_hash[e] > 0}

\* Every task ends: no lock order of the persist transactions leaves two of
\* them, or a batch and a run, waiting on each other.
EveryTaskEnds == \A t \in Tasks : task[t].pc # "idle" ~> task[t].pc = "idle"

-----------------------------------------------------------------------------
(* What readers of recommendations and counter may rely on.                *)

Latest == IF CurrentIds = {} THEN 0 ELSE CHOOSE i \in CurrentIds : TRUE

Log == INSTANCE RecommendationLog WITH
    log <- [i \in RecIds |-> recs[i].profile_hash],
    shown <- Latest,
    since <- IF profile = Absent THEN 0 ELSE profile.events_since_gen

\* However runs overlap, fail or die between the statements of the persist
\* transaction: no recommendation is lost, the one committed last is current,
\* and the counter is reset together with it and never otherwise goes down.
KeepsTheLog == Log!Spec

-----------------------------------------------------------------------------
(* Who waits for whom.                                                     *)

\* The task is at a statement that may have to wait ...
AtTheDatabase(t) == task[t].pc = "write" \/ InTransaction(t)

\* ... and a lock or key of another task does make it wait there.
HeldUp(t) ==
    \/ task[t].pc = "blocked" /\ \E v \in Tasks : LocksRow(v, task[t].flipped)
    \/ task[t].pc = "insert" /\ ~KeyFree(t)
    \/ task[t].pc \in {"write", "mark"} /\ \E v \in Tasks : LocksProfile(v)

\* Flipped row, key of the new row, profile row: in whatever order runs and
\* batches reach them, they never all wait for one another.
SomeoneGoesOn ==
    (\E t \in Tasks : AtTheDatabase(t))
        => \E t \in Tasks : AtTheDatabase(t) /\ ~HeldUp(t)

\* What it rests on: a row is locked by one task at a time, and a task that
\* has not come to the flip remembers none.
OneRowLock ==
    \A t, v \in Tasks : \A i \in 1..MaxRecs :
        LocksRow(t, i) /\ LocksRow(v, i) => t = v

FlippedInside ==
    \A t \in Tasks :
        task[t].flipped # 0
            => task[t].pc \in {"blocked", "insert", "mark", "commit"}

RowLocks == OneRowLock /\ FlippedInside

-----------------------------------------------------------------------------
\* What AtMostOneCurrent and BaselineMatchesCurrent rest on.
HasProfile ==
    \A t \in Tasks :
        task[t].pc \in {"agent_rec", "load", "model"} \/ InTransaction(t)
            => profile # Absent /\ task[t].prof # Absent

FlipExists == \A t \in Tasks : task[t].flipped # 0 => task[t].flipped \in RecIds

OneKeyLock == \A t, v \in Tasks : LocksKey(t) /\ LocksKey(v) => t = v

KeyIsTaken ==
    \A t \in Tasks : LocksKey(t) => CurrentIds \subseteq {task[t].flipped}

\* The inductive invariant: whoever holds the key in the unique index is the
\* only one, and has flipped the only recommendation that is current.
IInv ==
    /\ TypeOK
    /\ AtMostOneCurrent
    /\ BaselineMatchesCurrent
    /\ HasProfile
    /\ FlipExists
    /\ OneKeyLock
    /\ KeyIsTaken

-----------------------------------------------------------------------------
(* A claim made in the repository that the code does not keep.             *)

\* gate.py: "cooldown is absolute - even an explicit refresh cannot bypass it":
\* while it lasts no batch and no manual refresh generates a recommendation
\* (the digest never asks).
CooldownIsAbsolute ==
    [][\A t \in Tasks :
          task[t].pc = "commit" /\ task'[t].pc = "record"
              => task[t].kind = "scheduled" \/ ~cooling]_vars
=============================================================================

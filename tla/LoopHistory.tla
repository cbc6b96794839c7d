---------------------------- MODULE LoopHistory ----------------------------
(***************************************************************************)
(* RecommendationLoop with three history variables beside its own, which   *)
(* no step reads.  They name the ways in which overlapping tasks and       *)
(* crashes lose an event, so that the properties below can say, of any     *)
(* number of tasks, that there is no other way.                            *)
(***************************************************************************)
EXTENDS RecommendationLoop

\* An event travels in one batch, which is what Tracker shows of the browser.
ASSUME HistoryAssumption ==
    /\ IsFiniteSet(Tasks)
    /\ \A b, c \in Batches : b = c \/ b \cap c = {}

VARIABLES
    overtaken,   \* events of batches that were overwritten or abandoned
    late,        \* per run: events folded in since it read its signals
    missed       \* those that were late for the run that committed last

historyVars == <<overtaken, late, missed>>

hvars == <<vars, historyVars>>

-----------------------------------------------------------------------------
Reading(t) == task[t].pc \in {"read", "write"}

\* A run that has read its signals and has not committed yet.
Answering(t) == task[t].pc = "model" \/ InTransaction(t)

Folds(t) == task[t].pc = "write" /\ task'[t].pc = "gate"

Commits(t) == task[t].pc = "commit" /\ task'[t].pc = "record"

\* The batch of the task is folded in while another task is between its read
\* and its write, which will undo it; or the task dies with it.
LosesBatch(t) ==
    \/ Folds(t) /\ \E v \in Tasks \ {t} : task[v].pc = "write"
    \/ Reading(t) /\ task'[t].pc = "idle"

BatchesOf(ts) == UNION {task[t].batch : t \in ts}

Observe ==
    /\ overtaken' = overtaken \cup BatchesOf({t \in Tasks : LosesBatch(t)})
    /\ late' = [t \in Tasks |->
          IF Answering(t)' THEN late[t] \cup BatchesOf({v \in Tasks : Folds(v)})
          ELSE {}]
    /\ missed' = IF \E t \in Tasks : Commits(t)
                 THEN UNION {late[t] : t \in {v \in Tasks : Commits(v)}}
                 ELSE missed

HistoryInit ==
    /\ Init
    /\ overtaken = {}
    /\ late = [t \in Tasks |-> {}]
    /\ missed = {}

HistoryNext == Next /\ Observe

HistorySpec == HistoryInit /\ [][HistoryNext]_hvars

\* The fairness of FairSpec; what is observed can always be observed.
FairHistorySpec ==
    HistorySpec /\ \A t \in Tasks : SF_hvars(Progress(t) /\ Observe)

-----------------------------------------------------------------------------
\* The history variables keep their shape.
HistoryTypeOK ==
    /\ overtaken \subseteq Events
    /\ late \in [Tasks -> SUBSET Events]
    /\ missed \subseteq Events

Weight(p, e) == IF p = Absent THEN 0 ELSE p.weights[e]

\* Tasks that have still to fold in a delivery of b.
OnTheWay(b) == {t \in Tasks : Reading(t) /\ task[t].batch = b}

\* Every delivery of an event is in the weights exactly once, or on its way
\* there in one task.  profile.apply reads, computes and writes in three
\* transactions: with any number of tasks this loses batches written
\* between another task's read and its write and batches of tasks that
\* died (overtaken), and neither loses nor doubles anything else.
EveryBatchCounted ==
    \A b \in Batches :
        \A e \in (b \cap Countable) \ overtaken :
            Weight(profile, e) + Cardinality(OnTheWay(b)) = delivered[b]

\* Events that moved the profile since the current recommendation was
\* written are on the counter, so that enough of them pass the gate.
\* mark_generated resets the counter whatever it has grown to: that forgets
\* events that came between the run's reading of its signals and its commit
\* (missed), and with any number of runs no others.
CounterCoversMoves ==
    \A i \in CurrentIds :
        Cardinality({e \in Loud \ (overtaken \cup missed) :
                        profile.weights[e] > recs[i].profile_hash[e]})
            <= profile.events_since_gen
=============================================================================

---------------------------- MODULE DigestQueue ----------------------------
(***************************************************************************)
(* The daily digest: catalog.digest_queue, the enqueue step, and any       *)
(* number of overlapping run_digest_worker invocations that claim users,   *)
(* run the agent for each, mail its recommendation and mark the user.      *)
(*                                                                         *)
(*   idle -> claiming -> next -> agent -> running -> reread -> mail        *)
(*                        ^                  |          |       |          *)
(*                        +---- marking | failing <-----+-------+          *)
(*                                                                         *)
(* A recommendation is identified by its number: current[u] is how many    *)
(* have been generated for u, the last of them being the current one.      *)
(* Whether the profile moved since then (cache hit or model run) and what  *)
(* the model answers are left open.                                        *)
(***************************************************************************)
EXTENDS Integers, FiniteSets

CONSTANTS
    Users,
    Workers,       \* invocations that may overlap
    Absent,        \* "no such row", "no user at hand"
    ClaimLimit,    \* claim_digest_queue's limit (25 in the code)
    MaxRounds,     \* BOUND: runs of the enqueue step
    MaxRecs,       \* BOUND: recommendations generated per user
    MaxCrashes     \* BOUND: per worker, invocations that die half way

ASSUME DigestAssumption ==
    /\ ClaimLimit \in Nat \ {0}
    /\ MaxRounds \in Nat
    /\ MaxRecs \in Nat
    /\ MaxCrashes \in Nat
    /\ Absent \notin Users

VARIABLES
    queue,      \* [Users -> QueueRow \cup {Absent}]
    round,      \* enqueue steps so far; the clock of enqueued_at
    current,    \* [Users -> 0..MaxRecs], 0: no recommendation yet
    worker,     \* [Workers -> WorkerState], locals of each invocation
    enqueued,   \* history: how often each user was enqueued
    mailed,     \* history: mails sent, by worker and user
    crashes     \* history: by worker

vars == <<queue, round, current, worker, enqueued, mailed, crashes>>

QueueRow ==
    [status : {"pending", "done", "failed"}, attempts : Nat,
     enqueued_at : 1..MaxRounds]

ASSUME AbsentAssumption == Absent \notin QueueRow

WorkerPC == {"idle", "claiming", "next", "agent", "running", "reread",
             "mail", "marking", "failing"}

WorkerState ==
    [pc    : WorkerPC,
     rows  : SUBSET Users,            \* claimed, not reached yet
     user  : Users \cup {Absent},     \* the row at hand
     rec   : 0..MaxRecs,              \* run_agent's current_rec, then rec
     begun : BOOLEAN]                 \* a row has been processed

IdleWorker ==
    [pc |-> "idle", rows |-> {}, user |-> Absent, rec |-> 0, begun |-> FALSE]

Init ==
    /\ queue = [u \in Users |-> Absent]
    /\ round = 0
    /\ current = [u \in Users |-> 0]
    /\ worker = [w \in Workers |-> IdleWorker]
    /\ enqueued = [u \in Users |-> 0]
    /\ mailed = [w \in Workers |-> [u \in Users |-> 0]]
    /\ crashes = [w \in Workers |-> 0]

-----------------------------------------------------------------------------
Pending(u) == queue[u] # Absent /\ queue[u].status = "pending"

\* Row locks live as long as the claim's own connection.
Locked(w) == IF worker[w].pc = "claiming" THEN worker[w].rows ELSE {}

LockedByOthers(w) == UNION {Locked(v) : v \in Workers \ {w}}

AnyLocked == UNION {Locked(v) : v \in Workers}

\* on conflict do update: status and attempts start again, enqueued_at stays.
Requeued(u) ==
    IF queue[u] = Absent
    THEN [status |-> "pending", attempts |-> 0, enqueued_at |-> round + 1]
    ELSE [queue[u] EXCEPT !.status = "pending", !.attempts = 0]

\* enqueue_digest: every user active in the last day, in one transaction.
enqueue_digest(us) ==
    /\ us # {}
    /\ us \cap AnyLocked = {}
    /\ round < MaxRounds
    /\ round' = round + 1
    /\ queue' = [u \in Users |-> IF u \in us THEN Requeued(u) ELSE queue[u]]
    /\ enqueued' = [u \in Users |->
          IF u \in us THEN enqueued[u] + 1 ELSE enqueued[u]]
    /\ UNCHANGED <<current, worker, mailed, crashes>>

\* An event-triggered or manual run of the agent replaces u's recommendation.
BackgroundRun(u) ==
    /\ current[u] < MaxRecs
    /\ current' = [current EXCEPT ![u] = @ + 1]
    /\ UNCHANGED <<queue, round, worker, enqueued, mailed, crashes>>

-----------------------------------------------------------------------------
\* SLIP of claim_digest_queue: rows that failed are claimed again.
ClaimFailedToo(w) ==
    /\ worker[w].pc = "idle"
    /\ \E us \in SUBSET {u \in Users : queue[u] # Absent} :
          /\ us # {}
          /\ Cardinality(us) <= ClaimLimit
          /\ \A u \in us : queue[u].status # "done"
          /\ worker' = [worker EXCEPT ![w] =
                [IdleWorker EXCEPT !.pc = "claiming", !.rows = us]]
    /\ UNCHANGED <<queue, round, current, enqueued, mailed, crashes>>

\* The ClaimLimit pending rows that have been in the queue for longest.
claim_digest_queue(w) ==
    LET free == {u \in Users : Pending(u)} \ LockedByOthers(w) IN
    /\ worker[w].pc = "idle"
    /\ \E us \in SUBSET free :
          /\ us # {}
          /\ Cardinality(us) <= ClaimLimit
          /\ us = free \/ Cardinality(us) = ClaimLimit
          /\ \A u \in us, v \in free \ us :
                queue[u].enqueued_at <= queue[v].enqueued_at
          /\ worker' = [worker EXCEPT ![w] =
                [IdleWorker EXCEPT !.pc = "claiming", !.rows = us]]
    /\ UNCHANGED <<queue, round, current, enqueued, mailed, crashes>>

\* The connection goes back to the pool, the rows stay pending.
ReturnConnection(w) ==
    /\ worker[w].pc = "claiming"
    /\ worker' = [worker EXCEPT ![w].pc = "next"]
    /\ UNCHANGED <<queue, round, current, enqueued, mailed, crashes>>

\* The next row of the batch, in the order of the queue.
TakeRow(w) ==
    /\ worker[w].pc = "next"
    /\ \E u \in worker[w].rows :
          /\ \A v \in worker[w].rows :
                queue[u].enqueued_at <= queue[v].enqueued_at
          /\ worker' = [worker EXCEPT ![w] =
                [worker[w] EXCEPT !.pc = "agent", !.user = u, !.rec = 0,
                                  !.rows = @ \ {u}, !.begun = TRUE]]
    /\ UNCHANGED <<queue, round, current, enqueued, mailed, crashes>>

\* The batch is finished, or the time budget is: the rest stays pending for
\* the next tick.  The claim alone does not use up the budget.
StopWorker(w) ==
    /\ worker[w].pc = "next"
    /\ worker[w].rows = {} \/ worker[w].begun
    /\ worker' = [worker EXCEPT ![w] = IdleWorker]
    /\ UNCHANGED <<queue, round, current, enqueued, mailed, crashes>>

\* run_agent reads the current recommendation and decides to run the graph.
StartAgent(w) ==
    /\ worker[w].pc = "agent"
    /\ worker' = [worker EXCEPT ![w] =
          [worker[w] EXCEPT !.pc = "running",
                            !.rec = current[worker[w].user]]]
    /\ UNCHANGED <<queue, round, current, enqueued, mailed, crashes>>

\* Unchanged profile: run_agent returns the current recommendation at once.
CacheHit(w) ==
    /\ worker[w].pc = "agent"
    /\ current[worker[w].user] > 0
    /\ worker' = [worker EXCEPT ![w] =
          [worker[w] EXCEPT !.pc = "mail", !.rec = current[worker[w].user]]]
    /\ UNCHANGED <<queue, round, current, enqueued, mailed, crashes>>

\* No profile or no interest vector yet: nothing to send.
NoSignal(w) ==
    /\ worker[w].pc = "agent"
    /\ worker' = [worker EXCEPT ![w].pc = "marking"]
    /\ UNCHANGED <<queue, round, current, enqueued, mailed, crashes>>

\* The graph persisted a new recommendation.
GraphSucceeds(w) ==
    /\ worker[w].pc = "running"
    /\ current[worker[w].user] < MaxRecs
    /\ current' = [current EXCEPT ![worker[w].user] = @ + 1]
    /\ worker' = [worker EXCEPT ![w].pc = "reread"]
    /\ UNCHANGED <<queue, round, enqueued, mailed, crashes>>

\* run_agent returns what is current by now.
RereadCurrent(w) ==
    /\ worker[w].pc = "reread"
    /\ worker' = [worker EXCEPT ![w] =
          [worker[w] EXCEPT !.pc = "mail", !.rec = current[worker[w].user]]]
    /\ UNCHANGED <<queue, round, current, enqueued, mailed, crashes>>

\* The graph failed or was not allowed to persist: run_agent returns what it
\* read before the run, if there was anything.
GraphFails(w) ==
    /\ worker[w].pc = "running"
    /\ worker' = [worker EXCEPT ![w].pc =
          IF worker[w].rec = 0 THEN "marking" ELSE "mail"]
    /\ UNCHANGED <<queue, round, current, enqueued, mailed, crashes>>

SendMail(w) ==
    /\ worker[w].pc = "mail"
    /\ mailed' = [mailed EXCEPT ![w][worker[w].user] = @ + 1]
    /\ worker' = [worker EXCEPT ![w].pc = "marking"]
    /\ UNCHANGED <<queue, round, current, enqueued, crashes>>

\* Not configured, or the delivery service refused: not an error.
MailRefused(w) ==
    /\ worker[w].pc = "mail"
    /\ worker' = [worker EXCEPT ![w].pc = "marking"]
    /\ UNCHANGED <<queue, round, current, enqueued, mailed, crashes>>

\* A database call of the row's try block raises.
RowRaises(w) ==
    /\ worker[w].pc \in {"agent", "running", "reread", "mail", "marking"}
    /\ worker' = [worker EXCEPT ![w].pc = "failing"]
    /\ UNCHANGED <<queue, round, current, enqueued, mailed, crashes>>

\* The row is finished.
Released(s) == [s EXCEPT !.pc = "next", !.user = Absent, !.rec = 0]

mark_digest_done(w) ==
    LET u == worker[w].user IN
    /\ worker[w].pc = "marking"
    /\ u \notin LockedByOthers(w)
    /\ queue' = [queue EXCEPT ![u].status = "done"]
    /\ worker' = [worker EXCEPT ![w] = Released(worker[w])]
    /\ UNCHANGED <<round, current, enqueued, mailed, crashes>>

\* SLIP of mark_digest_failed: the row is left for the next tick.
FailedStaysPending(w) ==
    LET u == worker[w].user IN
    /\ worker[w].pc = "failing"
    /\ u \notin LockedByOthers(w)
    /\ queue' = [queue EXCEPT ![u].status = "pending"]
    /\ worker' = [worker EXCEPT ![w] = Released(worker[w])]
    /\ UNCHANGED <<round, current, enqueued, mailed, crashes>>

mark_digest_failed(w) ==
    LET u == worker[w].user IN
    /\ worker[w].pc = "failing"
    /\ u \notin LockedByOthers(w)
    /\ queue' = [queue EXCEPT ![u].status = "failed",
                              ![u].attempts = @ + 1]
    /\ worker' = [worker EXCEPT ![w] = Released(worker[w])]
    /\ UNCHANGED <<round, current, enqueued, mailed, crashes>>

\* The invocation is killed (duration cap), or mark_digest_failed raises.
CrashWorker(w) ==
    /\ worker[w].pc # "idle"
    /\ crashes[w] < MaxCrashes
    /\ crashes' = [crashes EXCEPT ![w] = @ + 1]
    /\ worker' = [worker EXCEPT ![w] = IdleWorker]
    /\ UNCHANGED <<queue, round, current, enqueued, mailed>>

WorkerStep(w) ==
    \/ claim_digest_queue(w) \/ ReturnConnection(w)
    \/ TakeRow(w) \/ StopWorker(w)
    \/ StartAgent(w) \/ CacheHit(w) \/ NoSignal(w)
    \/ GraphSucceeds(w) \/ RereadCurrent(w) \/ GraphFails(w)
    \/ SendMail(w) \/ MailRefused(w) \/ RowRaises(w)
    \/ mark_digest_done(w) \/ mark_digest_failed(w)

Next ==
    \/ \E us \in SUBSET Users : enqueue_digest(us)
    \/ \E u \in Users : BackgroundRun(u)
    \/ \E w \in Workers : WorkerStep(w) \/ CrashWorker(w)

Spec == Init /\ [][Next]_vars

\* pg_cron calls the worker again and again, and an invocation that has
\* started goes on unless it is killed.  Users and event-triggered runs owe
\* nothing.
FairSpec == Spec /\ \A w \in Workers : WF_vars(WorkerStep(w))

-----------------------------------------------------------------------------
\* Every variable keeps its shape; whoever is being processed has a row.
TypeOK ==
    /\ queue \in [Users -> QueueRow \cup {Absent}]
    /\ round \in 0..MaxRounds
    /\ current \in [Users -> 0..MaxRecs]
    /\ worker \in [Workers -> WorkerState]
    /\ enqueued \in [Users -> Nat]
    /\ mailed \in [Workers -> [Users -> Nat]]
    /\ crashes \in [Workers -> Nat]

\* However many invocations overlap, none of them mails a user more than once
\* for each time the user was enqueued, except again after it died.
MailsAreBounded ==
    \A w \in Workers, u \in Users :
        mailed[w][u] <= enqueued[u] + crashes[w]

\* Every queued user is in the end served or given up, whoever fails.
EveryUserServed == \A u \in Users : Pending(u) ~> ~Pending(u)

-----------------------------------------------------------------------------
(* Why MailsAreBounded holds.                                              *)

\* A worker in state s still has u's mail before it.
Holds(s, u) ==
    \/ u \in s.rows
    \/ u = s.user /\ s.pc \in {"agent", "running", "reread", "mail"}

\* A worker in state s is about to mark u.
Closing(s, u) == u = s.user /\ s.pc \in {"marking", "failing"}

\* A worker that may still mail u, now or after claiming it, has a mail left.
MayMail(s, u) == Holds(s, u) \/ (Pending(u) /\ ~Closing(s, u))

MailLeft ==
    \A w \in Workers, u \in Users :
        MayMail(worker[w], u) => mailed[w][u] < enqueued[u] + crashes[w]

\* Which locals are in use at which program point.
Shape(s) ==
    /\ s.pc = "idle" => s.rows = {}
    /\ (s.user = Absent) = (s.pc \in {"idle", "claiming", "next"})
    /\ s.user \notin s.rows
    /\ \A u \in Users : u \in s.rows \/ u = s.user => queue[u] # Absent

WorkerShape == \A w \in Workers : Shape(worker[w])

IInv == WorkerShape /\ MailLeft /\ MailsAreBounded
=============================================================================

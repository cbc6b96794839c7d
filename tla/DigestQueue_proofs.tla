------------------------- MODULE DigestQueue_proofs -------------------------
(***************************************************************************)
(* No invocation of the digest worker mails a user more than once for each *)
(* time the user was enqueued, except again after it died: for any number  *)
(* of users and of overlapping invocations, and whatever the bounds.       *)
(*                                                                         *)
(* The inductive invariant adds to the bound that a worker which may still *)
(* mail a user, because it holds the row or because the row is pending and *)
(* can be claimed, has not used up its mails yet.                          *)
(***************************************************************************)
EXTENDS DigestQueue, TLAPS

Inv == TypeOK /\ IInv

USE DigestAssumption, AbsentAssumption

LEMMA InitInv == Init => Inv
BY DEF Init, Inv, TypeOK, IInv, WorkerShape, Shape, MailLeft, MayMail, Holds,
       MailsAreBounded, Pending, Closing, IdleWorker, WorkerState, WorkerPC

\* A worker's step that only changes its own locals, and does not get a new
\* chance to mail anybody.
LEMMA LocalStep ==
    ASSUME Inv, NEW w \in Workers, NEW s \in WorkerState,
           worker' = [worker EXCEPT ![w] = s],
           UNCHANGED <<queue, round, enqueued, mailed, crashes>>,
           current' \in [Users -> 0..MaxRecs],
           Shape(s),
           \A u \in Users : MayMail(s, u) => MayMail(worker[w], u)
    PROVE  Inv'
<1>1. TypeOK'
  BY DEF Inv, TypeOK
<1>2. \A v \in Workers : worker'[v] = IF v = w THEN s ELSE worker[v]
  BY DEF Inv, TypeOK
<1>3. WorkerShape'
  <2> SUFFICES ASSUME NEW v \in Workers  PROVE Shape(worker[v])'
    BY DEF WorkerShape
  <2>1. Shape(worker[v])
    BY DEF Inv, IInv, WorkerShape
  <2>2. Shape(worker'[v])
    BY <1>2, <2>1
  <2> QED  BY <2>2 DEF Shape
<1>4. MailLeft'
  <2> SUFFICES ASSUME NEW v \in Workers, NEW u \in Users,
                      MayMail(worker[v], u)'
               PROVE  mailed[v][u] < enqueued[u] + crashes[v]
    BY DEF MailLeft
  <2>1. MayMail(worker'[v], u)
    BY DEF MayMail, Holds, Closing, Pending
  <2>2. MayMail(worker[v], u)
    BY <1>2, <2>1
  <2> QED  BY <2>2 DEF Inv, IInv, MailLeft
<1>5. MailsAreBounded'
  BY DEF Inv, IInv, MailsAreBounded
<1> QED  BY <1>1, <1>3, <1>4, <1>5 DEF Inv, IInv

-----------------------------------------------------------------------------
(* The steps of a worker that only change its locals.                      *)

LEMMA IdleType ==
    /\ IdleWorker \in WorkerState
    /\ IdleWorker.pc = "idle" /\ IdleWorker.rows = {}
    /\ IdleWorker.user = Absent
BY DEF IdleWorker, WorkerState, WorkerPC

LEMMA ClaimKeepsInv ==
    ASSUME Inv, NEW w \in Workers, claim_digest_queue(w)
    PROVE  Inv'
<1>1. PICK us \in SUBSET ({u \in Users : Pending(u)} \ LockedByOthers(w)) :
          worker' = [worker EXCEPT ![w] =
              [IdleWorker EXCEPT !.pc = "claiming", !.rows = us]]
  BY DEF claim_digest_queue
<1> DEFINE s == [IdleWorker EXCEPT !.pc = "claiming", !.rows = us]
<1>2. /\ s \in WorkerState
      /\ s.pc = "claiming" /\ s.rows = us /\ s.user = Absent
  <2>1. us \in SUBSET Users
    OBVIOUS
  <2> QED  BY <2>1, IdleType DEF WorkerState, WorkerPC
<1>3. \A u \in us : Pending(u)
  OBVIOUS
<1>4. worker[w].pc = "idle"
  BY DEF claim_digest_queue
<1> HIDE DEF s
<1>5. Shape(s)
  BY <1>2, <1>3 DEF Shape, Pending
<1>6. \A u \in Users : MayMail(s, u) => MayMail(worker[w], u)
  BY <1>2, <1>3, <1>4 DEF MayMail, Holds, Closing
<1>7. /\ UNCHANGED <<queue, round, enqueued, mailed, crashes>>
      /\ current' \in [Users -> 0..MaxRecs]
  BY DEF claim_digest_queue, Inv, TypeOK
<1> QED  BY <1>1, <1>2, <1>5, <1>6, <1>7, LocalStep DEF s

LEMMA TakeRowKeepsInv ==
    ASSUME Inv, NEW w \in Workers, TakeRow(w)
    PROVE  Inv'
<1>1. PICK u \in worker[w].rows :
          worker' = [worker EXCEPT ![w] =
              [worker[w] EXCEPT !.pc = "agent", !.user = u, !.rec = 0,
                                !.rows = @ \ {u}, !.begun = TRUE]]
  BY DEF TakeRow
<1> DEFINE s == [worker[w] EXCEPT !.pc = "agent", !.user = u, !.rec = 0,
                                  !.rows = @ \ {u}, !.begun = TRUE]
<1>2. /\ worker[w] \in WorkerState
      /\ Shape(worker[w])
      /\ worker[w].pc = "next"
  BY DEF TakeRow, Inv, TypeOK, IInv, WorkerShape
<1>3. u \in Users
  BY <1>2 DEF WorkerState
<1>4. /\ s \in WorkerState
      /\ s.pc = "agent" /\ s.rows = worker[w].rows \ {u} /\ s.user = u
  <2>1. /\ worker[w].rows \ {u} \in SUBSET Users
        /\ 0 \in 0..MaxRecs /\ TRUE \in BOOLEAN
    BY <1>2 DEF WorkerState
  <2> QED  BY <1>2, <1>3, <2>1 DEF WorkerState, WorkerPC
<1> HIDE DEF s
<1>5. Shape(s)
  BY <1>2, <1>3, <1>4 DEF Shape
<1>6. \A v \in Users : MayMail(s, v) => MayMail(worker[w], v)
  BY <1>2, <1>3, <1>4 DEF Shape, MayMail, Holds, Closing
<1>7. /\ UNCHANGED <<queue, round, enqueued, mailed, crashes>>
      /\ current' \in [Users -> 0..MaxRecs]
  BY DEF TakeRow, Inv, TypeOK
<1> QED  BY <1>1, <1>4, <1>5, <1>6, <1>7, LocalStep DEF s

\* The other local steps move within a row, or give up what is left.
LEMMA MoveKeepsInv ==
    ASSUME Inv, NEW w \in Workers, NEW pc \in WorkerPC, NEW rec \in 0..MaxRecs,
           worker' = [worker EXCEPT ![w] =
               [worker[w] EXCEPT !.pc = pc, !.rec = rec]],
           UNCHANGED <<queue, round, enqueued, mailed, crashes>>,
           current' \in [Users -> 0..MaxRecs],
           \/ worker[w].pc = "claiming" /\ pc = "next"
           \/ /\ worker[w].pc \in {"agent", "running", "reread", "mail"}
              /\ pc \in {"running", "reread", "mail", "marking", "failing"}
           \/ worker[w].pc = "marking" /\ pc = "failing"
    PROVE  Inv'
<1> DEFINE s == [worker[w] EXCEPT !.pc = pc, !.rec = rec]
<1>1. worker[w] \in WorkerState /\ Shape(worker[w])
  BY DEF Inv, TypeOK, IInv, WorkerShape
<1>2. /\ s \in WorkerState
      /\ s.pc = pc /\ s.rows = worker[w].rows /\ s.user = worker[w].user
  BY <1>1 DEF WorkerState
<1> HIDE DEF s
<1>3. Shape(s)
  BY <1>1, <1>2 DEF Shape
<1>4. \A u \in Users : MayMail(s, u) => MayMail(worker[w], u)
  BY <1>1, <1>2 DEF Shape, MayMail, Holds, Closing
<1> QED  BY <1>2, <1>3, <1>4, LocalStep DEF s

LEMMA StopKeepsInv ==
    ASSUME Inv, NEW w \in Workers, StopWorker(w)
    PROVE  Inv'
<1>1. worker[w] \in WorkerState /\ Shape(worker[w]) /\ worker[w].pc = "next"
  BY DEF StopWorker, Inv, TypeOK, IInv, WorkerShape
<1>2. /\ IdleWorker \in WorkerState
      /\ IdleWorker.pc = "idle" /\ IdleWorker.rows = {}
      /\ IdleWorker.user = Absent
  BY IdleType
<1>3. Shape(IdleWorker)
  BY <1>2 DEF Shape
<1>4. \A u \in Users : MayMail(IdleWorker, u) => MayMail(worker[w], u)
  BY <1>1, <1>2 DEF Shape, MayMail, Holds, Closing
<1>5. /\ UNCHANGED <<queue, round, enqueued, mailed, crashes>>
      /\ current' \in [Users -> 0..MaxRecs]
      /\ worker' = [worker EXCEPT ![w] = IdleWorker]
  BY DEF StopWorker, Inv, TypeOK
<1> QED  BY <1>2, <1>3, <1>4, <1>5, LocalStep

-----------------------------------------------------------------------------
(* The steps that change what everybody sees.                              *)

LEMMA EnqueueKeepsInv ==
    ASSUME Inv, NEW us \in SUBSET Users, enqueue_digest(us)
    PROVE  Inv'
<1>1. \A u \in Users :
          queue'[u] = IF u \in us THEN Requeued(u) ELSE queue[u]
  BY DEF enqueue_digest
<1>2. \A u \in Users : enqueued'[u] =
          IF u \in us THEN enqueued[u] + 1 ELSE enqueued[u]
  BY DEF enqueue_digest
<1>3. /\ UNCHANGED <<current, worker, mailed, crashes>>
      /\ round' = round + 1
      /\ round < MaxRounds
  BY DEF enqueue_digest
<1>4. \A u \in Users : Requeued(u) \in QueueRow
  <2> TAKE u \in Users
  <2>1. CASE queue[u] = Absent
    <3>1. round + 1 \in 1..MaxRounds
      BY <1>3 DEF Inv, TypeOK
    <3> QED  BY <2>1, <3>1 DEF Requeued, QueueRow
  <2>2. CASE queue[u] # Absent
    <3>1. queue[u] \in QueueRow
      BY <2>2 DEF Inv, TypeOK
    <3>2. Requeued(u) =
              [status |-> "pending", attempts |-> 0,
               enqueued_at |-> queue[u].enqueued_at]
      BY <2>2, <3>1 DEF Requeued, QueueRow
    <3> QED  BY <3>1, <3>2 DEF QueueRow
  <2> QED  BY <2>1, <2>2
<1>5. TypeOK'
  <2>1. queue' \in [Users -> QueueRow \cup {Absent}]
    BY <1>4 DEF enqueue_digest, Inv, TypeOK
  <2>2. enqueued' \in [Users -> Nat]
    BY DEF enqueue_digest, Inv, TypeOK
  <2>3. round' \in 0..MaxRounds
    BY <1>3 DEF Inv, TypeOK
  <2> QED  BY <1>3, <2>1, <2>2, <2>3 DEF Inv, TypeOK
<1>6. WorkerShape'
  <2>1. \A u \in Users : queue[u] # Absent => queue'[u] # Absent
    BY <1>1, <1>4
  <2> QED  BY <1>3, <2>1 DEF Inv, IInv, WorkerShape, Shape
<1>7. MailLeft' /\ MailsAreBounded'
  <2> SUFFICES ASSUME NEW w \in Workers, NEW u \in Users
               PROVE  /\ MayMail(worker[w], u)'
                            => mailed'[w][u] < enqueued'[u] + crashes'[w]
                      /\ mailed'[w][u] <= enqueued'[u] + crashes'[w]
    BY DEF MailLeft, MailsAreBounded
  <2>1. /\ mailed[w][u] \in Nat /\ enqueued[u] \in Nat /\ crashes[w] \in Nat
        /\ mailed[w][u] <= enqueued[u] + crashes[w]
        /\ MayMail(worker[w], u) => mailed[w][u] < enqueued[u] + crashes[w]
    BY DEF Inv, TypeOK, IInv, MailLeft, MailsAreBounded
  <2>2. CASE u \in us
    BY <1>2, <1>3, <2>1, <2>2
  <2>3. CASE u \notin us
    <3>1. queue'[u] = queue[u] /\ enqueued'[u] = enqueued[u]
      BY <1>1, <1>2, <2>3
    <3>2. MayMail(worker[w], u)' => MayMail(worker[w], u)
      BY <1>3, <3>1 DEF MayMail, Holds, Closing, Pending
    <3> QED  BY <1>3, <2>1, <3>1, <3>2
  <2> QED  BY <2>2, <2>3
<1> QED  BY <1>5, <1>6, <1>7 DEF Inv, IInv

\* A mail is sent from a state in which one is left, and closes the row.
LEMMA SendKeepsInv ==
    ASSUME Inv, NEW w \in Workers, SendMail(w)
    PROVE  Inv'
<1> DEFINE a == worker[w].user
<1>1. /\ worker[w] \in WorkerState /\ Shape(worker[w])
      /\ worker[w].pc = "mail"
  BY DEF SendMail, Inv, TypeOK, IInv, WorkerShape
<1>2. a \in Users
  BY <1>1 DEF Shape, WorkerState
<1>3. \A v \in Workers, u \in Users : mailed'[v][u] =
          IF v = w /\ u = a THEN mailed[v][u] + 1 ELSE mailed[v][u]
  BY <1>2 DEF SendMail, Inv, TypeOK
<1> DEFINE s == [worker[w] EXCEPT !.pc = "marking"]
<1>4. /\ worker' = [worker EXCEPT ![w] = s]
      /\ UNCHANGED <<queue, round, current, enqueued, crashes>>
  BY DEF SendMail
<1>5. /\ s \in WorkerState
      /\ s.pc = "marking" /\ s.rows = worker[w].rows /\ s.user = a
  BY <1>1 DEF WorkerState, WorkerPC
<1> HIDE DEF s, a
<1>6. \A v \in Workers : worker'[v] = IF v = w THEN s ELSE worker[v]
  BY <1>4 DEF Inv, TypeOK
<1>7. TypeOK'
  <2>1. mailed' \in [Workers -> [Users -> Nat]]
    BY <1>2 DEF SendMail, Inv, TypeOK, a
  <2>2. worker' \in [Workers -> WorkerState]
    BY <1>4, <1>5 DEF Inv, TypeOK
  <2> QED  BY <1>4, <2>1, <2>2 DEF Inv, TypeOK
<1>8. WorkerShape'
  <2>1. Shape(s)
    BY <1>1, <1>2, <1>5 DEF Shape, a
  <2>2. \A v \in Workers : Shape(worker'[v])
    BY <1>6, <2>1 DEF Inv, IInv, WorkerShape
  <2> QED  BY <1>4, <2>2 DEF WorkerShape, Shape
<1>9. MailLeft' /\ MailsAreBounded'
  <2> SUFFICES ASSUME NEW v \in Workers, NEW u \in Users
               PROVE  /\ MayMail(worker[v], u)'
                            => mailed'[v][u] < enqueued'[u] + crashes'[v]
                      /\ mailed'[v][u] <= enqueued'[u] + crashes'[v]
    BY DEF MailLeft, MailsAreBounded
  <2>1. /\ mailed[v][u] \in Nat /\ enqueued[u] \in Nat /\ crashes[v] \in Nat
        /\ mailed[v][u] <= enqueued[u] + crashes[v]
        /\ MayMail(worker[v], u) => mailed[v][u] < enqueued[u] + crashes[v]
    BY DEF Inv, TypeOK, IInv, MailLeft, MailsAreBounded
  <2>2. MayMail(worker[v], u)' = MayMail(worker'[v], u)
    BY <1>4 DEF MayMail, Holds, Closing, Pending
  <2>3. CASE v = w /\ u = a
    <3>1. MayMail(worker[v], u)
      BY <1>1, <2>3 DEF MayMail, Holds, a
    <3>2. ~MayMail(worker'[v], u)
      BY <1>1, <1>5, <1>6, <2>3 DEF MayMail, Holds, Closing, Shape, a
    <3> QED  BY <1>3, <1>4, <2>1, <2>2, <2>3, <3>1, <3>2
  <2>4. CASE ~(v = w /\ u = a)
    <3>1. MayMail(worker'[v], u) => MayMail(worker[v], u)
      BY <1>1, <1>5, <1>6, <2>4 DEF MayMail, Holds, Closing, a
    <3> QED  BY <1>3, <1>4, <2>1, <2>2, <2>4, <3>1
  <2> QED  BY <2>3, <2>4
<1> QED  BY <1>7, <1>8, <1>9 DEF Inv, IInv

\* A row is marked, in whatever way that does not make it pending: nobody
\* gets a new chance to mail its user.
LEMMA MarkKeepsInv ==
    ASSUME Inv, NEW w \in Workers, worker[w].pc \in {"marking", "failing"},
           NEW row \in QueueRow, row.status # "pending",
           queue' = [queue EXCEPT ![worker[w].user] = row],
           worker' = [worker EXCEPT ![w] = Released(worker[w])],
           UNCHANGED <<round, current, enqueued, mailed, crashes>>
    PROVE  Inv'
<1> DEFINE a == worker[w].user
           s == Released(worker[w])
<1>1. worker[w] \in WorkerState /\ Shape(worker[w])
  BY DEF Inv, TypeOK, IInv, WorkerShape
<1>2. a \in Users
  BY <1>1 DEF Shape, WorkerState
<1>3. /\ s \in WorkerState
      /\ s.pc = "next" /\ s.rows = worker[w].rows /\ s.user = Absent
  <2>1. 0 \in 0..MaxRecs /\ Absent \in Users \cup {Absent}
    OBVIOUS
  <2> QED  BY <1>1, <2>1 DEF Released, WorkerState, WorkerPC
<1> HIDE DEF s
<1>4. \A v \in Workers : worker'[v] = IF v = w THEN s ELSE worker[v]
  BY DEF Inv, TypeOK, s
<1>5. \A u \in Users : queue'[u] = IF u = a THEN row ELSE queue[u]
  BY <1>2 DEF Inv, TypeOK
<1> HIDE DEF a
<1>6. TypeOK'
  <2>1. queue' \in [Users -> QueueRow \cup {Absent}]
    BY DEF Inv, TypeOK
  <2>2. worker' \in [Workers -> WorkerState]
    BY <1>3 DEF Inv, TypeOK, s
  <2> QED  BY <2>1, <2>2 DEF Inv, TypeOK
<1>7. WorkerShape'
  <2> SUFFICES ASSUME NEW v \in Workers  PROVE Shape(worker[v])'
    BY DEF WorkerShape
  <2>1. Shape(worker[v]) /\ worker[v] \in WorkerState
    BY DEF Inv, TypeOK, IInv, WorkerShape
  <2>2. \A u \in Users : queue[u] # Absent => queue'[u] # Absent
    BY <1>5
  <2>3. CASE v = w
    BY <1>1, <1>3, <1>4, <2>2, <2>3 DEF Shape, WorkerState
  <2>4. CASE v # w
    BY <1>4, <2>1, <2>2, <2>4 DEF Shape
  <2> QED  BY <2>3, <2>4
<1>8. MailLeft'
  <2> SUFFICES ASSUME NEW v \in Workers, NEW u \in Users,
                      MayMail(worker[v], u)'
               PROVE  mailed[v][u] < enqueued[u] + crashes[v]
    BY DEF MailLeft
  <2>1. MayMail(worker[v], u)
    <3>1. CASE Holds(worker'[v], u)
      <4>1. Holds(worker[v], u)
        BY <1>2, <1>3, <1>4, <3>1 DEF Holds
      <4> QED  BY <4>1 DEF MayMail
    <3>2. CASE Pending(u)' /\ ~Closing(worker'[v], u)
      <4>1. u # a /\ Pending(u)
        BY <1>5, <3>2 DEF Pending
      <4>2. ~Closing(worker[v], u)
        BY <1>4, <3>2, <4>1 DEF Closing, a
      <4> QED  BY <4>1, <4>2 DEF MayMail
    <3> QED  BY <3>1, <3>2 DEF MayMail, Holds, Closing
  <2> QED  BY <2>1 DEF Inv, IInv, MailLeft
<1>9. MailsAreBounded'
  BY DEF Inv, IInv, MailsAreBounded
<1> QED  BY <1>6, <1>7, <1>8, <1>9 DEF Inv, IInv

LEMMA CrashKeepsInv ==
    ASSUME Inv, NEW w \in Workers, CrashWorker(w)
    PROVE  Inv'
<1>1. \A v \in Workers :
          /\ worker'[v] = IF v = w THEN IdleWorker ELSE worker[v]
          /\ crashes'[v] = IF v = w THEN crashes[v] + 1 ELSE crashes[v]
  BY DEF CrashWorker, Inv, TypeOK
<1>2. UNCHANGED <<queue, round, current, enqueued, mailed>>
  BY DEF CrashWorker
<1>3. TypeOK'
  <2>1. worker' \in [Workers -> WorkerState]
    BY IdleType DEF CrashWorker, Inv, TypeOK
  <2>2. crashes' \in [Workers -> Nat]
    BY DEF CrashWorker, Inv, TypeOK
  <2> QED  BY <1>2, <2>1, <2>2 DEF Inv, TypeOK
<1>4. WorkerShape'
  BY <1>1, <1>2, IdleType DEF Inv, IInv, WorkerShape, Shape
<1>5. MailLeft' /\ MailsAreBounded'
  <2> SUFFICES ASSUME NEW v \in Workers, NEW u \in Users
               PROVE  /\ MayMail(worker[v], u)'
                            => mailed[v][u] < enqueued[u] + crashes'[v]
                      /\ mailed[v][u] <= enqueued[u] + crashes'[v]
    BY <1>2 DEF MailLeft, MailsAreBounded
  <2>1. /\ mailed[v][u] \in Nat /\ enqueued[u] \in Nat /\ crashes[v] \in Nat
        /\ mailed[v][u] <= enqueued[u] + crashes[v]
        /\ MayMail(worker[v], u) => mailed[v][u] < enqueued[u] + crashes[v]
    BY DEF Inv, TypeOK, IInv, MailLeft, MailsAreBounded
  <2>2. CASE v = w
    BY <1>1, <2>1, <2>2
  <2>3. CASE v # w
    <3>1. MayMail(worker[v], u)' => MayMail(worker[v], u)
      BY <1>1, <1>2, <2>3 DEF MayMail, Holds, Closing, Pending
    <3> QED  BY <1>1, <2>1, <2>3, <3>1
  <2> QED  BY <2>2, <2>3
<1> QED  BY <1>3, <1>4, <1>5 DEF Inv, IInv

-----------------------------------------------------------------------------
LEMMA FailedRow ==
    ASSUME NEW q \in QueueRow
    PROVE  LET row == [q EXCEPT !.status = "failed", !.attempts = @ + 1]
           IN  row \in QueueRow /\ row.status # "pending"
<1> DEFINE m == [q EXCEPT !.status = "failed"]
<1>1. m \in QueueRow /\ m.status = "failed" /\ m.attempts = q.attempts
  BY DEF QueueRow
<1> HIDE DEF m
<1>2. m.attempts + 1 \in Nat
  BY <1>1 DEF QueueRow
<1>3. /\ [m EXCEPT !.attempts = m.attempts + 1] \in QueueRow
      /\ [m EXCEPT !.attempts = m.attempts + 1].status = "failed"
  BY <1>1, <1>2 DEF QueueRow
<1> QED  BY <1>1, <1>3 DEF m

LEMMA StepKeepsInv ==
    ASSUME Inv, NEW w \in Workers, WorkerStep(w)
    PROVE  Inv'
<1>1. /\ worker[w] \in WorkerState /\ Shape(worker[w])
      /\ current \in [Users -> 0..MaxRecs]
      /\ queue \in [Users -> QueueRow \cup {Absent}]
  BY DEF Inv, TypeOK, IInv, WorkerShape
<1>2. \A pc : [worker[w] EXCEPT !.pc = pc]
                = [worker[w] EXCEPT !.pc = pc, !.rec = worker[w].rec]
  BY <1>1 DEF WorkerState
<1>3. worker[w].rec \in 0..MaxRecs
  BY <1>1 DEF WorkerState
<1>4. worker[w].pc \notin {"idle", "claiming", "next"} =>
          worker[w].user \in Users /\ current[worker[w].user] \in 0..MaxRecs
  BY <1>1 DEF Shape, WorkerState
<1> USE DEF WorkerPC
<1>5. CASE claim_digest_queue(w)
  BY <1>5, ClaimKeepsInv
<1>6. CASE ReturnConnection(w)
  BY <1>1, <1>2, <1>3, <1>6, MoveKeepsInv DEF ReturnConnection
<1>7. CASE TakeRow(w)
  BY <1>7, TakeRowKeepsInv
<1>8. CASE StopWorker(w)
  BY <1>8, StopKeepsInv
<1>9. CASE StartAgent(w)
  BY <1>1, <1>4, <1>9, MoveKeepsInv DEF StartAgent
<1>10. CASE CacheHit(w)
  BY <1>1, <1>4, <1>10, MoveKeepsInv DEF CacheHit
<1>11. CASE NoSignal(w)
  BY <1>1, <1>2, <1>3, <1>11, MoveKeepsInv DEF NoSignal
<1>12. CASE GraphSucceeds(w)
  <2>1. current' \in [Users -> 0..MaxRecs]
    BY <1>1, <1>4, <1>12 DEF GraphSucceeds
  <2> QED  BY <1>1, <1>2, <1>3, <1>12, <2>1, MoveKeepsInv DEF GraphSucceeds
<1>13. CASE RereadCurrent(w)
  BY <1>1, <1>4, <1>13, MoveKeepsInv DEF RereadCurrent
<1>14. CASE GraphFails(w)
  BY <1>1, <1>2, <1>3, <1>14, MoveKeepsInv DEF GraphFails
<1>15. CASE SendMail(w)
  BY <1>15, SendKeepsInv
<1>16. CASE MailRefused(w)
  BY <1>1, <1>2, <1>3, <1>16, MoveKeepsInv DEF MailRefused
<1>17. CASE RowRaises(w)
  BY <1>1, <1>2, <1>3, <1>17, MoveKeepsInv DEF RowRaises
<1>18. CASE mark_digest_done(w)
  <2> DEFINE u == worker[w].user
             row == [queue[u] EXCEPT !.status = "done"]
  <2>1. u \in Users /\ queue[u] \in QueueRow
    BY <1>1, <1>4, <1>18 DEF mark_digest_done, Shape
  <2>2. row \in QueueRow /\ row.status # "pending"
    BY <2>1 DEF QueueRow
  <2>3. queue' = [queue EXCEPT ![u] = row]
    BY <1>18 DEF mark_digest_done
  <2> QED  BY <1>18, <2>2, <2>3, MarkKeepsInv DEF mark_digest_done
<1>19. CASE mark_digest_failed(w)
  <2> DEFINE u == worker[w].user
             row == [queue[u] EXCEPT !.status = "failed", !.attempts = @ + 1]
  <2>1. u \in Users /\ queue[u] \in QueueRow
    BY <1>1, <1>4, <1>19 DEF mark_digest_failed, Shape
  <2>2. row \in QueueRow /\ row.status # "pending"
    BY <2>1, FailedRow
  <2>3. queue' = [queue EXCEPT ![u] = row]
    BY <1>1, <1>19, <2>1 DEF mark_digest_failed, QueueRow
  <2> QED  BY <1>19, <2>2, <2>3, MarkKeepsInv DEF mark_digest_failed
<1> QED
  BY <1>5, <1>6, <1>7, <1>8, <1>9, <1>10, <1>11, <1>12, <1>13, <1>14, <1>15,
     <1>16, <1>17, <1>18, <1>19 DEF WorkerStep

\* The invariant of the digest queue, for any number of workers and users.
THEOREM DigestInvariant == Spec => []Inv
<1>1. Inv /\ [Next]_vars => Inv'
  <2> SUFFICES ASSUME Inv, [Next]_vars  PROVE Inv'
    OBVIOUS
  <2>1. CASE \E us \in SUBSET Users : enqueue_digest(us)
    BY <2>1, EnqueueKeepsInv
  <2>2. ASSUME NEW u \in Users, BackgroundRun(u)  PROVE Inv'
    <3>1. current' \in [Users -> 0..MaxRecs]
      BY <2>2 DEF BackgroundRun, Inv, TypeOK
    <3> QED
      BY <2>2, <3>1 DEF BackgroundRun, Inv, TypeOK, IInv, WorkerShape, Shape,
         MailLeft, MayMail, Holds, Closing, Pending, MailsAreBounded
  <2>3. ASSUME NEW w \in Workers, WorkerStep(w)  PROVE Inv'
    BY <2>3, StepKeepsInv
  <2>4. ASSUME NEW w \in Workers, CrashWorker(w)  PROVE Inv'
    BY <2>4, CrashKeepsInv
  <2>5. CASE UNCHANGED vars
    BY <2>5 DEF vars, Inv, TypeOK, IInv, WorkerShape, Shape, MailLeft,
       MayMail, Holds, Closing, Pending, MailsAreBounded
  <2> QED  BY <2>1, <2>2, <2>3, <2>4, <2>5 DEF Next
<1> QED  BY <1>1, InitInv, PTL DEF Spec

\* Every variable keeps its shape.
THEOREM DigestTypeCorrect == Spec => []TypeOK
<1>1. Inv => TypeOK
  BY DEF Inv
<1> QED  BY <1>1, DigestInvariant, PTL

\* A worker that may still mail a user has a mail left for that user, whichever
\* workers overlap and whichever rows are enqueued again under them.
THEOREM MailsLeftAreCounted == Spec => []IInv
<1>1. Inv => IInv
  BY DEF Inv
<1> QED  BY <1>1, DigestInvariant, PTL

\* However many invocations of the worker overlap, none of them mails a user
\* more than once per enqueue, except again after it died.
THEOREM DigestMailsAreBounded == Spec => []MailsAreBounded
<1>1. Inv => MailsAreBounded
  BY DEF Inv, IInv
<1> QED  BY <1>1, DigestInvariant, PTL
=============================================================================

---------------------------- MODULE TaskSessionProofs ----------------------------
(***************************************************************************)
(* What holds of a tab that shows a task for every number of turns, every  *)
(* length of an answer and every bound: the recovery of the tab implements *)
(* JoinRecovery, a machine in joining has its join under way, and only a   *)
(* turn reopens a task that is over.                                       *)
(***************************************************************************)
EXTENDS TaskSession, TLAPS

(***************************************************************************)
(* The reducers.  A reducer changes neither the recovery's number nor what *)
(* is kept, nor whether the task is open; it may settle the machine.       *)
(***************************************************************************)
Fields == {"status", "phase", "task", "joined", "active", "upd", "termUpd", "hasTerm",
           "defTask", "defUpd", "confirmed", "stamp", "prompts", "msgs", "chunks", "pend",
           "since", "version", "closed"}

IsMachine(a) == DOMAIN a = Fields

SameRecovery(a, b) ==
  /\ IsMachine(b)
  /\ b.pend = a.pend /\ b.version = a.version /\ b.since = a.since /\ b.closed = a.closed

\* A reducer of a streaming event.
Reduces(a, b) == SameRecovery(a, b) /\ b.status \in {a.status} \cup Settled

LEMMA StartReduces ==
  ASSUME NEW a, NEW s, IsMachine(a) PROVE Reduces(a, ChatStart(a, s))
BY DEF IsMachine, Fields, Reduces, SameRecovery, ChatStart, WithMessage, Settled

LEMMA ChunkReduces ==
  ASSUME NEW a, NEW s, NEW p, IsMachine(a) PROVE Reduces(a, ChatChunk(a, s, p))
BY DEF IsMachine, Fields, Reduces, SameRecovery, ChatChunk, ChunkApplied, Settled

LEMMA DoneReduces ==
  ASSUME NEW a, NEW s, IsMachine(a) PROVE Reduces(a, ChatDone(a, s))
BY DEF IsMachine, Fields, Reduces, SameRecovery, ChatDone, StreamEnded, Settled

LEMMA ErrorReduces ==
  ASSUME NEW a, NEW s, IsMachine(a) PROVE Reduces(a, ChatError(a, s))
BY ZenonT(30) DEF IsMachine, Fields, Reduces, SameRecovery, ChatError, StreamEnded, Settled

LEMMA CancelledReduces ==
  ASSUME NEW a, NEW s, IsMachine(a) PROVE Reduces(a, ChatCancelled(a, s))
BY DEF IsMachine, Fields, Reduces, SameRecovery, ChatCancelled, StreamEnded, Settled

LEMMA AcceptedReduces ==
  ASSUME NEW a, NEW s, NEW at, IsMachine(a) PROVE Reduces(a, SendAccepted(a, s, at))
BY DEF IsMachine, Fields, Reduces, SameRecovery, SendAccepted, Settled

LEMMA AbsentReduces ==
  ASSUME NEW a, IsMachine(a) PROVE Reduces(a, StreamAbsent(a))
BY DEF IsMachine, Fields, Reduces, SameRecovery, StreamAbsent, Settled

\* A status from an event, the task detail or a check settles no recovery.
Observes(a, b) ==
  /\ SameRecovery(a, b)
  /\ b.status = a.status \/ (a.status \notin Recovering /\ b.status \in Settled)

LEMMA LifecycleObserves ==
  ASSUME NEW a, NEW task, NEW upd, IsMachine(a) PROVE Observes(a, TaskLifecycle(a, task, upd))
BY DEF IsMachine, Fields, Observes, SameRecovery, TaskLifecycle, TaskEnded, Settled

LEMMA ErrorOfRecoveryReduces ==
  ASSUME NEW a, IsMachine(a)
  PROVE /\ Reduces(a, EnterRecoveryError(a))
        /\ EnterRecoveryError(a).status \notin Recovering
BY DEF IsMachine, Fields, Reduces, SameRecovery, EnterRecoveryError, Settled, Recovering

LEMMA PendingChunksReduce ==
  ASSUME NEW a, IsMachine(a)
  PROVE SameRecovery(a, ApplyPendingChunks(a)) /\ ApplyPendingChunks(a).status = a.status
BY DEF IsMachine, Fields, SameRecovery, ApplyPendingChunks

LEMMA SyncReduces ==
  ASSUME NEW a, NEW snap, NEW upd, IsMachine(a)
  PROVE Reduces(a, Synced(a, snap, upd)) /\ Synced(a, snap, upd).status \in Settled
<1> DEFINE b == SnapshotApplied(a, snap, upd)
<1>1. SameRecovery(a, b) /\ b.status \in Settled
  BY DEF IsMachine, Fields, SameRecovery, Settled, SnapshotApplied
<1>2. SameRecovery(b, ApplyPendingChunks(b)) /\ ApplyPendingChunks(b).status = b.status
  BY <1>1, PendingChunksReduce DEF SameRecovery
<1> QED
  BY <1>1, <1>2 DEF Reduces, SameRecovery, Synced

(***************************************************************************)
(* The recovery as JoinRecovery sees it.                                   *)
(***************************************************************************)
PhaseOf(a) == IF a.closed THEN "closed" ELSE IF a.status = "joining" THEN "joining"
              ELSE IF a.status = "waiting_socket" THEN "waiting" ELSE "settled"

Starts(a, b) ==
  /\ PhaseOf(a) = "joining" => a.pend.on
  /\ PhaseOf(b) = "joining" /\ b.pend.on = FALSE /\ b.version = a.version + 1

Awaits(a, b) ==
  PhaseOf(b) = "waiting" /\ b.pend.on \in {a.pend.on, TRUE} /\ b.version = a.version

Keeps(a, b) ==
  /\ PhaseOf(a) = "joining" /\ PhaseOf(b) = "joining"
  /\ b.pend.on = TRUE /\ b.version = a.version

Rests(a, b) ==
  /\ PhaseOf(a) \in {"joining", "waiting"} /\ PhaseOf(b) = "settled"
  /\ b.pend.on = a.pend.on /\ b.version = a.version

Closes(a, b) ==
  /\ PhaseOf(a) # "closed" /\ PhaseOf(b) = "closed"
  /\ b.pend.on = FALSE /\ b.version = a.version + 1

Stays(a, b) == PhaseOf(b) = PhaseOf(a) /\ b.pend.on = a.pend.on /\ b.version = a.version

RecoveryStep(a, b) ==
  Starts(a, b) \/ Awaits(a, b) \/ Keeps(a, b) \/ Rests(a, b) \/ Closes(a, b) \/ Stays(a, b)

Opened(a) == IsMachine(a) /\ ~a.closed

LEMMA RecoverSteps ==
  ASSUME NEW a, NEW b, NEW full, NEW after, NEW upd, Opened(a), Observes(a, b)
  PROVE LET c == Recover(b, full, after, upd).m IN RecoveryStep(a, c) /\ Opened(c)
<1> DEFINE c == Recover(b, full, after, upd).m
<1>0. IsMachine(b) /\ b.pend = a.pend /\ b.version = a.version /\ ~b.closed /\ ~a.closed
  BY DEF Observes, SameRecovery, Opened
<1>1. CASE b.status = "joining"
  <2>1. a.status = "joining"
    BY <1>1 DEF Observes, Settled
  <2>2. c = [b EXCEPT !.pend = [on |-> TRUE, full |-> full, after |-> after]]
    BY <1>1 DEF Recover, Step
  <2> QED
    BY <1>0, <1>1, <2>1, <2>2 DEF RecoveryStep, Keeps, PhaseOf, Opened, IsMachine, Fields
<1>2. CASE b.status # "joining" /\ ~conn.on
  <2>1. c = [EnterWaitingSocket(b) EXCEPT !.pend = [on |-> TRUE, full |-> full, after |-> after]]
    BY <1>2 DEF Recover, Step
  <2>2. IsMachine(c) /\ ~c.closed /\ c.status = "waiting_socket" /\ c.version = a.version
        /\ c.pend.on = TRUE
    BY <1>0, <2>1 DEF IsMachine, Fields, EnterWaitingSocket
  <2> QED
    BY <2>2, Zenon DEF RecoveryStep, Awaits, PhaseOf, Opened
<1>3. CASE b.status # "joining" /\ conn.on
  <2>1. a.status # "joining"
    BY <1>3 DEF Observes, Recovering
  <2>2. c = EnterJoining(b)
    BY <1>3 DEF Recover, Step
  <2> QED
    BY <1>0, <2>1, <2>2
    DEF RecoveryStep, Starts, PhaseOf, Opened, IsMachine, Fields, EnterJoining, NoRecovery
<1> QED
  BY <1>1, <1>2, <1>3

LEMMA DispatchSteps ==
  ASSUME NEW a, NEW b, Opened(a), Reduces(a, b)
  PROVE RecoveryStep(a, Dispatched(b).m) /\ Opened(Dispatched(b).m)
<1> DEFINE c == Dispatched(b).m
           b0 == [b EXCEPT !.pend = NoRecovery]
<1>0. IsMachine(b) /\ b.pend = a.pend /\ b.version = a.version /\ ~b.closed /\ ~a.closed
      /\ b.status \in {a.status} \cup Settled
  BY DEF Reduces, SameRecovery, Opened
<1>1. CASE b.pend.on /\ b.status \in Settled
  <2>0. IsMachine(b0) /\ ~b0.closed /\ b0.version = a.version /\ b0.status # "joining"
    BY <1>0, <1>1 DEF IsMachine, Fields, Settled
  <2>1. c = Recover(b0, b.pend.full, b.pend.after, 0).m
    BY <1>1 DEF Dispatched
  <2>2. CASE ~conn.on
    <3>1. c = [EnterWaitingSocket(b0)
               EXCEPT !.pend = [on |-> TRUE, full |-> b.pend.full, after |-> b.pend.after]]
      BY <2>0, <2>1, <2>2 DEF Recover, Step
    <3>2. IsMachine(c) /\ ~c.closed /\ c.status = "waiting_socket" /\ c.version = a.version
          /\ c.pend.on = TRUE
      BY <2>0, <3>1 DEF IsMachine, Fields, EnterWaitingSocket
    <3> QED
      BY <3>2, Zenon DEF RecoveryStep, Awaits, PhaseOf, Opened
  <2>3. CASE conn.on
    <3>1. c = EnterJoining(b0)
      BY <2>0, <2>1, <2>3 DEF Recover, Step
    <3> QED
      BY <1>0, <1>1, <2>0, <3>1
      DEF RecoveryStep, Starts, PhaseOf, Opened, IsMachine, Fields, EnterJoining, NoRecovery
  <2> QED
    BY <2>2, <2>3
<1>2. CASE ~(b.pend.on /\ b.status \in Settled)
  <2>1. c = b
    BY <1>2 DEF Dispatched, Step
  <2> QED
    BY <1>0, <2>1 DEF RecoveryStep, Stays, Rests, PhaseOf, Opened, Settled
<1> QED
  BY <1>1, <1>2

(***************************************************************************)
(* The steps of the tab.                                                   *)
(***************************************************************************)
Shape ==
  /\ IsMachine(m) /\ m.version \in Nat
  /\ m.closed => m.status = "idle" /\ m.task = NoTask

\* A step of the recovery that leaves the task open, or changes nothing.
Runs == RecoveryStep(m, m') /\ (Opened(m') \/ m' = m)

LEMMA StayRuns == ASSUME m' = m PROVE Runs
BY DEF Runs, RecoveryStep, Stays, PhaseOf

LEMMA ReducedRuns ==
  ASSUME NEW b, Shape, Reduces(m, b), Reduced(b) PROVE Runs
<1>1. Opened(m) /\ m' = Dispatched(b).m
  BY DEF Shape, Opened, Reduced, Perform, PerformAfter
<1> QED
  BY <1>1, DispatchSteps DEF Runs

LEMMA LifecycleRuns ==
  ASSUME NEW task, NEW upd, Shape, ~m.closed, m' = TaskLifecycle(m, task, upd) PROVE Runs
<1>1. Observes(m, m') /\ ~m'.closed /\ IsMachine(m')
  BY LifecycleObserves DEF Shape, Observes, SameRecovery
<1> QED
  BY <1>1
  DEF Runs, Opened, Observes, SameRecovery, RecoveryStep, Stays, PhaseOf, Recovering, Settled

LEMMA ReplyRuns == ASSUME Shape, DeliverReply PROVE Runs
<1> DEFINE b == SendAccepted(m, Head(down).s, srv.clock)
<1>1. Opened(m) /\ m' = Dispatched(b).m
  <2> DEFINE step == Dispatched(b)
             joined == conn.joinedTask \/ step.sent # <<>>
             plain == [type |-> "join", v |-> 0, after |-> NoCursor, upd |-> 0]
             sent == [step EXCEPT !.sent = IF joined THEN @ ELSE Append(@, plain)]
  <2>1. m' = sent.m /\ ~m.closed
    BY DEF DeliverReply, Perform, PerformAfter
  <2>2. DOMAIN step = {"m", "sent"}
    BY DEF Dispatched, Recover, Step
  <2>3. sent.m = step.m
    BY <2>2
  <2> QED
    BY <2>1, <2>3 DEF Opened, Shape
<1>2. Reduces(m, b)
  BY AcceptedReduces DEF Shape
<1> QED
  BY <1>1, <1>2, DispatchSteps DEF Runs

LEMMA AnswerReduces ==
  ASSUME NEW answer, IsMachine(m)
  PROVE Reduces(m, Answered(answer)) /\ Answered(answer).status \notin Recovering
BY SyncReduces, ErrorOfRecoveryReduces DEF Answered, Settled, Recovering

LEMMA AnswerRuns == ASSUME Shape, DeliverAnswer PROVE Runs
<1> DEFINE answer == Head(down)
           current == ~m.closed /\ answer.v = m.version
           late == ~m.closed /\ answer.v >= m.since
           step == IF current THEN Dispatched(Answered(answer))
                   ELSE IF late THEN Dispatched(m) ELSE Step(m, <<>>)
<1>0. m' = step.m
  BY DEF DeliverAnswer, PerformAfter
<1>1. CASE current
  BY <1>0, <1>1, AnswerReduces, DispatchSteps DEF Runs, Shape, Opened
<1>2. CASE ~current /\ late
  <2>1. Reduces(m, m)
    BY DEF Reduces, SameRecovery, Shape
  <2> QED
    BY <1>0, <1>2, <2>1, DispatchSteps DEF Runs, Shape, Opened
<1>3. CASE ~current /\ ~late
  <2>1. m' = m
    BY <1>0, <1>3 DEF Step
  <2> QED
    BY <2>1, StayRuns
<1> QED
  BY <1>1, <1>2, <1>3

LEMMA ReconcileRuns == ASSUME Shape, Reconcile PROVE Runs
<1> DEFINE after == IF check.stream # 0 THEN NoCursor ELSE CursorBefore(m)
           known == TaskLifecycle(m, check.task, check.upd)
           step == Recover(known, check.reconnect, after, check.upd)
           idle == IF check.stream = 0 /\ check.task = "RUNNING"
                   THEN StreamAbsent(known) ELSE known
<1>0. Opened(m) /\ Observes(m, known) /\ Opened(known)
  BY LifecycleObserves DEF Reconcile, Shape, Opened, Observes, SameRecovery
<1>1. m' = step.m \/ m' = EnterWaitingSocket(known) \/ m' = idle
  BY DEF Reconcile, Perform, PerformAfter, Step
<1>2. CASE m' = step.m
  BY <1>0, <1>2, RecoverSteps DEF Runs
<1>3. CASE m' = EnterWaitingSocket(known)
  BY <1>0, <1>3
  DEF Runs, RecoveryStep, Awaits, PhaseOf, Opened, Observes, SameRecovery, IsMachine, Fields,
      EnterWaitingSocket
<1>4. CASE m' = idle
  <2>1. Reduces(m, idle)
    BY <1>0, AbsentReduces DEF Reduces, Observes, SameRecovery, Opened, Settled, StreamAbsent
  <2> QED
    BY <1>0, <1>4, <2>1
    DEF Runs, RecoveryStep, Stays, Rests, PhaseOf, Opened, Reduces, SameRecovery, Settled
<1> QED
  BY <1>1, <1>2, <1>3, <1>4

LEMMA SelectSteps ==
  ASSUME Shape, Select PROVE RecoveryStep(m, m') /\ Opened(m')
<1> DEFINE b == Fresh(m.version, FALSE)
<1>1. m' = Recover(b, FALSE, NoCursor, 0).m /\ m.closed
  BY DEF Select, Perform, PerformAfter
<1>2. IsMachine(b) /\ b.status = "idle" /\ b.version = m.version /\ ~b.closed
  BY DEF Fresh, IsMachine, Fields
<1>3. CASE ~conn.on
  <2>1. m' = [EnterWaitingSocket(b)
              EXCEPT !.pend = [on |-> TRUE, full |-> FALSE, after |-> NoCursor]]
    BY <1>1, <1>2, <1>3 DEF Recover, Step
  <2>2. IsMachine(m') /\ ~m'.closed /\ m'.status = "waiting_socket"
        /\ m'.version = m.version /\ m'.pend.on = TRUE
    BY <1>2, <2>1 DEF IsMachine, Fields, EnterWaitingSocket
  <2> QED
    BY <2>2, Zenon DEF RecoveryStep, Awaits, PhaseOf, Opened
<1>4. CASE conn.on
  <2>1. m' = EnterJoining(b)
    BY <1>1, <1>2, <1>4 DEF Recover, Step
  <2>2. IsMachine(m') /\ ~m'.closed /\ m'.status = "joining"
        /\ m'.version = m.version + 1 /\ m'.pend.on = FALSE
    BY <1>2, <2>1 DEF IsMachine, Fields, EnterJoining, NoRecovery
  <2> QED
    BY <1>1, <2>2, Zenon DEF RecoveryStep, Starts, PhaseOf, Opened
<1> QED
  BY <1>3, <1>4

LEMMA DeselectSteps ==
  ASSUME Shape, Deselect PROVE RecoveryStep(m, m') /\ m' = Fresh(m.version + 1, TRUE)
<1>1. m' = Fresh(m.version + 1, TRUE) /\ ~m.closed
  BY DEF Deselect, Perform, PerformAfter, Step
<1> QED
  BY <1>1 DEF Fresh, RecoveryStep, Closes, PhaseOf, NoRecovery

LEMMA EventRuns ==
  ASSUME Shape, DeliverStart \/ DeliverChunk \/ DeliverDone \/ DeliverError \/ DeliverCancelled
  PROVE Runs
<1> USE DEF Shape
<1>1. CASE DeliverStart
  BY <1>1, StartReduces, ReducedRuns DEF DeliverStart
<1>2. CASE DeliverChunk
  BY <1>2, ChunkReduces, ReducedRuns DEF DeliverChunk
<1>3. CASE DeliverDone
  BY <1>3, DoneReduces, ReducedRuns DEF DeliverDone
<1>4. CASE DeliverError
  BY <1>4, ErrorReduces, ReducedRuns DEF DeliverError
<1>5. CASE DeliverCancelled
  BY <1>5, CancelledReduces, ReducedRuns DEF DeliverCancelled
<1> QED
  BY <1>1, <1>2, <1>3, <1>4, <1>5

LEMMA StatusRuns == ASSUME Shape, DeliverStatus \/ DetailArrives PROVE Runs
<1>1. CASE DeliverStatus /\ detail.at = "loaded"
  BY <1>1, LifecycleRuns DEF DeliverStatus
<1>2. CASE DeliverStatus /\ detail.at # "loaded"
  BY <1>2, StayRuns DEF DeliverStatus
<1>3. CASE DetailArrives
  BY <1>3, LifecycleRuns DEF DetailArrives
<1> QED
  BY <1>1, <1>2, <1>3

\* Everything else leaves the machine alone.
Elsewhere ==
  \/ DropAnswer \/ DropEvent \/ Probe \/ BecomeVisible \/ Send
  \/ Receive \/ DetailRead \/ CheckRead \/ Reply \/ Begin \/ Start \/ Produce \/ Persist \/ Tell
  \/ Disconnect \/ Reconnect \/ CheckFails
  \/ \E j \in joins : Enter(j) \/ ReadStream(j) \/ ReadSubtasks(j) \/ Answer(j) \/ Refuse(j)

LEMMA ElsewhereRuns == ASSUME Elsewhere \/ UNCHANGED vars PROVE m' = m /\ Runs
<1>1. m' = m
  BY DEF Elsewhere, vars, DropAnswer, DropEvent, Probe, BecomeVisible, Send, Receive, DetailRead,
         CheckRead, Reply, Begin, Start, Produce, Persist, Tell, Disconnect, Reconnect,
         CheckFails, Enter, ReadStream, ReadSubtasks, Answer, Refuse
<1> QED
  BY <1>1, StayRuns

LEMMA NumberStays ==
  ASSUME NEW a, NEW b, RecoveryStep(a, b), a.version \in Nat PROVE b.version \in Nat
<1>1. b.version = a.version \/ b.version = a.version + 1
  BY Zenon DEF RecoveryStep, Starts, Awaits, Keeps, Rests, Closes, Stays
<1> QED
  BY <1>1

\* Every step is a step of the recovery.
LEMMA RecoveryOfStep ==
  ASSUME Shape, [Next]_vars PROVE RecoveryStep(m, m') /\ Shape'
<1>1. CASE Select
  BY <1>1, SelectSteps, NumberStays DEF Shape, Opened
<1>2. CASE Deselect
  BY <1>2, DeselectSteps DEF Shape, Fresh, IsMachine, Fields
<1>3. CASE Elsewhere \/ UNCHANGED vars
  BY <1>3, ElsewhereRuns DEF Runs, Shape
<1>4. CASE \/ DeliverStart \/ DeliverChunk \/ DeliverDone \/ DeliverError \/ DeliverCancelled
           \/ DeliverStatus \/ DetailArrives \/ DeliverReply \/ DeliverAnswer \/ Reconcile
  <2>1. Runs
    BY <1>4, EventRuns, StatusRuns, ReplyRuns, AnswerRuns, ReconcileRuns
  <2> QED
    BY <2>1, NumberStays DEF Runs, Shape, Opened
<1> QED
  BY <1>1, <1>2, <1>3, <1>4 DEF Next, Tab, User, Server, Network, Elsewhere

THEOREM ShapeHolds == Spec => []Shape
<1>1. Init => Shape
  BY DEF Init, Shape, Fresh, IsMachine, Fields
<1>2. Shape /\ [Next]_vars => Shape'
  BY RecoveryOfStep
<1> QED
  BY <1>1, <1>2, PTL DEF Spec

(***************************************************************************)
(* The recovery of the tab implements JoinRecovery.                        *)
(***************************************************************************)
\* For every number of turns, length and bound, the joins of a tab are the ones
\* JoinRecovery allows: one counts at a time, each has a number of its own, and a
\* recovery asked for during a join is kept (recoverToStableState, dispatch).
THEOREM RecoveryIsImplemented == Spec => Recovers
<1>1. Init => R!Init
  BY DEF Init, R!Init, Fresh, NoRecovery
<1>2. Shape /\ [Next]_vars
      => [R!Next]_<<IF m.closed THEN "closed" ELSE IF m.status = "joining" THEN "joining"
                    ELSE IF m.status = "waiting_socket" THEN "waiting" ELSE "settled",
                    m.pend.on, m.version>>
  <2> SUFFICES ASSUME Shape, [Next]_vars
               PROVE [R!Next]_<<PhaseOf(m), m.pend.on, m.version>>
    BY DEF PhaseOf
  <2>1. RecoveryStep(m, m')
    BY RecoveryOfStep
  <2> QED
    BY <2>1
    DEF RecoveryStep, Starts, Awaits, Keeps, Rests, Closes, Stays, PhaseOf,
        R!Next, R!Start, R!Await, R!Keep, R!Settle, R!Close
<1> QED
  BY <1>1, <1>2, ShapeHolds, PTL DEF Spec, Recovers, R!Spec

(***************************************************************************)
(* Sequences as the sets of what they carry.                               *)
(***************************************************************************)
Sequence(q) == q \in Seq(ToSet(q))

LEMMA EmptySequence == Sequence(<<>>) /\ ToSet(<<>>) = {}
BY DEF Sequence, ToSet

LEMMA SequenceWider ==
  ASSUME NEW q, NEW S, q \in Seq(S) PROVE Sequence(q) /\ ToSet(q) \subseteq S
BY DEF Sequence, ToSet

LEMMA AppendOf ==
  ASSUME NEW q, NEW e, Sequence(q)
  PROVE Sequence(Append(q, e)) /\ ToSet(Append(q, e)) = ToSet(q) \cup {e}
<1> DEFINE S == ToSet(q) \cup {e}
<1>1. q \in Seq(S) /\ e \in S
  BY DEF Sequence
<1>2. Append(q, e) \in Seq(S)
  BY <1>1
<1>3. Sequence(Append(q, e))
  BY <1>2, SequenceWider
<1>4. /\ Len(q) \in Nat /\ DOMAIN q = 1..Len(q)
      /\ DOMAIN Append(q, e) = 1..Len(q) + 1
      /\ \A i \in 1..Len(q) : Append(q, e)[i] = q[i]
      /\ Append(q, e)[Len(q) + 1] = e
  BY <1>1
<1>5. ToSet(Append(q, e)) = ToSet(q) \cup {e}
  BY <1>4 DEF ToSet
<1> QED
  BY <1>3, <1>5

LEMMA ConcatOf ==
  ASSUME NEW p, NEW q, Sequence(p), Sequence(q)
  PROVE Sequence(p \o q) /\ ToSet(p \o q) = ToSet(p) \cup ToSet(q)
<1> DEFINE S == ToSet(p) \cup ToSet(q)
<1>1. p \in Seq(S) /\ q \in Seq(S)
  BY DEF Sequence
<1>2. p \o q \in Seq(S)
  BY <1>1
<1>3. Sequence(p \o q)
  BY <1>2, SequenceWider
<1>4. /\ Len(p) \in Nat /\ DOMAIN p = 1..Len(p) /\ Len(q) \in Nat /\ DOMAIN q = 1..Len(q)
      /\ DOMAIN (p \o q) = 1..Len(p) + Len(q)
      /\ \A i \in 1..Len(p) : (p \o q)[i] = p[i]
      /\ \A i \in 1..Len(q) : (p \o q)[Len(p) + i] = q[i]
  BY <1>1
<1>5. ToSet(p \o q) \subseteq ToSet(p) \cup ToSet(q)
  BY <1>2, SequenceWider
<1>6. ToSet(p) \subseteq ToSet(p \o q)
  BY <1>4 DEF ToSet
<1>7. ToSet(q) \subseteq ToSet(p \o q)
  <2> SUFFICES ASSUME NEW i \in 1..Len(q) PROVE q[i] \in ToSet(p \o q)
    BY <1>4 DEF ToSet
  <2>1. Len(p) + i \in 1..Len(p) + Len(q)
    BY <1>4
  <2> QED
    BY <1>4, <2>1 DEF ToSet
<1> QED
  BY <1>3, <1>5, <1>6, <1>7

LEMMA TailOf ==
  ASSUME NEW q, Sequence(q), q # <<>>
  PROVE Sequence(Tail(q)) /\ ToSet(q) = {Head(q)} \cup ToSet(Tail(q))
<1>0. q \in Seq(ToSet(q))
  BY DEF Sequence
<1>1. Tail(q) \in Seq(ToSet(q))
  BY <1>0
<1>2. /\ Len(q) \in Nat \ {0} /\ DOMAIN q = 1..Len(q) /\ Head(q) = q[1]
      /\ DOMAIN Tail(q) = 1..Len(q) - 1
      /\ \A i \in 1..Len(q) - 1 : Tail(q)[i] = q[i + 1]
  BY <1>0
<1>3. ToSet(q) \subseteq {Head(q)} \cup ToSet(Tail(q))
  <2> SUFFICES ASSUME NEW i \in 1..Len(q) PROVE q[i] \in {q[1]} \cup ToSet(Tail(q))
    BY <1>2 DEF ToSet
  <2>1. CASE i = 1
    BY <2>1
  <2>2. CASE i # 1
    <3>1. i - 1 \in 1..Len(q) - 1 /\ Tail(q)[i - 1] = q[i]
      BY <1>2, <2>2
    <3> QED
      BY <1>2, <3>1 DEF ToSet
  <2> QED
    BY <2>1, <2>2
<1>4. Head(q) \in ToSet(q)
  BY <1>2 DEF ToSet
<1> QED
  BY <1>1, <1>3, <1>4, SequenceWider
LEMMA OneOf == ASSUME NEW e PROVE Sequence(<<e>>) /\ ToSet(<<e>>) = {e}
BY DEF Sequence, ToSet

(***************************************************************************)
(* A machine in joining has its join under way.                            *)
(***************************************************************************)
Joined(sent, v) == \E call \in ToSet(sent) : call.type = "join" /\ call.v = v

\* What a step sends when it leaves the machine in joining.
Sends(a, step) ==
  /\ Sequence(step.sent)
  /\ step.m.status = "joining" =>
       \/ a.status = "joining" /\ step.m.version = a.version
       \/ conn.on /\ Joined(step.sent, step.m.version)

LEMMA SilentSends ==
  ASSUME NEW a, NEW b, b.status = "joining" => a.status = "joining" /\ b.version = a.version
  PROVE Sends(a, Step(b, <<>>))
BY EmptySequence DEF Sends, Step

LEMMA RecoverSends ==
  ASSUME NEW a, NEW full, NEW after, NEW upd, IsMachine(a)
  PROVE Sends(a, Recover(a, full, after, upd))
<1> DEFINE st == Recover(a, full, after, upd)
<1>1. CASE a.status = "joining"
  <2>1. st = Step([a EXCEPT !.pend = [on |-> TRUE, full |-> full, after |-> after]], <<>>)
    BY <1>1 DEF Recover
  <2> QED
    BY <1>1, <2>1, SilentSends DEF IsMachine, Fields
<1>2. CASE a.status # "joining" /\ ~conn.on
  <2>1. st = Step([EnterWaitingSocket(a)
                   EXCEPT !.pend = [on |-> TRUE, full |-> full, after |-> after]], <<>>)
    BY <1>2 DEF Recover
  <2> QED
    BY <2>1, SilentSends DEF IsMachine, Fields, EnterWaitingSocket
<1>3. CASE a.status # "joining" /\ conn.on
  <2> DEFINE cursor == IF full THEN NoCursor
                       ELSE IF after # NoCursor THEN after ELSE LastOf(KnownIds(a))
             call == [type |-> "join", v |-> EnterJoining(a).version,
                      after |-> cursor, upd |-> upd]
  <2>1. st = Step(EnterJoining(a), <<call>>)
    BY <1>3 DEF Recover
  <2> QED
    BY <1>3, <2>1, OneOf DEF Sends, Step, Joined
<1> QED
  BY <1>1, <1>2, <1>3

LEMMA DispatchSends ==
  ASSUME NEW a, IsMachine(a) PROVE Sends(a, Dispatched(a))
<1> DEFINE b == [a EXCEPT !.pend = NoRecovery]
<1>1. CASE a.pend.on /\ a.status \in Settled
  <2>1. IsMachine(b) /\ b.status # "joining"
    BY <1>1 DEF IsMachine, Fields, Settled
  <2>2. Sends(b, Recover(b, a.pend.full, a.pend.after, 0))
    BY <2>1, RecoverSends
  <2>3. Dispatched(a) = Recover(b, a.pend.full, a.pend.after, 0)
    BY <1>1 DEF Dispatched
  <2> QED
    BY <2>1, <2>2, <2>3 DEF Sends
<1>2. CASE ~(a.pend.on /\ a.status \in Settled)
  <2>1. Dispatched(a) = Step(a, <<>>)
    BY <1>2 DEF Dispatched
  <2> QED
    BY <2>1, SilentSends
<1> QED
  BY <1>1, <1>2

Uses == {"checks", "disconnects", "refusals", "selections", "lost"}

\* The inductive invariant: beside the property itself, what travels are
\* sequences and a join that counts has a number.
Way ==
  /\ Sequence(up) /\ Sequence(down)
  /\ DOMAIN used = Uses /\ used.lost \in Nat
  /\ m.status = "joining" => m.version # 0
  /\ JoiningIsUnderWay

Answers(q, v) == {event \in ToSet(q) : event.type = "answer" /\ event.v = v}

\* What a step of the tab does to what travels.
LEMMA PerformedWay ==
  ASSUME NEW a, NEW step, NEW leaves, NEW refused, Way, Shape,
         Sends(a, step), PerformAfter(step, leaves, refused), Sequence(down'),
         a.status = "joining" => m.status = "joining" /\ a.version = m.version,
         joins' = joins, used'.lost = used.lost, DOMAIN used' = Uses,
         a.status = "joining" => Answers(down, m.version) \subseteq Answers(down', m.version),
         m'.status = "joining" => m'.version # 0
  PROVE Way'
<1> DEFINE left == IF leaves THEN <<[type |-> "leave"]>> ELSE <<>>
<1>1. Sequence(left)
  BY OneOf, EmptySequence
<1>2. m' = step.m /\ up' = IF conn.on THEN (up \o left) \o step.sent ELSE up
  BY DEF PerformAfter
<1>3. Sequence(up') /\ ToSet(up) \subseteq ToSet(up')
      /\ (conn.on => ToSet(step.sent) \subseteq ToSet(up'))
  <2>1. Sequence(up \o left) /\ ToSet(up) \subseteq ToSet(up \o left)
    BY <1>1, ConcatOf DEF Way
  <2>2. /\ Sequence((up \o left) \o step.sent)
        /\ ToSet((up \o left) \o step.sent) = ToSet(up \o left) \cup ToSet(step.sent)
    BY <2>1, ConcatOf DEF Sends
  <2> QED
    BY <1>2, <2>1, <2>2 DEF Way
<1>4. JoiningIsUnderWay'
  <2> SUFFICES ASSUME m'.status = "joining"
               PROVE UnderWay(m.version)' \/ m'.version <= used'.lost
    BY DEF JoiningIsUnderWay
  <2>1. CASE conn.on /\ Joined(step.sent, step.m.version)
    BY <1>2, <1>3, <2>1 DEF Joined, UnderWay
  <2>2. CASE ~(conn.on /\ Joined(step.sent, step.m.version))
    <3>1. a.status = "joining" /\ m.status = "joining" /\ m'.version = m.version
      BY <1>2, <2>2 DEF Sends
    <3>2. UnderWay(m.version) \/ m.version <= used.lost
      BY <3>1 DEF Way, JoiningIsUnderWay
    <3> QED
      BY <1>3, <3>1, <3>2 DEF UnderWay, Answers
  <2> QED
    BY <2>1, <2>2
<1> QED
  BY <1>3, <1>4 DEF Way

LEMMA JoinIsNumbered ==
  ASSUME Shape, Way, [Next]_vars PROVE m'.status = "joining" => m'.version # 0
<1> SUFFICES ASSUME m'.status = "joining" PROVE m'.version # 0
  OBVIOUS
<1>1. RecoveryStep(m, m') /\ PhaseOf(m') = "joining" /\ m.version \in Nat
  BY RecoveryOfStep DEF Shape, PhaseOf
<1>2. PhaseOf(m) = "joining" => m.version # 0
  BY DEF Way, PhaseOf
<1>3. m'.version = m.version + 1 \/ (PhaseOf(m) = "joining" /\ m'.version = m.version)
  BY <1>1 DEF RecoveryStep, Starts, Awaits, Keeps, Rests, Closes, Stays
<1> QED
  BY <1>1, <1>2, <1>3

LEMMA DeliveredWay ==
  ASSUME NEW type, NEW v, Way, Deliver(type), type # "answer" \/ Head(down).v # v
  PROVE Sequence(down') /\ Answers(down, v) \subseteq Answers(down', v)
<1>1. down # <<>> /\ Head(down).type = type /\ down' = Tail(down)
  BY DEF Deliver
<1>2. Sequence(Tail(down)) /\ ToSet(down) = {Head(down)} \cup ToSet(Tail(down))
  BY <1>1, TailOf DEF Way
<1> QED
  BY <1>1, <1>2 DEF Answers

LEMMA ReducedWay ==
  ASSUME NEW type, NEW b, Shape, Way, [Next]_vars,
         Deliver(type), type # "answer", Reduces(m, b), Reduced(b)
  PROVE Way'
<1>1. Sends(b, Dispatched(b)) /\ PerformAfter(Dispatched(b), FALSE, FALSE)
      /\ joins' = joins /\ used' = used
  BY DispatchSends DEF Reduced, Perform, Reduces, SameRecovery
<1>2. b.status = "joining" => m.status = "joining" /\ b.version = m.version
  BY DEF Reduces, SameRecovery, Settled
<1> QED
  BY <1>1, <1>2, PerformedWay, DeliveredWay, JoinIsNumbered DEF Way

LEMMA EventWay ==
  ASSUME Shape, Way, [Next]_vars,
         DeliverStart \/ DeliverChunk \/ DeliverDone \/ DeliverError \/ DeliverCancelled
  PROVE Way'
<1>0. IsMachine(m)
  BY DEF Shape
<1>1. CASE DeliverStart
  BY <1>0, <1>1, StartReduces, ReducedWay DEF DeliverStart
<1>2. CASE DeliverChunk
  BY <1>0, <1>2, ChunkReduces, ReducedWay DEF DeliverChunk
<1>3. CASE DeliverDone
  BY <1>0, <1>3, DoneReduces, ReducedWay DEF DeliverDone
<1>4. CASE DeliverError
  BY <1>0, <1>4, ErrorReduces, ReducedWay DEF DeliverError
<1>5. CASE DeliverCancelled
  BY <1>0, <1>5, CancelledReduces, ReducedWay DEF DeliverCancelled
<1> QED
  BY <1>1, <1>2, <1>3, <1>4, <1>5

LEMMA ReplyWay == ASSUME Shape, Way, [Next]_vars, DeliverReply PROVE Way'
<1> DEFINE b == SendAccepted(m, Head(down).s, srv.clock)
           step == Dispatched(b)
           joined == conn.joinedTask \/ step.sent # <<>>
           plain == [type |-> "join", v |-> 0, after |-> NoCursor, upd |-> 0]
           all == [step EXCEPT !.sent = IF joined THEN @ ELSE Append(@, plain)]
<1>1. PerformAfter(all, FALSE, FALSE) /\ joins' = joins /\ used' = used /\ Deliver("reply")
  BY DEF DeliverReply, Perform
<1>2. Reduces(m, b) /\ Sends(b, step)
  BY AcceptedReduces, DispatchSends DEF Shape, Reduces, SameRecovery
<1>3. DOMAIN step = {"m", "sent"}
  BY DEF Dispatched, Recover, Step
<1>4. all.m = step.m /\ all.sent = IF joined THEN step.sent ELSE Append(step.sent, plain)
  BY <1>3
<1>5. Sequence(all.sent) /\ ToSet(step.sent) \subseteq ToSet(all.sent)
  BY <1>2, <1>4, AppendOf DEF Sends
<1>6. Sends(b, all)
  BY <1>2, <1>4, <1>5 DEF Sends, Joined
<1>7. b.status = "joining" => m.status = "joining" /\ b.version = m.version
  BY <1>2 DEF Reduces, SameRecovery, Settled
<1> QED
  BY <1>1, <1>6, <1>7, PerformedWay, DeliveredWay, JoinIsNumbered DEF Way

LEMMA AnswerWay == ASSUME Shape, Way, [Next]_vars, DeliverAnswer PROVE Way'
<1> DEFINE answer == Head(down)
           current == ~m.closed /\ answer.v = m.version
           late == ~m.closed /\ answer.v >= m.since
           step == IF current THEN Dispatched(Answered(answer))
                   ELSE IF late THEN Dispatched(m) ELSE Step(m, <<>>)
<1>0. /\ PerformAfter(step, ~current, ~answer.ok) /\ Deliver("answer")
      /\ joins' = joins /\ used' = used
  BY DEF DeliverAnswer
<1>1. CASE current
  <2> DEFINE b == Answered(answer)
  <2>1. Reduces(m, b) /\ b.status # "joining" /\ Sends(b, step)
    BY <1>1, AnswerReduces, DispatchSends
    DEF Shape, Reduces, SameRecovery, Recovering
  <2>2. Sequence(down')
    BY <1>0, TailOf DEF Deliver, Way
  <2> QED
    BY <1>0, <2>1, <2>2, PerformedWay, JoinIsNumbered DEF Way
<1>2. CASE ~current
  <2>1. Sends(m, step)
    BY <1>2, DispatchSends, SilentSends DEF Shape
  <2>2. m.status = "joining" => answer.v # m.version
    BY <1>2 DEF Shape
  <2>3. Sequence(down')
    BY <1>0, TailOf DEF Deliver, Way
  <2>4. m.status = "joining" => Answers(down, m.version) \subseteq Answers(down', m.version)
    <3> SUFFICES ASSUME m.status = "joining"
                 PROVE Answers(down, m.version) \subseteq Answers(down', m.version)
      OBVIOUS
    <3>1. ToSet(down) = {answer} \cup ToSet(down')
      BY <1>0, TailOf DEF Deliver, Way
    <3> QED
      BY <2>2, <3>1 DEF Answers
  <2> QED
    BY <1>0, <2>1, <2>3, <2>4, PerformedWay, JoinIsNumbered DEF Way
<1> QED
  BY <1>1, <1>2

LEMMA ReconcileWay == ASSUME Shape, Way, [Next]_vars, Reconcile PROVE Way'
<1> DEFINE after == IF check.stream # 0 THEN NoCursor ELSE CursorBefore(m)
           known == TaskLifecycle(m, check.task, check.upd)
           step == Recover(known, check.reconnect, after, check.upd)
           waiting == Step(EnterWaitingSocket(known), <<>>)
           idle == Step(IF check.stream = 0 /\ check.task = "RUNNING"
                        THEN StreamAbsent(known) ELSE known, <<>>)
<1>0. Observes(m, known) /\ IsMachine(known)
  BY LifecycleObserves DEF Shape, Observes, SameRecovery
<1>1. known.status = "joining" => m.status = "joining" /\ known.version = m.version
  BY <1>0 DEF Observes, SameRecovery, Settled
<1>2. /\ \/ PerformAfter(step, FALSE, FALSE) \/ PerformAfter(waiting, FALSE, FALSE)
         \/ PerformAfter(idle, FALSE, FALSE)
      /\ joins' = joins /\ used' = used /\ down' = down
  BY DEF Reconcile, Perform
<1>3. Sends(known, step)
  BY <1>0, RecoverSends
<1>4. Sends(known, waiting)
  BY <1>0, SilentSends DEF EnterWaitingSocket, IsMachine, Fields
<1>5. Sends(known, idle)
  <2>1. StreamAbsent(known).status # "joining"
    BY <1>0 DEF StreamAbsent, IsMachine, Fields
  <2> QED
    BY <2>1, SilentSends
<1> QED
  BY <1>1, <1>2, <1>3, <1>4, <1>5, PerformedWay, JoinIsNumbered DEF Way

LEMMA SelectWay == ASSUME Shape, Way, [Next]_vars, Select PROVE Way'
<1> DEFINE b == Fresh(m.version, FALSE)
           step == Recover(b, FALSE, NoCursor, 0)
<1>1. IsMachine(b) /\ b.status # "joining"
  BY DEF Fresh, IsMachine, Fields
<1>2. Sends(b, step) /\ PerformAfter(step, FALSE, FALSE)
  BY <1>1, RecoverSends DEF Select, Perform
<1>3. joins' = joins /\ down' = down /\ used'.lost = used.lost /\ DOMAIN used' = Uses
  BY DEF Select, Way, Uses
<1> QED
  BY <1>1, <1>2, <1>3, PerformedWay, JoinIsNumbered DEF Way

LEMMA DeselectWay == ASSUME Shape, Way, [Next]_vars, Deselect PROVE Way'
<1> DEFINE b == Fresh(m.version + 1, TRUE)
<1>1. IsMachine(b) /\ b.status # "joining"
  BY DEF Fresh, IsMachine, Fields
<1>2. Sends(b, Step(b, <<>>)) /\ PerformAfter(Step(b, <<>>), TRUE, FALSE)
  BY <1>1, SilentSends DEF Deselect, Perform
<1>3. joins' = joins /\ down' = down /\ used'.lost = used.lost /\ DOMAIN used' = Uses
  BY DEF Deselect, Way, Uses
<1> QED
  BY <1>1, <1>2, <1>3, PerformedWay, JoinIsNumbered DEF Way

LEMMA StatusWay == ASSUME Shape, Way, [Next]_vars, DeliverStatus \/ DetailArrives PROVE Way'
<1>1. up' = up /\ joins' = joins /\ used' = used
  BY DEF DeliverStatus, DetailArrives
<1>2. Sequence(down') /\ Answers(down, m.version) \subseteq Answers(down', m.version)
  BY DeliveredWay DEF DeliverStatus, DetailArrives, Way
<1>3. m'.status = "joining" => m.status = "joining" /\ m'.version = m.version
  BY LifecycleObserves
  DEF DeliverStatus, DetailArrives, Shape, Observes, SameRecovery, Settled
<1>4. JoiningIsUnderWay'
  <2> SUFFICES ASSUME m'.status = "joining"
               PROVE UnderWay(m.version)' \/ m'.version <= used'.lost
    BY DEF JoiningIsUnderWay
  <2>1. UnderWay(m.version) \/ m.version <= used.lost
    BY <1>3 DEF Way, JoiningIsUnderWay
  <2> QED
    BY <1>1, <1>2, <1>3, <2>1 DEF UnderWay, Answers
<1> QED
  BY <1>1, <1>2, <1>4, JoinIsNumbered DEF Way

(***************************************************************************)
(* The steps that leave the machine alone.                                 *)
(***************************************************************************)
LEMMA ElsewhereWay ==
  ASSUME Shape, Way, m' = m, Sequence(up'), Sequence(down'),
         DOMAIN used' = Uses, used'.lost \in Nat,
         m.status = "joining" /\ UnderWay(m.version)
           => UnderWay(m.version)' \/ m.version <= used'.lost,
         m.version <= used.lost => m.version <= used'.lost
  PROVE Way'
BY DEF Way, JoiningIsUnderWay

LEMMA DropWay == ASSUME Shape, Way, [Next]_vars, DropAnswer \/ DropEvent PROVE Way'
<1>1. m' = m /\ up' = up /\ joins' = joins /\ used' = used
  BY DEF DropAnswer, DropEvent
<1>2. down # <<>> /\ down' = Tail(down)
  BY DEF DropAnswer, DropEvent, Deliver
<1>3. Sequence(down') /\ ToSet(down) = {Head(down)} \cup ToSet(down')
  BY <1>2, TailOf DEF Way
<1>4. m.status = "joining" => Head(down).type # "answer" \/ Head(down).v # m.version
  BY DEF DropAnswer, DropEvent, Way
<1>5. m.status = "joining" /\ UnderWay(m.version) => UnderWay(m.version)'
  BY <1>1, <1>3, <1>4 DEF UnderWay
<1> QED
  BY <1>1, <1>3, <1>5, ElsewhereWay DEF Way

LEMMA AppendedWay ==
  ASSUME NEW event, Shape, Way, m' = m, up' = up, joins' = joins, used' = used,
         down' = Append(down, event)
  PROVE Way'
<1>1. Sequence(down') /\ ToSet(down) \subseteq ToSet(down')
  BY AppendOf DEF Way
<1>2. UnderWay(m.version) => UnderWay(m.version)'
  BY <1>1 DEF UnderWay
<1> QED
  BY <1>1, <1>2, ElsewhereWay DEF Way

LEMMA QuietWay ==
  ASSUME Shape, Way, m' = m, up' = up, joins' = joins, down' = down,
         DOMAIN used' = Uses, used'.lost = used.lost
  PROVE Way'
<1>1. UnderWay(m.version) => UnderWay(m.version)'
  BY DEF UnderWay
<1> QED
  BY <1>1, ElsewhereWay DEF Way

LEMMA SilentWay ==
  ASSUME Shape, Way,
         \/ Probe \/ BecomeVisible \/ Send \/ DetailRead \/ CheckRead \/ Begin \/ Persist
         \/ Reconnect \/ CheckFails \/ UNCHANGED vars
  PROVE Way'
<1>1. m' = m /\ up' = up /\ joins' = joins /\ down' = down
  BY DEF Probe, BecomeVisible, Send, DetailRead, CheckRead, Begin, Persist, Reconnect,
         CheckFails, vars
<1>2. DOMAIN used' = Uses /\ used'.lost = used.lost
  BY DEF Probe, BecomeVisible, Send, DetailRead, CheckRead, Begin, Persist, Reconnect,
         CheckFails, vars, Way, Uses
<1> QED
  BY <1>1, <1>2, QuietWay

LEMMA ToRoomWay ==
  ASSUME NEW event, Way
  PROVE Sequence(ToRoom(<<event>>)) /\ ToSet(down) \subseteq ToSet(ToRoom(<<event>>))
BY OneOf, ConcatOf DEF ToRoom, Way

LEMMA TurnWay == ASSUME Shape, Way, Start \/ Produce \/ Tell \/ Reply PROVE Way'
<1>1. m' = m /\ up' = up /\ joins' = joins /\ used' = used
  BY DEF Start, Produce, Tell, Reply
<1>2. Sequence(down') /\ ToSet(down) \subseteq ToSet(down')
  <2>1. CASE Start
    BY <2>1, ToRoomWay DEF Start
  <2>2. CASE Produce
    BY <2>2, ToRoomWay DEF Produce
  <2>3. CASE Reply
    BY <2>3, AppendOf DEF Reply, Way
  <2>4. CASE Tell
    <3> DEFINE s == srv.told + 1
               type == CASE srv.sub[s] = "COMPLETED" -> "done" [] srv.sub[s] = "FAILED" -> "error"
                         [] OTHER -> "cancelled"
               status == [type |-> "status", task |-> srv.sub[s], upd |-> srv.clock + 1]
    <3>1. down' = IF ~conn.on THEN down ELSE Append(ToRoom(<<Event(type, s)>>), status)
      BY <2>4 DEF Tell
    <3> QED
      BY <3>1, ToRoomWay, AppendOf DEF Way
  <2> QED
    BY <2>1, <2>2, <2>3, <2>4
<1>3. UnderWay(m.version) => UnderWay(m.version)'
  BY <1>1, <1>2 DEF UnderWay
<1> QED
  BY <1>1, <1>2, <1>3, ElsewhereWay DEF Way

LEMMA ReceiveWay == ASSUME Shape, Way, Receive PROVE Way'
<1> DEFINE call == Head(up)
           join == [at |-> "received", v |-> call.v, after |-> call.after, upd |-> call.upd]
<1>1. m' = m /\ down' = down /\ used' = used /\ up # <<>> /\ up' = Tail(up)
  BY DEF Receive
<1>2. Sequence(up') /\ ToSet(up) = {call} \cup ToSet(up')
  BY <1>1, TailOf DEF Way
<1>3. joins \subseteq joins' /\ (call.type = "join" => join \in joins')
  BY DEF Receive
<1>4. UnderWay(m.version) => UnderWay(m.version)'
  BY <1>1, <1>2, <1>3 DEF UnderWay
<1> QED
  BY <1>1, <1>2, <1>4, ElsewhereWay DEF Way

LEMMA HandlerWay ==
  ASSUME NEW j \in joins, Shape, Way, Enter(j) \/ ReadStream(j) \/ ReadSubtasks(j) PROVE Way'
<1>1. m' = m /\ up' = up /\ down' = down /\ used' = used
  BY DEF Enter, ReadStream, ReadSubtasks
<1>2. joins \ {j} \subseteq joins' /\ \E k \in joins' : k.v = j.v
  <2>1. CASE Enter(j)
    <3>1. [j EXCEPT !.at = "entered"] \in joins' /\ [j EXCEPT !.at = "entered"].v = j.v
      BY <2>1 DEF Enter
    <3> QED
      BY <2>1, <3>1 DEF Enter
  <2>2. CASE ReadStream(j)
    <3> DEFINE k == [at |-> "stream", v |-> j.v, after |-> j.after, upd |-> j.upd,
                     stream |-> ActiveStream]
    <3>1. joins' = (joins \ {j}) \cup {k} /\ k.v = j.v
      BY <2>2 DEF ReadStream
    <3> QED
      BY <3>1
  <2>3. CASE ReadSubtasks(j)
    <3> DEFINE Sub(s) == IF AnswerId(s) > j.after THEN srv.sub[s] ELSE "absent"
               k == [at |-> "rows", v |-> j.v, upd |-> j.upd, stream |-> j.stream,
                     subs |-> [s \in Subtask |-> Sub(s)],
                     text |-> [s \in Subtask |-> Stored(s)]]
    <3>1. joins' = (joins \ {j}) \cup {k} /\ k.v = j.v
      BY <2>3 DEF ReadSubtasks
    <3> QED
      BY <3>1
  <2> QED
    BY <2>1, <2>2, <2>3
<1>3. UnderWay(m.version) => UnderWay(m.version)'
  BY <1>1, <1>2 DEF UnderWay
<1> QED
  BY <1>1, <1>3, ElsewhereWay DEF Way

LEMMA AnsweredWay ==
  ASSUME NEW j \in joins, Shape, Way, Answer(j) \/ Refuse(j) PROVE Way'
<1>1. m' = m /\ up' = up /\ joins' = joins \ {j} /\ used'.lost = used.lost /\ DOMAIN used' = Uses
  BY DEF Answer, Refuse, Way, Uses
<1>2. \E event : down' = Append(down, event) /\ event.type = "answer" /\ event.v = j.v
  <2>1. CASE Answer(j)
    <3> DEFINE event(flushed) ==
                 [type |-> "answer", v |-> j.v, upd |-> j.upd, ok |-> TRUE,
                  snap |-> [subs |-> j.subs, text |-> j.text, stream |-> j.stream,
                            cached |-> Cut(Whole, flushed)]]
    <3>1. \E flushed : down' = Append(down, event(flushed))
      BY <2>1 DEF Answer
    <3> QED
      BY <3>1
  <2>2. CASE Refuse(j)
    BY <2>2 DEF Refuse
  <2> QED
    BY <2>1, <2>2
<1>3. PICK event : down' = Append(down, event) /\ event.type = "answer" /\ event.v = j.v
  BY <1>2
<1>4. Sequence(down') /\ ToSet(down') = ToSet(down) \cup {event}
  BY <1>3, AppendOf DEF Way
<1>5. UnderWay(m.version) => UnderWay(m.version)'
  BY <1>1, <1>3, <1>4 DEF UnderWay
<1> QED
  BY <1>1, <1>4, <1>5, ElsewhereWay DEF Way

LEMMA DisconnectWay == ASSUME Shape, Way, Disconnect PROVE Way'
<1>1. m' = m /\ up' = <<>> /\ down' = <<>> /\ used'.lost = m.version /\ DOMAIN used' = Uses
  BY DEF Disconnect, Way, Uses
<1> QED
  BY <1>1, EmptySequence, ElsewhereWay DEF Shape

LEMMA WayOfStep == ASSUME Shape, Way, [Next]_vars PROVE Way'
<1>1. CASE DeliverStart \/ DeliverChunk \/ DeliverDone \/ DeliverError \/ DeliverCancelled
  BY <1>1, EventWay
<1>2. CASE \/ DeliverReply \/ DeliverAnswer \/ Reconcile \/ Select \/ Deselect
           \/ DeliverStatus \/ DetailArrives \/ DropAnswer \/ DropEvent
  BY <1>2, ReplyWay, AnswerWay, ReconcileWay, SelectWay, DeselectWay, StatusWay, DropWay
<1>3. CASE \/ Probe \/ BecomeVisible \/ Send \/ DetailRead \/ CheckRead \/ Begin \/ Persist
           \/ Reconnect \/ CheckFails \/ UNCHANGED vars
  BY <1>3, SilentWay
<1>4. CASE Start \/ Produce \/ Tell \/ Reply
  BY <1>4, TurnWay
<1>5. CASE Receive \/ Disconnect
  BY <1>5, ReceiveWay, DisconnectWay
<1>6. CASE \E j \in joins : Enter(j) \/ ReadStream(j) \/ ReadSubtasks(j) \/ Answer(j) \/ Refuse(j)
  BY <1>6, HandlerWay, AnsweredWay
<1> QED
  BY <1>1, <1>2, <1>3, <1>4, <1>5, <1>6 DEF Next, Tab, User, Server, Network

LEMMA WayHolds == Spec => []Way
<1>1. Init => Way
  BY EmptySequence
  DEF Init, Way, Uses, Fresh, JoiningIsUnderWay
<1>2. Shape /\ Way /\ [Next]_vars => Way'
  BY WayOfStep
<1> QED
  BY <1>1, <1>2, ShapeHolds, PTL DEF Spec

\* For every bound and every loss of the socket, a machine in joining waits for a
\* join that is on its way, in progress or answered, or that the socket took away.
THEOREM JoiningWaits == Spec => []JoiningIsUnderWay
<1>1. Way => JoiningIsUnderWay
  BY DEF Way
<1> QED
  BY <1>1, WayHolds, PTL

(***************************************************************************)
(* A task that is over is reopened by a turn only.                         *)
(***************************************************************************)
KnownEnd(a) == a.defTask \in {NoTask} \cup Terminal

\* A reducer that reopens no task.
StaysOver(a, b) == KnownEnd(b) /\ (a.task \in Terminal => b.task \in Terminal)

LEMMA ChunkStaysOver ==
  ASSUME NEW a, NEW s, NEW p, IsMachine(a), KnownEnd(a) PROVE StaysOver(a, ChatChunk(a, s, p))
BY DEF IsMachine, Fields, StaysOver, KnownEnd, ChatChunk, ChunkApplied

LEMMA DoneStaysOver ==
  ASSUME NEW a, NEW s, IsMachine(a), KnownEnd(a) PROVE StaysOver(a, ChatDone(a, s))
BY DEF IsMachine, Fields, StaysOver, KnownEnd, ChatDone, StreamEnded, Terminal, NoTask

LEMMA ErrorStaysOver ==
  ASSUME NEW a, NEW s, IsMachine(a), KnownEnd(a) PROVE StaysOver(a, ChatError(a, s))
BY DEF IsMachine, Fields, StaysOver, KnownEnd, ChatError, StreamEnded, Terminal

LEMMA CancelledStaysOver ==
  ASSUME NEW a, NEW s, IsMachine(a), KnownEnd(a) PROVE StaysOver(a, ChatCancelled(a, s))
BY DEF IsMachine, Fields, StaysOver, KnownEnd, ChatCancelled, StreamEnded, Terminal

LEMMA StartEnd ==
  ASSUME NEW a, NEW s, IsMachine(a), KnownEnd(a) PROVE KnownEnd(ChatStart(a, s))
BY DEF IsMachine, Fields, KnownEnd, ChatStart, WithMessage

LEMMA AcceptedEnd ==
  ASSUME NEW a, NEW s, NEW at, IsMachine(a) PROVE KnownEnd(SendAccepted(a, s, at))
BY DEF IsMachine, Fields, KnownEnd, SendAccepted

LEMMA LifecycleStaysOver ==
  ASSUME NEW a, NEW task \in Execution, NEW upd, IsMachine(a), KnownEnd(a)
  PROVE StaysOver(a, TaskLifecycle(a, task, upd))
BY DEF IsMachine, Fields, StaysOver, KnownEnd, TaskLifecycle, TaskEnded, Deferred, Ignored,
       Execution, Terminal

LEMMA AbsentStaysOver ==
  ASSUME NEW a, IsMachine(a), KnownEnd(a) PROVE StaysOver(a, StreamAbsent(a))
BY DEF IsMachine, Fields, StaysOver, KnownEnd, StreamAbsent

LEMMA AnswerStaysOver ==
  ASSUME NEW answer, IsMachine(m), KnownEnd(m) PROVE StaysOver(m, Answered(answer))
<1> DEFINE upd == IF answer.upd # 0 THEN answer.upd ELSE m.upd
           b == SnapshotApplied(m, answer.snap, upd)
<1>1. IsMachine(b) /\ StaysOver(m, b)
  BY DEF IsMachine, Fields, StaysOver, KnownEnd, SnapshotApplied
<1>2. StaysOver(b, ApplyPendingChunks(b))
  BY <1>1 DEF IsMachine, Fields, StaysOver, KnownEnd, ApplyPendingChunks
<1>3. StaysOver(m, EnterRecoveryError(m))
  BY DEF IsMachine, Fields, StaysOver, KnownEnd, EnterRecoveryError
<1> QED
  BY <1>1, <1>2, <1>3 DEF Answered, Synced, StaysOver

LEMMA RecoverStaysOver ==
  ASSUME NEW a, NEW full, NEW after, NEW upd, IsMachine(a), KnownEnd(a)
  PROVE StaysOver(a, Recover(a, full, after, upd).m)
BY DEF IsMachine, Fields, StaysOver, KnownEnd, Recover, Step, EnterWaitingSocket, EnterJoining

LEMMA DispatchStaysOver ==
  ASSUME NEW a, IsMachine(a), KnownEnd(a) PROVE StaysOver(a, Dispatched(a).m)
<1> DEFINE b == [a EXCEPT !.pend = NoRecovery]
<1>1. IsMachine(b) /\ StaysOver(a, b)
  BY DEF IsMachine, Fields, StaysOver, KnownEnd
<1>2. StaysOver(b, Recover(b, a.pend.full, a.pend.after, 0).m)
  BY <1>1, RecoverStaysOver DEF StaysOver
<1> QED
  BY <1>1, <1>2 DEF Dispatched, Step, StaysOver

(***************************************************************************)
(* The statuses the tab hears of are statuses of a task.                   *)
(***************************************************************************)
Told(q) == \A e \in ToSet(q) : e.type = "status" => e.task \in Execution

ServerKnows == "task" \in DOMAIN srv /\ srv.task \in Execution

ReadsKnow ==
  /\ "at" \in DOMAIN check /\ (check.at = "read" => check.task \in Execution)
  /\ detail.at = "read" => detail.task \in Execution

Ends == KnownEnd(m) /\ Told(down) /\ ServerKnows /\ ReadsKnow

LEMMA ServerKnowsNext == ASSUME ServerKnows, [Next]_vars PROVE ServerKnows'
<1>1. CASE Persist
  <2>1. PICK task \in Outcomes :
          srv' = [srv EXCEPT !.sub[srv.turn] = task, !.task = task, !.clock = @ + 1,
                             !.upd = srv.clock + 1, !.redis = 0]
    BY <1>1 DEF Persist
  <2> QED
    BY <2>1, SessionAssumption DEF ServerKnows, Execution
<1>2. CASE Send \/ Disconnect \/ Reply \/ Begin \/ Start \/ Produce \/ Tell
  BY <1>2 DEF ServerKnows, Execution, Send, Disconnect, Reply, Begin, Start, Produce, Tell
<1>3. CASE UNCHANGED srv
  BY <1>3 DEF ServerKnows
<1>4. ~(Persist \/ Send \/ Disconnect \/ Reply \/ Begin \/ Start \/ Produce \/ Tell)
      => UNCHANGED srv
  BY DEF Next, Tab, User, Server, Network, vars, DeliverStart, DeliverChunk, DeliverDone,
         DeliverError, DeliverCancelled, Reduced, DeliverStatus, DeliverReply, DeliverAnswer,
         DropAnswer, DropEvent, DetailArrives, Reconcile, Probe, Select, Deselect, BecomeVisible,
         Receive, DetailRead, CheckRead, Enter, ReadStream, ReadSubtasks, Answer, Reconnect,
         CheckFails, Refuse
<1> QED
  BY <1>1, <1>2, <1>3, <1>4

LEMMA ReadsKnowNext == ASSUME ServerKnows, ReadsKnow, [Next]_vars PROVE ReadsKnow'
<1>1. CASE CheckRead \/ DetailRead
  BY <1>1 DEF ServerKnows, ReadsKnow, CheckRead, DetailRead
<1>2. CASE DeliverAnswer
  <2>1. \A v, sent : "at" \in DOMAIN CheckAfterJoin(v, sent)
                     /\ CheckAfterJoin(v, sent).at \in {check.at, "idle"}
                     /\ (CheckAfterJoin(v, sent).at = "read" => CheckAfterJoin(v, sent) = check)
    BY DEF ReadsKnow, CheckAfterJoin
  <2>2. detail' = detail /\ \E v, sent : check' = CheckAfterJoin(v, sent)
    BY <1>2, Zenon DEF DeliverAnswer
  <2> QED
    BY <2>1, <2>2 DEF ReadsKnow
<1>3. CASE Reconcile
  <2>1. detail' = detail
        /\ (check' = [at |-> "idle"] \/ \E v : check' = [at |-> "joining", v |-> v])
    BY <1>3, Zenon DEF Reconcile
  <2> QED
    BY <2>1 DEF ReadsKnow
<1>4. CASE BecomeVisible \/ Probe \/ Reconnect
  <2>1. detail' = detail
        /\ (check' = check \/ \E reconnect : check' = [at |-> "asked", reconnect |-> reconnect])
    BY <1>4, Zenon DEF BecomeVisible, Probe, Reconnect, CheckRuntime
  <2> QED
    BY <2>1 DEF ReadsKnow
<1>5. CASE CheckFails \/ Select \/ Deselect \/ DetailArrives
  <2>1. /\ check' \in {check, [at |-> "idle"]}
        /\ detail' \in {detail, [at |-> "asked"], [at |-> "none"], [at |-> "loaded"]}
    BY <1>5, Zenon DEF CheckFails, Select, Deselect, DetailArrives
  <2> QED
    BY <2>1 DEF ReadsKnow
<1>6. CASE UNCHANGED <<check, detail>>
  BY <1>6 DEF ReadsKnow
<1>7. ~(\/ CheckRead \/ DetailRead \/ DeliverAnswer \/ Reconcile \/ BecomeVisible \/ Probe
        \/ Reconnect \/ CheckFails \/ Select \/ Deselect \/ DetailArrives)
      => UNCHANGED <<check, detail>>
  BY DEF Next, Tab, User, Server, Network, vars, DeliverStart, DeliverChunk, DeliverDone,
         DeliverError, DeliverCancelled, Reduced, DeliverStatus, DeliverReply, DropAnswer,
         DropEvent, Receive, Enter, ReadStream, ReadSubtasks, Answer, Refuse, Send, Disconnect,
         Reply, Begin, Start, Produce, Persist, Tell
<1> QED
  BY <1>1, <1>2, <1>3, <1>4, <1>5, <1>6, <1>7

LEMMA AppendTold ==
  ASSUME NEW q, NEW e, Sequence(q), Told(q), e.type = "status" => e.task \in Execution
  PROVE Told(Append(q, e))
BY AppendOf DEF Told

LEMMA ToRoomTold ==
  ASSUME NEW e, Sequence(down), Told(down), e.type # "status"
  PROVE Sequence(ToRoom(<<e>>)) /\ Told(ToRoom(<<e>>))
<1>1. Sequence(down \o <<e>>) /\ ToSet(down \o <<e>>) = ToSet(down) \cup {e}
  BY OneOf, ConcatOf
<1> QED
  BY <1>1 DEF ToRoom, Told

LEMMA ToldNext == ASSUME Way, Told(down), [Next]_vars PROVE Told(down')
<1>0. Sequence(down)
  BY DEF Way
<1>1. CASE down # <<>> /\ down' = Tail(down)
  BY <1>0, <1>1, TailOf DEF Told
<1>2. CASE Start
  BY <1>0, <1>2, ToRoomTold DEF Start, Event
<1>3. CASE Produce
  BY <1>0, <1>3, ToRoomTold DEF Produce
<1>4. CASE Reply
  BY <1>0, <1>4, AppendTold DEF Reply, Event
<1>5. CASE Tell
  <2> DEFINE s == srv.told + 1
             type == CASE srv.sub[s] = "COMPLETED" -> "done" [] srv.sub[s] = "FAILED" -> "error"
                       [] OTHER -> "cancelled"
             status == [type |-> "status", task |-> srv.sub[s], upd |-> srv.clock + 1]
  <2>1. srv.sub[s] \in Terminal
        /\ down' = IF ~conn.on THEN down ELSE Append(ToRoom(<<Event(type, s)>>), status)
    BY <1>5 DEF Tell
  <2>2. Event(type, s).type # "status"
    BY DEF Event
  <2>3. status.task \in Execution
    BY <2>1 DEF Execution
  <2>4. Sequence(ToRoom(<<Event(type, s)>>)) /\ Told(ToRoom(<<Event(type, s)>>))
    BY <1>0, <2>2, ToRoomTold
  <2>5. Told(Append(ToRoom(<<Event(type, s)>>), status))
    BY <2>3, <2>4, AppendTold
  <2> QED
    BY <2>1, <2>5
<1>6. CASE Disconnect
  BY <1>6, EmptySequence DEF Disconnect, Told
<1>7. CASE \E j \in joins : Answer(j) \/ Refuse(j)
  <2>1. PICK j \in joins : Answer(j) \/ Refuse(j)
    BY <1>7
  <2>2. \E event : down' = Append(down, event) /\ event.type = "answer"
    <3>1. CASE Answer(j)
      <4> DEFINE event(flushed) ==
                   [type |-> "answer", v |-> j.v, upd |-> j.upd, ok |-> TRUE,
                    snap |-> [subs |-> j.subs, text |-> j.text, stream |-> j.stream,
                              cached |-> Cut(Whole, flushed)]]
      <4>1. \E flushed : down' = Append(down, event(flushed))
        BY <3>1 DEF Answer
      <4> QED
        BY <4>1
    <3>2. CASE Refuse(j)
      BY <3>2 DEF Refuse
    <3> QED
      BY <2>1, <3>1, <3>2
  <2> QED
    BY <1>0, <2>2, AppendTold
<1>8. CASE UNCHANGED down
  BY <1>8
<1>9. \/ (down # <<>> /\ down' = Tail(down)) \/ UNCHANGED down
      \/ Start \/ Produce \/ Reply \/ Tell \/ Disconnect
      \/ \E j \in joins : Answer(j) \/ Refuse(j)
  BY DEF Next, Tab, User, Server, Network, vars, DeliverStart, DeliverChunk, DeliverDone,
         DeliverError, DeliverCancelled, Deliver, DeliverStatus, DeliverReply, DeliverAnswer,
         DropAnswer, DropEvent, DetailArrives, Reconcile, Probe, Select, Deselect, BecomeVisible,
         Send, Receive, DetailRead, CheckRead, Enter, ReadStream, ReadSubtasks, Begin, Persist,
         Reconnect, CheckFails
<1> QED
  BY <1>1, <1>2, <1>3, <1>4, <1>5, <1>6, <1>7, <1>8, <1>9

(***************************************************************************)
(* What every step makes of a task that is over.                           *)
(***************************************************************************)
LEMMA ReducedStaysOver ==
  ASSUME NEW b, Reduced(b), IsMachine(b), StaysOver(m, b) PROVE StaysOver(m, m')
<1>1. m' = Dispatched(b).m
  BY DEF Reduced, Perform, PerformAfter
<1> QED
  BY <1>1, DispatchStaysOver DEF StaysOver

LEMMA EventStaysOver ==
  ASSUME Shape, Ends, DeliverChunk \/ DeliverDone \/ DeliverError \/ DeliverCancelled
  PROVE StaysOver(m, m')
<1>0. IsMachine(m) /\ KnownEnd(m)
  BY DEF Shape, Ends
<1>1. CASE DeliverChunk
  BY <1>0, <1>1, ChunkReduces, ChunkStaysOver, ReducedStaysOver
  DEF DeliverChunk, Reduces, SameRecovery
<1>2. CASE DeliverDone
  BY <1>0, <1>2, DoneReduces, DoneStaysOver, ReducedStaysOver
  DEF DeliverDone, Reduces, SameRecovery
<1>3. CASE DeliverError
  BY <1>0, <1>3, ErrorReduces, ErrorStaysOver, ReducedStaysOver
  DEF DeliverError, Reduces, SameRecovery
<1>4. CASE DeliverCancelled
  BY <1>0, <1>4, CancelledReduces, CancelledStaysOver, ReducedStaysOver
  DEF DeliverCancelled, Reduces, SameRecovery
<1> QED
  BY <1>1, <1>2, <1>3, <1>4

LEMMA StatusStaysOver ==
  ASSUME Shape, Way, Ends, DeliverStatus \/ DetailArrives PROVE StaysOver(m, m')
<1>0. IsMachine(m) /\ KnownEnd(m) /\ StaysOver(m, m)
  BY DEF Shape, Ends, StaysOver
<1>1. CASE DeliverStatus
  <2>1. Head(down) \in ToSet(down) /\ Head(down).type = "status"
    BY <1>1, TailOf DEF DeliverStatus, Deliver, Way
  <2>2. Head(down).task \in Execution
    BY <2>1 DEF Ends, Told
  <2> QED
    BY <1>0, <1>1, <2>2, LifecycleStaysOver DEF DeliverStatus
<1>2. CASE DetailArrives
  BY <1>0, <1>2, LifecycleStaysOver DEF DetailArrives, Ends, ReadsKnow
<1> QED
  BY <1>1, <1>2

LEMMA AnswerStepStaysOver ==
  ASSUME Shape, Ends, DeliverAnswer PROVE StaysOver(m, m')
<1> DEFINE answer == Head(down)
           current == ~m.closed /\ answer.v = m.version
           late == ~m.closed /\ answer.v >= m.since
           step == IF current THEN Dispatched(Answered(answer))
                   ELSE IF late THEN Dispatched(m) ELSE Step(m, <<>>)
<1>0. m' = step.m /\ IsMachine(m) /\ KnownEnd(m)
  BY DEF DeliverAnswer, PerformAfter, Shape, Ends
<1>1. StaysOver(m, Dispatched(Answered(answer)).m)
  BY <1>0, AnswerStaysOver, AnswerReduces, DispatchStaysOver DEF StaysOver, Reduces, SameRecovery
<1>2. StaysOver(m, Dispatched(m).m) /\ StaysOver(m, Step(m, <<>>).m)
  BY <1>0, DispatchStaysOver DEF StaysOver, Step
<1> QED
  BY <1>0, <1>1, <1>2

LEMMA ReconcileStaysOver == ASSUME Shape, Ends, Reconcile PROVE StaysOver(m, m')
<1> DEFINE after == IF check.stream # 0 THEN NoCursor ELSE CursorBefore(m)
           known == TaskLifecycle(m, check.task, check.upd)
           step == Recover(known, check.reconnect, after, check.upd)
           idle == IF check.stream = 0 /\ check.task = "RUNNING"
                   THEN StreamAbsent(known) ELSE known
<1>0. IsMachine(known) /\ StaysOver(m, known)
  BY LifecycleObserves, LifecycleStaysOver
  DEF Shape, Ends, ReadsKnow, Reconcile, Observes, SameRecovery
<1>1. m' = step.m \/ m' = EnterWaitingSocket(known) \/ m' = idle
  BY DEF Reconcile, Perform, PerformAfter, Step
<1>2. CASE m' = step.m
  BY <1>0, <1>2, RecoverStaysOver DEF StaysOver
<1>3. CASE m' = EnterWaitingSocket(known)
  BY <1>0, <1>3 DEF StaysOver, KnownEnd, EnterWaitingSocket, IsMachine, Fields
<1>4. CASE m' = idle
  BY <1>0, <1>4, AbsentStaysOver DEF StaysOver
<1> QED
  BY <1>1, <1>2, <1>3, <1>4

LEMMA SelectStaysOver == ASSUME Shape, Select PROVE StaysOver(m, m')
<1> DEFINE b == Fresh(m.version, FALSE)
<1>1. m' = Recover(b, FALSE, NoCursor, 0).m /\ m.closed
  BY DEF Select, Perform, PerformAfter
<1>2. IsMachine(b) /\ KnownEnd(b)
  BY DEF Fresh, IsMachine, Fields, KnownEnd
<1>3. m.task \notin Terminal
  BY <1>1 DEF Shape, Terminal, NoTask
<1> QED
  BY <1>1, <1>2, <1>3, RecoverStaysOver DEF StaysOver

\* The two turns that reopen a task.
LEMMA TurnEnds ==
  ASSUME Shape, Ends, DeliverStart \/ DeliverReply
  PROVE KnownEnd(m') /\ (Deliver("start") \/ Deliver("reply"))
<1>0. IsMachine(m) /\ KnownEnd(m)
  BY DEF Shape, Ends
<1>1. CASE DeliverStart
  <2> DEFINE b == ChatStart(m, Head(down).s)
  <2>1. IsMachine(b) /\ KnownEnd(b)
    BY <1>0, StartReduces, StartEnd DEF Reduces, SameRecovery
  <2>2. m' = Dispatched(b).m
    BY <1>1 DEF DeliverStart, Reduced, Perform, PerformAfter
  <2> QED
    BY <1>1, <2>1, <2>2, DispatchStaysOver DEF DeliverStart, StaysOver
<1>2. CASE DeliverReply
  <2> DEFINE b == SendAccepted(m, Head(down).s, srv.clock)
             step == Dispatched(b)
             joined == conn.joinedTask \/ step.sent # <<>>
             plain == [type |-> "join", v |-> 0, after |-> NoCursor, upd |-> 0]
             sent == [step EXCEPT !.sent = IF joined THEN @ ELSE Append(@, plain)]
  <2>1. IsMachine(b) /\ KnownEnd(b)
    BY <1>0, AcceptedReduces, AcceptedEnd DEF Reduces, SameRecovery
  <2>2. m' = sent.m
    BY <1>2 DEF DeliverReply, Perform, PerformAfter
  <2>3. DOMAIN step = {"m", "sent"}
    BY DEF Dispatched, Recover, Step
  <2>4. sent.m = step.m
    BY <2>3
  <2> QED
    BY <1>2, <2>1, <2>2, <2>4, DispatchStaysOver DEF DeliverReply, StaysOver
<1> QED
  BY <1>1, <1>2

Reopens == m'.closed \/ Deliver("start") \/ Deliver("reply")

LEMMA OverOfStep ==
  ASSUME Shape, Way, Ends, [Next]_vars
  PROVE KnownEnd(m') /\ (m.task \in Terminal /\ m'.task \notin Terminal => Reopens)
<1>1. CASE DeliverStart \/ DeliverReply
  BY <1>1, TurnEnds DEF Reopens
<1>2. CASE Deselect
  <2>1. m' = Fresh(m.version + 1, TRUE)
    BY <1>2, DeselectSteps
  <2> QED
    BY <2>1 DEF Fresh, KnownEnd, Reopens
<1>3. CASE Elsewhere \/ UNCHANGED vars
  BY <1>3, ElsewhereRuns DEF Ends
<1>4. CASE \/ DeliverChunk \/ DeliverDone \/ DeliverError \/ DeliverCancelled
           \/ DeliverStatus \/ DetailArrives \/ DeliverAnswer \/ Reconcile \/ Select
  <2>1. StaysOver(m, m')
    BY <1>4, EventStaysOver, StatusStaysOver, AnswerStepStaysOver, ReconcileStaysOver,
       SelectStaysOver
  <2> QED
    BY <2>1 DEF StaysOver
<1> QED
  BY <1>1, <1>2, <1>3, <1>4 DEF Next, Tab, User, Server, Network, Elsewhere

\* For every way a turn may end and every bound, a task that the tab shows as over
\* goes back to running by the start of an answer or the reply to a send only
\* (shouldIgnoreTaskLifecycleStatus, chatEvents.ts, applySyncCompletion).
THEOREM OverStaysOver == Spec => OverIsReopenedByATurn
<1>1. Init => Ends
  BY EmptySequence
  DEF Init, Ends, KnownEnd, Told, ServerKnows, ReadsKnow, Fresh, Execution, Terminal
<1>2. Shape /\ Way /\ Ends /\ [Next]_vars => Ends'
  BY OverOfStep, ToldNext, ServerKnowsNext, ReadsKnowNext DEF Ends
<1>3. Shape /\ Way /\ Ends /\ [Next]_vars
      => [m.task \in Terminal /\ m'.task \notin Terminal =>
            m'.closed \/ Deliver("start") \/ Deliver("reply")]_vars
  BY OverOfStep DEF Reopens
<1> QED
  BY <1>1, <1>2, <1>3, ShapeHolds, WayHolds, PTL DEF Spec, OverIsReopenedByATurn
=============================================================================

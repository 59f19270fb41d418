------------------------------- MODULE TaskSession -------------------------------
(***************************************************************************)
(* One browser tab that shows one task: the task's state machine, the      *)
(* Socket.IO connection with its rooms, the join handlers and the turns    *)
(* of the server, and the HTTP calls that read the task.  The tab may      *)
(* leave the task and select it again, become visible, lose the socket     *)
(* and connect again, and send the next message.                           *)
(***************************************************************************)
EXTENDS TaskStateMachine, FiniteSets

CONSTANTS
  Outcomes,      \* how a turn may end
  FirstOver,     \* whether the first turn is over when the tab opens the task
  MaxJoins,      \* bound: recoveries of the machine, closings included
  MaxChecks,     \* bound: checks by visibility or the network, not the probe's
  MaxDisconnects, \* bound: losses of the socket
  MaxRefusals,   \* bound: joins that the server refuses
  MaxSelections  \* bound: selections of the task and of another one

ASSUME SessionAssumption == Outcomes \subseteq Terminal /\ FirstOver \in BOOLEAN

VARIABLES
  m,       \* the machine
  srv,     \* the task on the server: rows, Redis, the clock of its updates
  conn,    \* the socket: connected, in the room, the tab's set of joined tasks
  down,    \* socket events on their way to the tab, in order
  up,      \* joins and leaves on their way to the server, in order
  joins,   \* join handlers that run on the server
  check,   \* the runtime check in progress, one at a time
  detail,  \* the task detail the tab loads over HTTP
  used     \* how much of each bound is used; the last recovery a lost socket cut off

vars == <<m, srv, conn, down, up, joins, check, detail, used>>

Active == {"PENDING", "RUNNING"}

Init ==
  /\ m = Fresh(0, TRUE)
  /\ srv = [task |-> IF FirstOver THEN "COMPLETED" ELSE "RUNNING", clock |-> 1, upd |-> 1,
            turn |-> 1, redis |-> 0, told |-> IF FirstOver THEN 1 ELSE 0, reply |-> FALSE,
            sub |-> [s \in Subtask |-> IF s > 1 THEN "absent"
                                       ELSE IF FirstOver THEN "COMPLETED" ELSE "PENDING"],
            out |-> [s \in Subtask |-> IF s = 1 /\ FirstOver THEN Length ELSE 0]]
  /\ conn = [on |-> TRUE, room |-> FALSE, joinedTask |-> FALSE]
  /\ down = <<>> /\ up = <<>> /\ joins = {}
  /\ check = [at |-> "idle"]
  /\ detail = [at |-> "none"]
  /\ used = [checks |-> 0, disconnects |-> 0, refusals |-> 0, selections |-> 0, lost |-> 0]

(***************************************************************************)
(* What the server knows of the task.                                      *)
(***************************************************************************)
\* get_active_streaming: Redis while its subtask is active, else the rows.
ActiveStream ==
  IF srv.redis # 0 /\ srv.sub[srv.redis] \in Active THEN srv.redis
  ELSE LET running == {s \in Subtask : srv.sub[s] = "RUNNING"}
       IN IF running = {} THEN 0 ELSE Max(running)

\* The text of a row is complete when the turn is over.
Stored(s) == Cut(Whole, IF srv.sub[s] \in Terminal THEN srv.out[s] ELSE 0)

ToRoom(events) == IF conn.on /\ conn.room THEN down \o events ELSE down
Event(type, s) == [type |-> type, s |-> s]

(***************************************************************************)
(* Recovery, and what the end of every dispatch does: a recovery that was  *)
(* queued starts when the machine has settled.                             *)
(***************************************************************************)
\* The machine and the joins it emits.  joinTask adds the task to the tab's
\* set before it emits.
Step(machine, sent) == [m |-> machine, sent |-> sent]

\* Mutant: the socket is not looked at.
RecoverBlind(machine, full, after, syncUpdatedAt) ==
  IF machine.status = "joining"
  THEN Step([machine EXCEPT !.pend = [on |-> TRUE, full |-> full, after |-> after]], <<>>)
  ELSE LET joining == EnterJoining(machine)
       IN Step(joining, <<[type |-> "join", v |-> joining.version,
                           after |-> after, upd |-> syncUpdatedAt]>>)

Recover(machine, full, after, syncUpdatedAt) ==
  IF machine.status = "joining"
  THEN Step([machine EXCEPT !.pend = [on |-> TRUE, full |-> full, after |-> after]], <<>>)
  ELSE IF ~conn.on
  THEN Step([EnterWaitingSocket(machine)
             EXCEPT !.pend = [on |-> TRUE, full |-> full, after |-> after]], <<>>)
  ELSE LET cursor == IF full THEN NoCursor
                     ELSE IF after # NoCursor THEN after ELSE LastOf(KnownIds(machine))
           joining == EnterJoining(machine)
       IN Step(joining, <<[type |-> "join", v |-> joining.version,
                           after |-> cursor, upd |-> syncUpdatedAt]>>)

\* Mutant: a queued recovery waits for the next one.
DispatchedOnly(machine) == Step(machine, <<>>)

Dispatched(machine) ==
  IF machine.pend.on /\ machine.status \in Settled
  THEN Recover([machine EXCEPT !.pend = NoRecovery], machine.pend.full, machine.pend.after, 0)
  ELSE Step(machine, <<>>)

\* The step's effects; leaves are sent before its joins.  A refused join has
\* already left the tab's set.
PerformAfter(step, leaves, refused) ==
  /\ m' = step.m
  /\ step.m.version <= MaxJoins
  /\ up' = IF conn.on
           THEN up \o (IF leaves THEN <<[type |-> "leave"]>> ELSE <<>>) \o step.sent ELSE up
  /\ conn' = [conn EXCEPT !.joinedTask =
                IF ~conn.on THEN @ ELSE step.sent # <<>> \/ (@ /\ ~leaves /\ ~refused)]

Perform(step, leaves) == PerformAfter(step, leaves, FALSE)

(***************************************************************************)
(* The tab.                                                                *)
(***************************************************************************)
\* selectTask: a new machine, openTask starts the detail request and the join.
Select ==
  /\ m.closed /\ used.selections < MaxSelections
  /\ Perform(Recover(Fresh(m.version, FALSE), FALSE, NoCursor, 0), FALSE)
  /\ detail' = [at |-> "asked"]
  /\ check' = [at |-> "idle"]
  /\ used' = [used EXCEPT !.selections = @ + 1]
  /\ UNCHANGED <<srv, down, joins>>

\* disposeMachine: closeTask leaves the room and supersedes the join.
Deselect ==
  /\ ~m.closed /\ used.selections < MaxSelections
  /\ Perform(Step(Fresh(m.version + 1, TRUE), <<>>), TRUE)
  /\ detail' = [at |-> "none"]
  /\ check' = [at |-> "idle"]
  /\ used' = [used EXCEPT !.selections = @ + 1]
  /\ UNCHANGED <<srv, down, joins>>

\* Delivery of the next socket event.  A tab without a machine drops it.
Deliver(type) == down # <<>> /\ Head(down).type = type /\ down' = Tail(down)

Reduced(machine) ==
  /\ ~m.closed
  /\ Perform(Dispatched(machine), FALSE)
  /\ UNCHANGED <<srv, joins, check, detail, used>>

DeliverStart == Deliver("start") /\ Reduced(ChatStart(m, Head(down).s))
DeliverChunk == Deliver("chunk") /\ Reduced(ChatChunk(m, Head(down).s, Head(down).p))
DeliverDone == Deliver("done") /\ Reduced(ChatDone(m, Head(down).s))
DeliverError == Deliver("error") /\ Reduced(ChatError(m, Head(down).s))
DeliverCancelled == Deliver("cancelled") /\ Reduced(ChatCancelled(m, Head(down).s))

\* task:status reaches the machine through the task detail, when that is loaded.
DeliverStatus ==
  /\ Deliver("status") /\ ~m.closed
  /\ m' = IF detail.at = "loaded"
          THEN TaskLifecycle(m, Head(down).task, Head(down).upd) ELSE m
  /\ UNCHANGED <<srv, conn, up, joins, check, detail, used>>

\* The reply to a send of this tab: SEND_ACCEPTED at the tab's clock, then
\* joinTask without forceRefresh, whose answer the machine never sees.
DeliverReply ==
  /\ Deliver("reply") /\ ~m.closed
  /\ LET step == Dispatched(SendAccepted(m, Head(down).s, srv.clock))
         joined == conn.joinedTask \/ step.sent # <<>>
         plain == [type |-> "join", v |-> 0, after |-> NoCursor, upd |-> 0]
     IN Perform([step EXCEPT !.sent = IF joined THEN @ ELSE Append(@, plain)], FALSE)
  /\ UNCHANGED <<srv, joins, check, detail, used>>

\* The answer of a join.  A superseded one makes the tab leave the room; the
\* answer of a plain join and of a machine that is gone change no machine.
CheckAfterJoin(v, sent) ==
  IF check.at = "joining" /\ check.v = v
  THEN IF sent = <<>> THEN [at |-> "idle"] ELSE [check EXCEPT !.v = sent[1].v]
  ELSE check

Answered(answer) ==
  IF answer.ok THEN Synced(m, answer.snap, IF answer.upd # 0 THEN answer.upd ELSE m.upd)
  ELSE EnterRecoveryError(m)

DeliverAnswer ==
  /\ Deliver("answer") /\ Head(down).v # 0
  /\ LET answer == Head(down)
         current == ~m.closed /\ answer.v = m.version
         step == IF current THEN Dispatched(Answered(answer))
                 ELSE IF ~m.closed /\ answer.v >= m.since THEN Dispatched(m)
                 ELSE Step(m, <<>>)
     IN /\ PerformAfter(step, ~current, ~answer.ok)
        /\ check' = CheckAfterJoin(answer.v, step.sent)
  /\ UNCHANGED <<srv, joins, detail, used>>

DropAnswer ==
  /\ Deliver("answer") /\ Head(down).v = 0
  /\ conn' = [conn EXCEPT !.joinedTask = @ /\ Head(down).ok]
  /\ UNCHANGED <<m, srv, up, joins, check, detail, used>>

DropEvent ==
  /\ m.closed /\ down # <<>> /\ Head(down).type # "answer"
  /\ down' = Tail(down)
  /\ UNCHANGED <<m, srv, conn, up, joins, check, detail, used>>

(***************************************************************************)
(* HTTP reads: the server reads at one moment, the tab applies at another. *)
(***************************************************************************)
DetailRead ==
  /\ detail.at = "asked"
  /\ detail' = [at |-> "read", task |-> srv.task, upd |-> srv.upd]
  /\ UNCHANGED <<m, srv, conn, down, up, joins, check, used>>

DetailArrives ==
  /\ detail.at = "read" /\ ~m.closed
  /\ m' = TaskLifecycle(m, detail.task, detail.upd)
  /\ detail' = [at |-> "loaded"]
  /\ UNCHANGED <<srv, conn, down, up, joins, check, used>>

\* A check is dropped while another one runs.
CheckRuntime(reconnect) ==
  check' = IF check.at = "idle" /\ ~m.closed
           THEN [at |-> "asked", reconnect |-> reconnect] ELSE check

BecomeVisible ==
  /\ ~m.closed /\ used.checks < MaxChecks
  /\ CheckRuntime(FALSE)
  /\ used' = [used EXCEPT !.checks = @ + 1]
  /\ UNCHANGED <<m, srv, conn, down, up, joins, detail>>

Probe ==
  /\ Unstable(m) /\ check.at = "idle"
  /\ CheckRuntime(FALSE)
  /\ UNCHANGED <<m, srv, conn, down, up, joins, detail, used>>

CheckRead ==
  /\ check.at = "asked"
  /\ check' = [at |-> "read", reconnect |-> check.reconnect,
               task |-> srv.task, upd |-> srv.upd, stream |-> ActiveStream]
  /\ UNCHANGED <<m, srv, conn, down, up, joins, detail, used>>

\* The request fails: pullRuntime returns null.
CheckFails ==
  /\ check.at = "asked" /\ ~conn.on
  /\ check' = [at |-> "idle"]
  /\ UNCHANGED <<m, srv, conn, down, up, joins, detail, used>>

\* reconcileRuntime
Reconcile ==
  /\ check.at = "read" /\ ~m.closed
  /\ LET after == IF check.stream # 0 THEN NoCursor ELSE CursorBefore(m)
         known == TaskLifecycle(m, check.task, check.upd)
         step == Recover(known, check.reconnect, after, check.upd)
         finished == [at |-> "idle"]
     IN \E stalled \in BOOLEAN :
          IF ShouldJoinOrResume(known, check.reconnect, check.task, check.upd,
                                check.stream, stalled)
          THEN IF ~conn.on
               THEN /\ Perform(Step(EnterWaitingSocket(known), <<>>), FALSE)
                    /\ check' = finished
               ELSE /\ Perform(step, FALSE)
                    /\ check' = IF step.sent = <<>> THEN finished
                                ELSE [at |-> "joining", v |-> step.sent[1].v]
          ELSE /\ Perform(Step(IF check.stream = 0 /\ check.task = "RUNNING"
                               THEN StreamAbsent(known) ELSE known, <<>>), FALSE)
               /\ check' = finished
  /\ UNCHANGED <<srv, down, joins, detail, used>>

(***************************************************************************)
(* The socket.  A new connection is in no room; a join that waits for its  *)
(* answer is not told that the connection is lost.                         *)
(***************************************************************************)
Disconnect ==
  /\ conn.on /\ used.disconnects < MaxDisconnects
  /\ conn' = [on |-> FALSE, room |-> FALSE, joinedTask |-> FALSE]
  /\ down' = <<>> /\ up' = <<>> /\ joins' = {}
  /\ srv' = [srv EXCEPT !.reply = FALSE]
  /\ used' = [used EXCEPT !.disconnects = @ + 1, !.lost = m.version]
  /\ UNCHANGED <<m, check, detail>>

Reconnect ==
  /\ ~conn.on
  /\ conn' = [conn EXCEPT !.on = TRUE]
  /\ CheckRuntime(TRUE)
  /\ UNCHANGED <<m, srv, down, up, joins, detail, used>>

(***************************************************************************)
(* The join handler of the server: check the access, enter the room, read  *)
(* the stream, read the subtasks, read the cached text and answer.  It     *)
(* runs beside the handlers of later calls, so a leave may overtake it.    *)
(***************************************************************************)
Receive ==
  /\ up # <<>> /\ up' = Tail(up)
  /\ LET call == Head(up)
     IN IF call.type = "leave" THEN conn' = [conn EXCEPT !.room = FALSE] /\ UNCHANGED joins
        ELSE /\ joins' = joins \cup {[at |-> "received", v |-> call.v, after |-> call.after,
                                       upd |-> call.upd]}
             /\ UNCHANGED conn
  /\ UNCHANGED <<m, srv, down, check, detail, used>>

Refuse(j) ==
  /\ j.at = "received" /\ joins' = joins \ {j}
  /\ used.refusals < MaxRefusals /\ used' = [used EXCEPT !.refusals = @ + 1]
  /\ down' = Append(down, [type |-> "answer", v |-> j.v, upd |-> 0, ok |-> FALSE])
  /\ UNCHANGED <<m, srv, conn, up, check, detail>>

Enter(j) ==
  /\ j.at = "received" /\ joins' = (joins \ {j}) \cup {[j EXCEPT !.at = "entered"]}
  /\ conn' = [conn EXCEPT !.room = TRUE]
  /\ UNCHANGED <<m, srv, down, up, check, detail, used>>

ReadStream(j) ==
  /\ j.at = "entered"
  /\ joins' = (joins \ {j}) \cup
              {[at |-> "stream", v |-> j.v, after |-> j.after, upd |-> j.upd,
                stream |-> ActiveStream]}
  /\ UNCHANGED <<m, srv, conn, down, up, check, detail, used>>

ReadSubtasks(j) ==
  /\ j.at = "stream"
  /\ LET Sub(s) == IF AnswerId(s) > j.after THEN srv.sub[s] ELSE "absent"
     IN joins' = (joins \ {j}) \cup
          {[at |-> "rows", v |-> j.v, upd |-> j.upd, stream |-> j.stream,
            subs |-> [s \in Subtask |-> Sub(s)], text |-> [s \in Subtask |-> Stored(s)]]}
  /\ UNCHANGED <<m, srv, conn, down, up, check, detail, used>>

\* Redis holds what the buffer of the stream has flushed, any part of the text.
Answer(j) ==
  /\ j.at = "rows"
  /\ joins' = joins \ {j}
  /\ \E flushed \in 0..IF j.stream # 0 /\ srv.redis = j.stream THEN srv.out[j.stream] ELSE 0 :
       down' = Append(down, [type |-> "answer", v |-> j.v, upd |-> j.upd, ok |-> TRUE,
                             snap |-> [subs |-> j.subs, text |-> j.text, stream |-> j.stream,
                                       cached |-> Cut(Whole, flushed)]])
  /\ UNCHANGED <<m, srv, conn, up, check, detail, used>>

(***************************************************************************)
(* The turns of the server.                                                *)
(***************************************************************************)
\* The tab's user sends the next message: the server stores the turn and puts
\* the sender in the room; the reply follows on its own.
Send ==
  /\ ~m.closed /\ conn.on /\ CanSend(m) /\ srv.turn < Turns /\ ~srv.reply
  /\ srv.task \in Terminal
  /\ srv' = [srv EXCEPT !.turn = @ + 1, !.sub[srv.turn + 1] = "PENDING", !.task = "RUNNING",
                        !.clock = @ + 1, !.upd = srv.clock + 1, !.reply = TRUE]
  /\ conn' = [conn EXCEPT !.room = TRUE]
  /\ UNCHANGED <<m, down, up, joins, check, detail, used>>

Reply ==
  /\ srv.reply
  /\ srv' = [srv EXCEPT !.reply = FALSE]
  /\ down' = Append(down, Event("reply", srv.turn))
  /\ UNCHANGED <<m, conn, up, joins, check, detail, used>>

\* The row of the subtask becomes RUNNING, before or after the start event.
Begin ==
  /\ srv.sub[srv.turn] = "PENDING"
  /\ srv' = [srv EXCEPT !.sub[srv.turn] = "RUNNING"]
  /\ UNCHANGED <<m, conn, down, up, joins, check, detail, used>>

\* chat:send starts the turn in a task of its own, "This ensures the ACK is
\* returned before chat:start is sent" (on_chat_send).
Start ==
  /\ srv.redis # srv.turn /\ srv.sub[srv.turn] \in Active /\ ~srv.reply
  /\ srv' = [srv EXCEPT !.redis = srv.turn]
  /\ down' = ToRoom(<<Event("start", srv.turn)>>)
  /\ UNCHANGED <<m, conn, up, joins, check, detail, used>>

Streaming == srv.redis = srv.turn /\ srv.sub[srv.turn] = "RUNNING"

Produce ==
  /\ Streaming /\ srv.out[srv.turn] < Length
  /\ srv' = [srv EXCEPT !.out[srv.turn] = @ + 1]
  /\ down' = ToRoom(<<[type |-> "chunk", s |-> srv.turn, p |-> srv.out[srv.turn] + 1]>>)
  /\ UNCHANGED <<m, conn, up, joins, check, detail, used>>

\* The end of a turn is stored, and Redis cleared, before it is told.
Persist ==
  /\ Streaming
  /\ \E task \in Outcomes :
       /\ task = "COMPLETED" => srv.out[srv.turn] = Length
       /\ srv' = [srv EXCEPT !.sub[srv.turn] = task, !.task = task, !.clock = @ + 1,
                             !.upd = srv.clock + 1, !.redis = 0]
  /\ UNCHANGED <<m, conn, down, up, joins, check, detail, used>>

\* The end event goes to the room, task:status to the user; the status carries
\* the time at which it is sent.
Tell ==
  LET s == srv.told + 1
  IN /\ s <= srv.turn /\ srv.sub[s] \in Terminal
     /\ srv' = [srv EXCEPT !.told = s, !.clock = @ + 1]
     /\ LET type == CASE srv.sub[s] = "COMPLETED" -> "done" [] srv.sub[s] = "FAILED" -> "error"
                      [] OTHER -> "cancelled"
            status == [type |-> "status", task |-> srv.sub[s], upd |-> srv.clock + 1]
        IN down' = IF ~conn.on THEN down
                   ELSE Append(ToRoom(<<Event(type, s)>>), status)
     /\ UNCHANGED <<m, conn, up, joins, check, detail, used>>

-----------------------------------------------------------------------------
Tab == \/ DeliverStart \/ DeliverChunk \/ DeliverDone \/ DeliverError \/ DeliverCancelled
       \/ DeliverStatus \/ DeliverReply \/ DeliverAnswer \/ DropAnswer \/ DropEvent
       \/ DetailArrives \/ Reconcile \/ Probe

User == Select \/ Deselect \/ BecomeVisible \/ Send

Server == \/ Receive \/ DetailRead \/ CheckRead \/ Reply
          \/ \E j \in joins : Enter(j) \/ ReadStream(j) \/ ReadSubtasks(j) \/ Answer(j)
          \/ Begin \/ Start \/ Produce \/ Persist \/ Tell

Network == Disconnect \/ Reconnect \/ CheckFails \/ \E j \in joins : Refuse(j)

Next == Tab \/ User \/ Server \/ Network

Spec == Init /\ [][Next]_vars

\* The browser runs the callbacks of what arrives, the server its handlers, the
\* socket client reconnects and a request without a network fails.  Nothing is
\* promised of the user, of the loss of the socket or of a refusal.
Fairness == WF_vars(Tab) /\ WF_vars(Server) /\ WF_vars(Reconnect \/ CheckFails)

FairSpec == Spec /\ Fairness

-----------------------------------------------------------------------------
\* Every variable keeps its kind.
TypeOK ==
  /\ m \in Machine
  /\ srv.task \in Execution /\ srv.turn \in Subtask /\ srv.redis \in {0} \cup Subtask
  /\ srv.told \in 0..srv.turn /\ srv.upd <= srv.clock
  /\ conn \in [on : BOOLEAN, room : BOOLEAN, joinedTask : BOOLEAN]
  /\ check.at \in {"idle", "asked", "read", "joining"}
  /\ detail.at \in {"none", "asked", "read", "loaded"}

\* What the tab shows of an answer was produced, once and in order, however the
\* cached text of a join, the stored text, the chunks that waited for the join
\* and those that follow it overlap (mergeChunkContent, buildMessagesFromSubtasks).
TextIsProduced ==
  \A s \in Subtask :
    LET text == m.msgs[s].text
    IN /\ \A i, j \in DOMAIN text : i < j => text[i] < text[j]
       /\ \A i \in DOMAIN text : text[i] <= srv.out[s]

\* A machine in joining waits for a join that is still on its way, in progress or
\* answered, unless the loss of the socket took that very join away
\* (recoverToStableState leaves joining in every other outcome).
UnderWay(v) ==
  \/ \E call \in ToSet(up) : call.type = "join" /\ call.v = v
  \/ \E j \in joins : j.v = v
  \/ \E event \in ToSet(down) : event.type = "answer" /\ event.v = v

JoiningIsUnderWay == m.status = "joining" => UnderWay(m.version) \/ m.version <= used.lost

\* A task the tab shows as over goes back to running only by the start of an
\* answer or the reply to a send: no late detail, check, status or join answer
\* reopens it (shouldIgnoreTaskLifecycleStatus).
OverIsReopenedByATurn ==
  [][m.task \in Terminal /\ m'.task \notin Terminal =>
       m'.closed \/ Deliver("start") \/ Deliver("reply")]_vars

\* While the task stays open the text of an answer never gets shorter, however
\* old the snapshot that a join brings (buildMessagesFromSubtasks keeps the longer).
TextNeverShrinks ==
  [][m'.closed \/ \A s \in Subtask : Len(m'.msgs[s].text) >= Len(m.msgs[s].text)]_vars

\* The recovery of this tab is the one that JoinRecovery describes: one join
\* counts at a time and a recovery asked for meanwhile is kept.
R == INSTANCE JoinRecovery
       WITH phase  <- IF m.closed THEN "closed" ELSE IF m.status = "joining" THEN "joining"
                      ELSE IF m.status = "waiting_socket" THEN "waiting" ELSE "settled",
            wanted <- m.pend.on,
            number <- m.version
Recovers == R!Spec

\* The tab comes to rest: "lets the state machine converge back to a stable state"
\* (task-runtime-state-machine.md).
Settles == <>[](m.closed \/ m.status \in Settled)

\* A recovery that was queued behind a join is started in the end.
QueuedRecoveryStarts == m.pend.on ~> ~m.pend.on

\* In the end a task that is over shows no stream: "When a task becomes terminal:
\* Clear the active stream and streaming subtask." (task-runtime-state-machine.md)
OverEndsItsStream ==
  <>[](~m.closed /\ m.task \in Terminal => m.status # "streaming" /\ m.active = 0)
=============================================================================

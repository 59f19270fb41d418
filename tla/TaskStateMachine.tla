---------------------------- MODULE TaskStateMachine ----------------------------
(***************************************************************************)
(* The reducers of chat-core's TaskStateMachine: what the state of one     *)
(* task in one browser tab becomes under each event.  The machine of the   *)
(* code is a record here and every reducer an operator that returns the    *)
(* next record; TaskSession drives them with a server, a socket and HTTP.  *)
(*                                                                         *)
(* Only the assistant's messages are kept, one for each subtask.  A text   *)
(* is the sequence of the positions of the answer that it shows, so that   *)
(* a gap, a repetition and a reordering are visible.                       *)
(***************************************************************************)
EXTENDS Integers, Sequences, SequencesExt

CONSTANTS
  Turns,   \* number of turns of the conversation; the subtask of turn s is s
  Length   \* number of chunks of an answer

ASSUME MachineAssumption == Turns \in Nat \ {0} /\ Length \in Nat \ {0}

Subtask  == 1..Turns
Position == 1..Length
NoTask   == "none"
Terminal == {"COMPLETED", "FAILED", "CANCELLED"}
Execution == {"RUNNING"} \cup Terminal

Whole == [p \in Position |-> p]
Cut(text, n) == SubSeq(text, 1, n)
Longer(a, b) == IF Len(a) > Len(b) THEN a ELSE b

NoMessage == [st |-> "absent", sub |-> NoTask, text |-> <<>>, known |-> FALSE, err |-> FALSE]

Message == [st    : {"absent", "streaming", "completed", "error"},
            sub   : {NoTask, "PENDING"} \cup Execution,  \* subtaskStatus
            text  : Seq(Position),
            known : BOOLEAN,                             \* messageId is known
            err   : BOOLEAN]                             \* error is set

Recovering == {"waiting_socket", "joining"}
Settled    == {"ready", "streaming", "error"}
Status     == {"idle"} \cup Recovering \cup Settled
Phase      == {"unknown", "syncing", "running", "streaming", "terminal"}

\* afterMessageId of a join: user messages are odd, answers even; NoCursor asks
\* for every message.
NoCursor == -1
Cursor   == NoCursor..2 * Turns
AnswerId(s) == 2 * s
PromptId(s) == 2 * s - 1

NoRecovery == [on |-> FALSE, full |-> FALSE, after |-> NoCursor]

Machine == [status : Status, phase : Phase, task : {NoTask} \cup Execution,
            joined : BOOLEAN,              \* joinedRoom
            active : {0} \cup Subtask,     \* activeStreamSubtaskId
            upd    : Nat, termUpd : Nat,   \* lastStatusUpdatedAt, lastTerminal...
            hasTerm : BOOLEAN,
            defTask : {NoTask} \cup Terminal, defUpd : Nat,
            confirmed : BOOLEAN,           \* serverConfirmedNoStream
            stamp  : Nat,                  \* messagesSyncedUpdatedAt
            prompts : 0..Turns,            \* last turn whose prompt is known
            msgs   : [Subtask -> Message],
            chunks : Seq([s : Subtask, p : Position]),  \* pendingChunks
            pend   : [on : BOOLEAN, full : BOOLEAN, after : Cursor],
            since  : Nat,                  \* version of this machine's first recovery
            version : Nat,                 \* recoveryVersion
            closed : BOOLEAN]

PhaseFor(task, streaming) ==
  CASE task \in Terminal  -> "terminal"
    [] task = "RUNNING"   -> IF streaming THEN "streaming" ELSE "running"
    [] OTHER              -> "unknown"

\* A new machine, and what LEAVE resets an old one to.
Fresh(version, closed) ==
  [status |-> "idle", phase |-> "unknown", task |-> NoTask, joined |-> FALSE, active |-> 0,
   upd |-> 0, termUpd |-> 0, hasTerm |-> FALSE, defTask |-> NoTask, defUpd |-> 0,
   confirmed |-> FALSE, stamp |-> 0, prompts |-> 0,
   msgs |-> [s \in Subtask |-> NoMessage], chunks |-> <<>>, pend |-> NoRecovery,
   since |-> version + 1, version |-> version, closed |-> closed]

(***************************************************************************)
(* Derived state.                                                          *)
(***************************************************************************)
HasActiveStream(m) == m.phase = "streaming" /\ m.active # 0

CanSend(m) == m.task \in Terminal \/ (m.phase = "running" /\ m.confirmed)

IsActiveEvent(m, s) == m.status = "streaming" /\ m.active = s

\* shouldProbeRuntimeInstability, for a task nobody is stopping.
Unstable(m) ==
  /\ ~m.closed /\ m.status \notin Recovering
  /\ m.task = "RUNNING" /\ m.active = 0 /\ ~m.confirmed

KnownIds(m) ==
  {AnswerId(s) : s \in {t \in Subtask : m.msgs[t].known}} \cup
  {PromptId(s) : s \in 1..m.prompts}

LastOf(ids) == IF ids = {} THEN NoCursor ELSE Max(ids)

\* getSyncAfterMessageIdBeforeSubtask: the last message before the active
\* answer, or before the first answer that still streams.
CursorBefore(m) ==
  LET streaming == {s \in Subtask : m.msgs[s].st = "streaming" /\ m.msgs[s].known}
      answers == IF m.active # 0
                 THEN IF m.msgs[m.active].known THEN {m.active} ELSE {}
                 ELSE streaming
  IN IF answers = {} THEN NoCursor
     ELSE LastOf({id \in KnownIds(m) : id < AnswerId(Min(answers))})

(***************************************************************************)
(* Streaming events.                                                       *)
(***************************************************************************)
WithMessage(m, s, msg) == [m EXCEPT !.msgs[s] = msg]

Retrying(m, msg) ==
  /\ m.task \in Terminal /\ msg.st # "absent"
  /\ msg.st = "error" \/ msg.sub \in {"FAILED", "CANCELLED"}

ChatStart(m, s) ==
  LET msg == m.msgs[s]
      opens == \/ msg.st = "absent"
               \/ msg.st = "streaming" /\ m.task \notin Terminal
               \/ Retrying(m, msg)
  IN IF ~opens THEN m ELSE
     [WithMessage(m, s, [st |-> "streaming", sub |-> NoTask,
                         text |-> IF msg.st = "streaming" THEN msg.text ELSE <<>>,
                         known |-> TRUE, err |-> FALSE])
      EXCEPT !.task = IF @ \in Terminal THEN "RUNNING" ELSE @,
             !.phase = "streaming", !.status = "streaming",
             !.active = s, !.confirmed = FALSE]

\* Mutant: a chunk is appended wherever it belongs.
ChunkAppended(text, p) == Append(text, p)

\* mergeChunkContent for the one position p that a chunk brings at offset p - 1.
\* An offset beyond the text is appended all the same and leaves a gap.
MergeChunk(text, p) ==
  IF p <= Len(text) /\ text[p] = p THEN text
  ELSE Append(Cut(text, IF p - 1 < Len(text) THEN p - 1 ELSE Len(text)), p)

ChunkApplied(m, s, p) ==
  [m EXCEPT !.msgs[s].text = MergeChunk(@, p), !.phase = "streaming", !.active = s]

ChatChunk(m, s, p) ==
  IF m.status \in {"idle", "joining"}
  THEN [m EXCEPT !.chunks = Append(@, [s |-> s, p |-> p])]
  ELSE IF m.msgs[s].st = "streaming"
       THEN [ChunkApplied(m, s, p) EXCEPT !.confirmed = FALSE]
       ELSE m

\* What the end of the active stream makes of the runtime.
StreamEnded(m, task, upd, termUpd) ==
  [m EXCEPT !.task = task, !.phase = PhaseFor(task, FALSE), !.active = 0,
            !.upd = upd, !.termUpd = termUpd, !.hasTerm = TRUE,
            !.defTask = NoTask, !.defUpd = 0]

ChatDone(m, s) ==
  LET msg == IF m.msgs[s].st = "absent"
             THEN [NoMessage EXCEPT !.st = "streaming", !.text = Whole] ELSE m.msgs[s]
      active == IsActiveEvent(m, s)
      task == IF ~active THEN m.task
              ELSE IF m.defTask # NoTask THEN m.defTask ELSE "COMPLETED"
      failed == task \in {"FAILED", "CANCELLED"}
      ended == [m EXCEPT !.msgs[s] =
                  [msg EXCEPT !.st = IF failed THEN "error" ELSE "completed",
                              !.sub = IF failed THEN task ELSE "COMPLETED",
                              !.text = IF failed THEN @ ELSE Longer(Whole, @),
                              !.known = TRUE]]
      Timed(at) == IF m.defUpd # 0 THEN m.defUpd ELSE at
  IN IF ~active /\ (msg.st = "error" \/ msg.sub \in {"FAILED", "CANCELLED"}) THEN m
     ELSE IF ~active THEN ended
     ELSE [StreamEnded(ended, task, Timed(m.upd), Timed(m.termUpd)) EXCEPT !.status = "ready"]

ChatError(m, s) ==
  IF m.msgs[s].st = "absent" \/ m.task \in Terminal \/ ~IsActiveEvent(m, s) THEN m
  ELSE [StreamEnded(m, "FAILED", m.upd, m.termUpd)
        EXCEPT !.msgs[s].st = "error", !.msgs[s].sub = "FAILED", !.msgs[s].err = TRUE,
               !.msgs[s].known = TRUE, !.status = "error"]

ChatCancelled(m, s) ==
  IF m.msgs[s].st = "absent" \/ m.task \in Terminal \/ ~IsActiveEvent(m, s) THEN m
  ELSE [StreamEnded(m, "CANCELLED", m.upd, m.termUpd)
        EXCEPT !.msgs[s].st = "completed", !.msgs[s].sub = "CANCELLED", !.status = "ready"]

\* The server accepted a message of this client, at the client's time.
SendAccepted(m, s, at) ==
  [m EXCEPT !.task = "RUNNING", !.phase = PhaseFor("RUNNING", m.active # 0),
            !.upd = at, !.termUpd = 0, !.hasTerm = FALSE, !.defTask = NoTask, !.defUpd = 0,
            !.confirmed = FALSE, !.status = IF m.active = 0 THEN "ready" ELSE "streaming",
            !.prompts = IF s > @ THEN s ELSE @]

(***************************************************************************)
(* The task's status, from an event, the task detail or a runtime check.   *)
(* updatedAt 0 is a status without a time.                                 *)
(***************************************************************************)
Deferred(m, task) ==
  task \in Terminal /\ HasActiveStream(m) /\ m.hasTerm /\ m.termUpd = 0

\* Mutant: only the times of two statuses are compared.
IgnoredByTime(m, task, upd) == m.upd # 0 /\ upd # 0 /\ upd < m.upd

Ignored(m, task, upd) ==
  \/ m.task \in Terminal /\ task = "RUNNING"
  \/ m.upd # 0 /\ upd # 0 /\ upd < m.upd
  \/ m.upd # 0 /\ upd = m.upd /\ task \in Terminal /\ upd = m.termUpd /\ HasActiveStream(m)

\* Mutant: the message takes the status of the task.
FinalizedAs(msg, task) == [msg EXCEPT !.st = IF @ = "streaming" THEN task ELSE @]

Finalized(msg, task) ==
  IF msg.st # "streaming" THEN msg
  ELSE [msg EXCEPT !.st = IF task = "COMPLETED" THEN "completed" ELSE "error", !.sub = task]

TaskEnded(m, task, upd) ==
  [m EXCEPT !.task = task, !.phase = "terminal", !.active = 0, !.upd = upd,
            !.termUpd = IF upd # 0 THEN upd ELSE @, !.hasTerm = TRUE,
            !.defTask = NoTask, !.defUpd = 0, !.confirmed = FALSE,
            !.status = IF @ \in Recovering THEN @ ELSE "ready",
            !.msgs = [s \in Subtask |-> Finalized(m.msgs[s], task)], !.chunks = <<>>]

TaskLifecycle(m, task, updatedAt) ==
  LET upd == IF updatedAt # 0 THEN updatedAt ELSE m.upd
  IN CASE Deferred(m, task) -> [m EXCEPT !.defTask = task, !.defUpd = updatedAt]
       [] ~Deferred(m, task) /\ Ignored(m, task, updatedAt) -> m
       [] OTHER ->
          IF task \in Terminal THEN TaskEnded(m, task, upd)
          ELSE [m EXCEPT !.task = task, !.phase = PhaseFor(task, m.active # 0), !.upd = upd,
                         !.defTask = NoTask, !.defUpd = 0]

(***************************************************************************)
(* Recovery: join the room, replace the messages by the answer's snapshot. *)
(***************************************************************************)
EnterWaitingSocket(m) == [m EXCEPT !.status = "waiting_socket", !.phase = "syncing"]

\* Mutant: a recovery without a number of its own.
EnterJoiningAgain(m) ==
  [m EXCEPT !.status = "joining", !.phase = "syncing", !.pend = NoRecovery]

EnterJoining(m) ==
  [m EXCEPT !.status = "joining", !.phase = "syncing", !.pend = NoRecovery, !.version = @ + 1]

\* Mutant: an error is only reported.
ReportRecoveryError(m) == m

EnterRecoveryError(m) == IF m.status \in Recovering THEN [m EXCEPT !.status = "error"] ELSE m

\* A snapshot: the subtasks that follow the cursor with their status ("absent"
\* for the others), their stored text, the live stream and its cached text.
Snapshot == [subs : [Subtask -> {"absent", "PENDING"} \cup Execution],
             text : [Subtask -> Seq(Position)],
             stream : {0} \cup Subtask, cached : Seq(Position)]

\* Mutant: the text of the server replaces the text that is shown.
ServerText(shown, stored, streamed) == Longer(streamed, stored)

BuiltText(shown, stored, streamed) == Longer(streamed, Longer(shown, stored))

\* One message of buildMessagesFromSubtasks.
Built(msg, snap, s) ==
  LET fromStream == IF snap.stream = s THEN snap.cached ELSE <<>>
      kept == msg.st = "error" /\ msg.err
  IN CASE snap.subs[s] = "RUNNING" ->
            [st |-> IF kept THEN "error" ELSE "streaming", sub |-> "RUNNING",
             text |-> BuiltText(msg.text, snap.text[s], fromStream),
             known |-> TRUE, err |-> kept]
       [] snap.subs[s] \in Terminal ->
            [st |-> IF kept \/ snap.subs[s] # "COMPLETED" THEN "error" ELSE "completed",
             sub |-> snap.subs[s], text |-> Longer(snap.text[s], msg.text),
             known |-> TRUE, err |-> kept \/ snap.subs[s] = "FAILED"]
       [] OTHER -> msg

\* applyStreamRecoveryMessage
WithStream(msg, snap, s) ==
  IF snap.stream # s THEN msg
  ELSE IF msg.st = "absent" THEN [msg EXCEPT !.st = "streaming", !.text = snap.cached]
  ELSE IF msg.st = "streaming" THEN [msg EXCEPT !.text = Longer(snap.cached, @)]
  ELSE msg

\* finalizeStaleStreamingMessagesForNoStream
Stale(msg, sub) ==
  IF msg.st # "streaming" THEN msg
  ELSE [msg EXCEPT !.st = IF sub = "COMPLETED" THEN "completed" ELSE "error",
                   !.sub = IF sub = "absent" THEN @ ELSE sub]

SyncedMessages(m, snap) ==
  [s \in Subtask |->
     LET msg == WithStream(Built(m.msgs[s], snap, s), snap, s)
     IN IF snap.stream = 0 THEN Stale(msg, snap.subs[s]) ELSE msg]

StreamingSubtasks(msgs) == {s \in Subtask : msgs[s].st = "streaming"}

\* The text of message s after the chunks were merged into it, one by one.
Merged(text, chunks, s) ==
  LET merged[n \in 0..Len(chunks)] ==
        IF n = 0 THEN text
        ELSE IF chunks[n].s = s THEN MergeChunk(merged[n - 1], chunks[n].p)
        ELSE merged[n - 1]
  IN merged[Len(chunks)]

\* applyPendingChunksToState: the chunks of messages that do not stream are dropped.
ApplyPendingChunks(m) ==
  LET Streams(s) == m.msgs[s].st = "streaming"
      live == {n \in DOMAIN m.chunks : Streams(m.chunks[n].s)}
  IN [m EXCEPT !.msgs = [s \in Subtask |->
                           [m.msgs[s] EXCEPT !.text =
                              IF Streams(s) THEN Merged(@, m.chunks, s) ELSE @]],
               !.phase = IF live = {} THEN @ ELSE "streaming",
               !.active = IF live = {} THEN @ ELSE m.chunks[Max(live)].s,
               !.chunks = <<>>]

\* syncMessagesFromJoinPayload and applySyncCompletion.
SnapshotApplied(m, snap, syncUpdatedAt) ==
  LET msgs == SyncedMessages(m, snap)
      streaming == StreamingSubtasks(msgs)
      prompts == {s \in Subtask : snap.subs[s] # "absent"}
  IN [m EXCEPT !.joined = TRUE, !.msgs = msgs,
               !.status = IF streaming = {} THEN "ready" ELSE "streaming",
               !.phase = PhaseFor(m.task, streaming # {}),
               !.active = IF streaming = {} THEN 0 ELSE Min(streaming),
               !.stamp = IF syncUpdatedAt # 0 THEN syncUpdatedAt ELSE @,
               !.confirmed = streaming = {},
               !.prompts = Max({@} \cup prompts)]

\* The answer of the current join, and the chunks that arrived meanwhile.
Synced(m, snap, syncUpdatedAt) == ApplyPendingChunks(SnapshotApplied(m, snap, syncUpdatedAt))

\* The server has no stream for a task that runs: the fast path of a check.
StreamAbsent(m) ==
  [m EXCEPT !.msgs = [s \in Subtask |-> Stale(m.msgs[s], "absent")],
            !.phase = PhaseFor(m.task, FALSE), !.active = 0, !.status = "ready",
            !.confirmed = TRUE]

(***************************************************************************)
(* What a runtime check decides.                                           *)
(***************************************************************************)
ShouldJoinOrResume(m, reconnect, task, upd, stream, stalled) ==
  \/ reconnect
  \/ upd # 0 /\ m.stamp # upd
  \/ task = "RUNNING" /\ (~m.joined \/ (stream # 0 /\ (m.active # stream \/ stalled)))
=============================================================================

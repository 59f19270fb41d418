--------------------------- MODULE ExecutionQueue ---------------------------
(***************************************************************************)
(* The durable execution queue of Wework: rows of loop_item_executions,    *)
(* the handlers of LoopItemExecutionService that move them, the device     *)
(* pull channel, the periodic scan, snapshot reconciliation, and as much   *)
(* of the Executor's Runtime as the handlers can observe.                  *)
(*                                                                         *)
(* Every handler reads a row, decides, and writes it, at READ COMMITTED.   *)
(* A handler is written once, as a guard Applies(c, r) and an effect       *)
(* Handle(c, r) of the call c on the row value r it read.  Serve performs  *)
(* read and write in one step; for the handlers named in Overlapping,      *)
(* Begin and Finish perform them in two, so that other transactions commit *)
(* in between.                                                             *)
(***************************************************************************)
EXTENDS Naturals, FiniteSets

CONSTANTS
  Device,        \* the Runtime installations that pull work
  Issue,         \* the Issues whose work is executed
  Processor,     \* the processors (robots, members) an Issue is assigned to
  None,          \* "no device"
  Channels,      \* {"pull"}: the Executor creates what it pulled and then
                 \*   acknowledges; {"fenced"}: start-requested comes first
  Admissions,    \* statuses an execution may be enqueued with
  Overlapping,   \* handlers whose read and write other transactions separate
  Prompt,        \* TRUE: a create or a task list under way for a row is over
                 \*   before the next one, a lease or a timeout of that row
  MaxRequests,   \* bound: executions enqueued
  MaxRows,       \* bound: rows, retries included
  MaxRetries,    \* max_retries (DEFAULT_MAX_RETRIES)
  MaxCreates,    \* bound: Runtime creates carried out for one row
  MaxOpen,       \* bound: handlers that have read and not yet written
  MaxVersion     \* bound: version bumps of a row while a handler is open on it

Ids   == 1..MaxRows
Scope == Issue \X Processor   \* execution_scope

(***************************************************************************)
(* Statuses, and the partition every query filters by.                     *)
(***************************************************************************)
Pending  == {"waiting_runtime", "pending_approval", "queued"}
Capacity == {"claimed", "running", "cancel_requested"}
Terminal == {"completed", "failed", "cancelled"}
Active   == Pending \cup Capacity

\* Handlers whose write is a compare-and-swap on status and version.
CasHandlers == {"cancel", "preflight", "unknown", "ack_rejected", "observe"}
\* Handlers that write what they computed from their read.
BlindHandlers == {"approve", "reject", "recover", "ack_ok", "snapshot"}

\* What a start, an acknowledgement, an event, a snapshot or a stop request
\* carries; a request of a user, a timer or the scan has no payload.
ServiceOps == CasHandlers \cup BlindHandlers \cup {"finish"}
RuntimeOps == {"offer", "create", "stop"}
Reports    == {"missing", "accepted", "running"} \cup Terminal

MaxSeq == 2 * MaxCreates   \* a turn emits one event when it starts, one when it ends
Call   == [op: {"snapshot"}, id: Ids, arg: Reports, seq: {0}]
     \cup [op: {"finish"}, id: Ids, arg: Terminal, seq: 0..MaxSeq]
     \cup [op: (ServiceOps \cup RuntimeOps) \ {"snapshot", "finish"}, id: Ids,
           arg: {"none", "running"}, seq: 0..MaxSeq]

Row == [status    : {"none"} \cup Active \cup Terminal,
        scope     : Scope,
        device    : Device \cup {None},   \* runtime_device_id
        approval  : BOOLEAN,              \* approval_status = "pending"
        fenced    : BOOLEAN,              \* start_requested_at is set
        observed  : {"unconfirmed", "accepted", "running"} \cup Terminal,
        sync      : {"pending", "in_sync", "stale", "diverged"},
        timedOut  : BOOLEAN,   \* termination_reason = "start_confirmation_timeout"
        lease     : {"unset", "live", "expired"},
        seq       : 0..MaxSeq,            \* last_event_seq
        version   : 0..MaxVersion,
        retry     : 0..MaxRetries,        \* retry_attempt
        prev      : 0..MaxRows,           \* previous_execution_id
        run       : Ids]                  \* automation_run_id

Task == [created : 0..MaxCreates,  \* creates the Runtime has accepted
         waiting : 0..MaxCreates,  \* turns in its queue
         live    : BOOLEAN,        \* a turn is executing
         last    : {"none"} \cup Terminal,
         seq     : 0..MaxSeq]      \* eventSeq of the last event it emitted

Open == [call: Call, read: Row]

ASSUME QueueAssumption ==
  /\ MaxRequests \in Nat /\ MaxRows \in Nat \ {0} /\ MaxRetries \in Nat
  /\ MaxCreates \in Nat /\ MaxOpen \in Nat /\ MaxVersion \in Nat
  /\ Channels \subseteq {"pull", "fenced"}
  /\ Admissions \subseteq Pending
  /\ Overlapping \subseteq CasHandlers \cup BlindHandlers
  /\ Prompt \in BOOLEAN
  /\ None \notin Device /\ Issue # {} /\ Processor # {}

VARIABLES
  count,     \* rows allocated so far: ids grow by one
  row,       \* loop_item_executions
  run,       \* project_automation_runs: "open" while not terminal
  binding,   \* Issue -> the device its first claim bound it to
  task,      \* the Runtime's task of each row (task id codex-queue-<id>)
  net,       \* messages in flight between backend and Executor
  open       \* handlers that have read their row and not yet written it

vars == <<count, row, run, binding, task, net, open>>

Allocated == 1..count

Message(op, i) == [op |-> op, id |-> i, arg |-> "none", seq |-> 0]
InFlight(op, i) == \E m \in net : m.op = op /\ m.id = i
Quiet(i) == Prompt => ~InFlight("create", i) /\ ~InFlight("snapshot", i)

(***************************************************************************)
(* Writing a row.  A version is only ever compared with one that an open   *)
(* handler has read, so it is counted while such a handler exists and      *)
(* returns to 0 afterwards.                                                *)
(***************************************************************************)
Watched(i) == \E o \in open : o.call.id = i
Bumped(i, new) == [new EXCEPT !.version = IF Watched(i) THEN @ + 1 ELSE 0]

\* The columns a terminal UPDATE sets; seq 0 stands for "no event".
Ended(r, outcome, seq) ==
  [r EXCEPT !.status = outcome, !.lease = "unset", !.observed = outcome,
            !.sync = "in_sync", !.timedOut = FALSE,
            !.seq = IF seq > 0 THEN seq ELSE @]

\* The columns fail(requeue_infra=True) resets; runtime_device_id stays.
Requeued(r) ==
  [r EXCEPT !.status = "queued", !.fenced = FALSE, !.observed = "unconfirmed",
            !.sync = "pending", !.timedOut = FALSE, !.lease = "unset"]

\* What a cancellation of a started attempt sets, what an attempt of unknown
\* fate gets, and what a progress event sets.
CancelRequested(r) == [r EXCEPT !.status = "cancel_requested", !.sync = "pending"]
StartUnknown(r)    == [r EXCEPT !.sync = "stale", !.timedOut = TRUE]
Progressed(r, status, seq) ==
  [r EXCEPT !.status = status, !.observed = "running", !.sync = "in_sync",
            !.timedOut = FALSE, !.lease = "live", !.seq = seq]

RunOutcome == [outcome \in Terminal |->
                IF outcome = "completed" THEN "succeeded" ELSE outcome]

NewRow(status, scope, approval, prev, root) ==
  [status |-> status, scope |-> scope, device |-> None, approval |-> approval,
   fenced |-> FALSE, observed |-> "unconfirmed",
   sync |-> "pending", timedOut |-> FALSE, lease |-> "unset", seq |-> 0,
   version |-> 0, retry |-> 0, prev |-> prev, run |-> root]

NoRow == NewRow("none", CHOOSE s \in Scope : TRUE, FALSE, 0, 1)

RetryOf(p, i) ==
  [NewRow("queued", p.scope, FALSE, i, p.run) EXCEPT !.retry = p.retry + 1]

Write(i, won, new) ==
  /\ row' = IF won THEN [row EXCEPT ![i] = Bumped(i, new)] ELSE row
  /\ UNCHANGED <<count, run>>

\* Mutant of Terminate: a run keeps the outcome of its first attempt.
FirstOutcomeOnly(i, won, outcome, seq) ==
  /\ row' = IF won THEN [row EXCEPT ![i] = Bumped(i, Ended(@, outcome, seq))] ELSE row
  /\ run' = IF won /\ run[row[i].run] = "open"
            THEN [run EXCEPT ![row[i].run] = RunOutcome[outcome]] ELSE run
  /\ UNCHANGED count

\* _transition_terminal: one writer wins, and projects the same outcome to
\* the automation run in the same transaction.
Terminate(i, won, outcome, seq) ==
  /\ row' = IF won THEN [row EXCEPT ![i] = Bumped(i, Ended(@, outcome, seq))] ELSE row
  /\ run' = IF won THEN [run EXCEPT ![row[i].run] = RunOutcome[outcome]] ELSE run
  /\ UNCHANGED count

\* fail(requeue=True) with budget left: end this attempt as failed and insert
\* a new one.  A writer that lost the election looks at the winner, and goes
\* on to insert its retry when the winner failed too.
FailAndRetry(i, won, seq) ==
  LET failed == Bumped(i, Ended(row[i], "failed", seq))
  IN IF won \/ row[i].status = "failed"
     THEN /\ count < MaxRows
          /\ count' = count + 1
          /\ row' = [row EXCEPT ![i] = IF won THEN failed ELSE @,
                                ![count + 1] = RetryOf(row[i], i)]
          /\ run' = IF won THEN [run EXCEPT ![row[i].run] = "failed"] ELSE run
     ELSE UNCHANGED <<count, row, run>>

\* Mutant of Fail: one retry more than the budget.
RetryPastBudget(i, r, won, seq) ==
  IF r.retry <= MaxRetries THEN FailAndRetry(i, won, seq)
                           ELSE Terminate(i, won, "failed", seq)

\* fail(requeue=True): retry while the budget lasts.
Fail(i, r, won, seq) ==
  IF r.retry < MaxRetries THEN FailAndRetry(i, won, seq)
                          ELSE Terminate(i, won, "failed", seq)

SameRead(i, r) == row[i].status = r.status /\ row[i].version = r.version

(***************************************************************************)
(* Handlers: the guard a call meets on the row it read, then its effect.   *)
(***************************************************************************)
CancelApplies(r) == r.status \in Active

\* Mutant of Cancel: a fenced claim counts as never started.
CancelClaimOutright(i, r) ==
  IF r.status \in Pending \cup {"claimed"}
  THEN Terminate(i, SameRead(i, r), "cancelled", 0)
  ELSE Write(i, row[i].status = "running" /\ row[i].version = r.version,
             CancelRequested(row[i]))

Cancel(i, r) ==
  IF r.status \in Pending \/ (r.status = "claimed" /\ ~r.fenced)
  THEN Terminate(i, SameRead(i, r), "cancelled", 0)
  ELSE Write(i, row[i].status \in {"claimed", "running"} /\ row[i].version = r.version,
             CancelRequested(row[i]))

\* approve and reject flush through the ORM: no expected status, no version.
ApprovalApplies(r) == r.status = "pending_approval"

Approve(i) ==
  \E needsRuntime \in BOOLEAN :
    /\ row' = [row EXCEPT ![i].approval = FALSE,
                          ![i].status = IF needsRuntime THEN "waiting_runtime"
                                                        ELSE "queued"]
    /\ UNCHANGED <<count, run>>

\* Mutant of Reject: the automation run is forgotten.
RejectWithoutRun(i) ==
  /\ row' = [row EXCEPT ![i] =
               [@ EXCEPT !.status = "cancelled", !.approval = FALSE,
                         !.observed = "cancelled", !.sync = "in_sync"]]
  /\ UNCHANGED <<count, run>>

Reject(i) ==
  /\ row' = [row EXCEPT ![i] =
               [@ EXCEPT !.status = "cancelled", !.approval = FALSE,
                         !.observed = "cancelled", !.sync = "in_sync"]]
  /\ run' = [run EXCEPT ![row[i].run] = "cancelled"]
  /\ UNCHANGED count

PreflightApplies(r) ==
  r.status = "claimed" /\ ~r.fenced /\ r.observed = "unconfirmed"

\* report_runtime_dispatch_unknown: only a fenced claim may become unknown.
\* The caller has given up on its create.
UnknownApplies(i, r) ==
  r.status = "claimed" /\ r.fenced /\ Quiet(i)

MarkUnknown(i, r) ==
  Write(i, row[i].version = r.version /\ row[i].status \in Capacity,
        StartUnknown(row[i]))

\* recovery_scan: a claim that was never fenced is requeued, expecting only
\* that the row is still active; anything else becomes unknown.
RecoverApplies(r) == r.status \in Capacity /\ r.lease = "expired"

\* Mutant of Recover: a lost lease stands in for a failure.
RecoverAsFailed(i, r) ==
  IF r.status = "claimed" /\ ~r.fenced
  THEN Write(i, row[i].status \in Active, Requeued(row[i]))
  ELSE Terminate(i, SameRead(i, r), "failed", 0)

\* Mutant of Recover: the fence is forgotten.
RecoverAnyClaim(i, r) ==
  IF r.status = "claimed"
  THEN Write(i, row[i].status \in Active, Requeued(row[i]))
  ELSE MarkUnknown(i, r)

\* Mutant of Recover: whatever was never fenced goes back to the queue.
RecoverUnfenced(i, r) ==
  IF ~r.fenced THEN Write(i, row[i].status \in Active, Requeued(row[i]))
               ELSE MarkUnknown(i, r)

Recover(i, r) ==
  IF r.status = "claimed" /\ ~r.fenced
  THEN Write(i, row[i].status \in Active, Requeued(row[i]))
  ELSE MarkUnknown(i, r)

\* An ORM flush writes the columns whose value differs from the one that was
\* read, and no others.
Column(read, now, value) == IF read = value THEN now ELSE value

\* The row after a flush that records what the Runtime was seen to do.
Observed(i, r, state) ==
  [row[i] EXCEPT !.observed = Column(r.observed, @, state),
                 !.sync = Column(r.sync, @, "in_sync"),
                 !.timedOut = Column(r.timedOut, @, FALSE),
                 !.version = r.version]

\* confirm_runtime_accepted: the row it read was claimed, and it writes through
\* the ORM, expecting nothing.
AcceptApplies(r) == r.status = "claimed"

Accept(i, r) ==
  Write(i, TRUE, [Observed(i, r, "accepted") EXCEPT
                    !.fenced = Column(r.fenced, @, TRUE), !.lease = "live"])

\* acknowledge_execution(accepted=False) ends the row whatever it read of it.
Refuse(i, r) == Terminate(i, SameRead(i, r), "failed", 0)

\* Mutant of ObserveApplies: an event is accepted for an attempt that is over.
AppliesAfterEnd(r, seq) == r.seq < seq

\* A non-terminal event of the Runtime's turn.
ObserveApplies(r, seq) == r.status \in Capacity /\ r.seq < seq

StillRunning(r) ==
  IF r.status = "cancel_requested" THEN "cancel_requested" ELSE "running"

\* Mutant of Observe: no compare-and-swap.
ObserveBlindly(i, r, seq) ==
  Write(i, row[i].seq < seq,
        Progressed(row[i], StillRunning(r), seq))

Observe(i, r, seq) ==
  Write(i, row[i].version = r.version /\ row[i].status \in Capacity /\ row[i].seq < seq,
        Progressed(row[i], StillRunning(r), seq))

\* A terminal event takes the row lock before it decides.
Settle(i, outcome, seq) ==
  CASE outcome = "completed" -> Terminate(i, TRUE, "completed", seq)
    [] outcome = "cancelled" -> Terminate(i, TRUE, "cancelled", seq)
    [] outcome = "failed" -> IF row[i].status = "cancel_requested"
                             THEN Terminate(i, TRUE, "cancelled", seq)
                             ELSE Fail(i, row[i], TRUE, seq)

Diverged(i, r) ==
  [row[i] EXCEPT !.sync = Column(r.sync, @, "diverged"), !.version = r.version]

\* Mutant of ReconcileMissing: a cancelled attempt without a task diverges.
MissingDiverges(i, r) ==
  IF r.status = "claimed" /\ r.observed = "unconfirmed" /\ r.timedOut /\ r.fenced
  THEN Write(i, SameRead(i, r), Requeued(row[i]))
  ELSE Write(i, TRUE, Diverged(i, r))

\* Mutant of ReconcileRunning: a running task clears the cancellation.
RunningClearsCancel(i, r) ==
  Write(i, TRUE, [Observed(i, r, "running") EXCEPT !.status = "running"])

\* Mutant of ReconcileMissing: a task that is no longer listed is done.
MissingCompletes(i, r) ==
  CASE r.status = "cancel_requested" ->
         Terminate(i, row[i].status = "cancel_requested", "cancelled", 0)
    [] r.status = "claimed" /\ r.observed = "unconfirmed" /\ r.timedOut /\ r.fenced ->
         Write(i, SameRead(i, r), Requeued(row[i]))
    [] OTHER ->
         Terminate(i, SameRead(i, r), "completed", 0)

\* reconcile_runtime_snapshot.  The running and accepted branches, and the one
\* for a task nobody can account for, write through the ORM.
ReconcileMissing(i, r) ==
  CASE r.status = "cancel_requested" ->
         Terminate(i, row[i].status = "cancel_requested", "cancelled", 0)
    [] r.status = "claimed" /\ r.observed = "unconfirmed" /\ r.timedOut /\ r.fenced ->
         Write(i, SameRead(i, r), Requeued(row[i]))
    [] OTHER ->
         Write(i, TRUE, Diverged(i, r))

ReconcileRunning(i, r) ==
  Write(i, TRUE, [Observed(i, r, "running") EXCEPT
                    !.status = Column(r.status, @, StillRunning(r))])

ReconcileAccepted(i, r) ==
  Write(i, TRUE, [Observed(i, r, "accepted") EXCEPT !.lease = "live"])

Reconcile(i, r, report) ==
  CASE report = "missing"  -> ReconcileMissing(i, r)
    [] report = "running"  -> ReconcileRunning(i, r)
    [] report = "accepted" -> ReconcileAccepted(i, r)
    [] report = "failed"   -> Fail(i, r, SameRead(i, r), 0)
    [] OTHER               -> Terminate(i, SameRead(i, r), report, 0)

Applies(c, r) ==
  CASE c.op = "cancel"             -> CancelApplies(r)
    [] c.op \in {"approve", "reject"} -> ApprovalApplies(r)
    [] c.op = "preflight"          -> PreflightApplies(r)
    [] c.op = "unknown"            -> UnknownApplies(c.id, r)
    [] c.op = "recover"            -> RecoverApplies(r)
    [] c.op = "ack_ok"             -> AcceptApplies(r)
    [] c.op = "ack_rejected"       -> r.status \in Active
    [] c.op \in {"observe", "finish"} -> ObserveApplies(r, c.seq)
    [] OTHER                       -> r.status \in Capacity

Handle(c, r) ==
  CASE c.op = "cancel"       -> Cancel(c.id, r)
    [] c.op = "approve"      -> Approve(c.id)
    [] c.op = "reject"       -> Reject(c.id)
    [] c.op = "preflight"    -> Terminate(c.id, SameRead(c.id, r), "failed", 0)
    [] c.op = "unknown"      -> MarkUnknown(c.id, r)
    [] c.op = "recover"      -> Recover(c.id, r)
    [] c.op = "ack_ok"       -> Accept(c.id, r)
    [] c.op = "ack_rejected" -> Refuse(c.id, r)
    [] c.op = "observe"      -> Observe(c.id, r, c.seq)
    [] c.op = "finish"       -> Settle(c.id, c.arg, c.seq)
    [] c.op = "snapshot"     -> Reconcile(c.id, r, c.arg)

(***************************************************************************)
(* Calls that reach the backend: a request, or a message of the Runtime.   *)
(* An event stays in net, so that it may arrive twice, late, or never.     *)
(***************************************************************************)
Taken(c) == IF c.op \in {"observe", "finish"} THEN net ELSE net \ {c}

Room(i) == row[i].version < MaxVersion

Serve(c) ==
  /\ Room(c.id)
  /\ Applies(c, row[c.id])
  /\ Handle(c, row[c.id])
  /\ net' = Taken(c)
  /\ UNCHANGED <<binding, task, open>>

\* What the handler goes on to use of its read.
Kept(c, r) ==
  IF c.op \in CasHandlers \cup {"recover"}
  THEN [NoRow EXCEPT !.status = r.status, !.fenced = r.fenced, !.version = r.version]
  ELSE r

Begin(c) ==
  /\ c.op \in Overlapping
  /\ Cardinality(open) < MaxOpen
  /\ Room(c.id)
  /\ Applies(c, row[c.id])
  /\ open' = open \cup {[call |-> c, read |-> Kept(c, row[c.id])]}
  /\ net' = Taken(c)
  /\ UNCHANGED <<count, row, run, binding, task>>

Finish(o) ==
  /\ Room(o.call.id)
  /\ Handle(o.call, o.read)
  /\ open' = open \ {o}
  /\ UNCHANGED <<binding, task, net>>

Perform(c) == Serve(c) \/ Begin(c)

\* An acknowledgement or a snapshot whose handler returns early is used up.
Discard(m) ==
  /\ m.op \in {"ack_ok", "ack_rejected", "snapshot"}
  /\ ~Applies(m, row[m.id])
  /\ net' = net \ {m}
  /\ UNCHANGED <<count, row, run, binding, task, open>>

Ask(op, i) == row[i].status # "none" /\ Perform(Message(op, i))

(***************************************************************************)
(* The backend's own steps: enqueue, select a Runtime, claim, redeliver,   *)
(* fence.  Each of them locks what it reads before it writes.              *)
(***************************************************************************)
Roots == {i \in Allocated : row[i].retry = 0}

\* The newest attempt of a scope, 0 when there is none.
IsNewest(i, s) ==
  /\ i # 0 => row[i].scope = s
  /\ \A j \in Allocated : row[j].scope = s => j <= i

\* A row that waits for its Runtime may need approval afterwards as well.
Enqueue(s, status, approval) ==
  /\ status = "pending_approval" => approval
  /\ status = "queued" => ~approval
  /\ Cardinality(Roots) < MaxRequests
  /\ count < MaxRows
  /\ count' = count + 1
  /\ \E prev \in 0..count :
       /\ IsNewest(prev, s)
       /\ row' = [row EXCEPT ![count + 1] =
                    NewRow(status, s, approval, prev, count + 1)]
  /\ UNCHANGED <<run, binding, task, net, open>>

SelectRuntime(i) ==
  /\ Room(i)
  /\ row[i].status \in {"waiting_runtime", "queued"}
  /\ row' = [row EXCEPT ![i] = Bumped(i, [@ EXCEPT !.status =
               IF row[i].approval THEN "pending_approval" ELSE "queued"])]
  /\ UNCHANGED <<count, run, binding, task, net, open>>

IssueOf(i) == row[i].scope[1]

\* Mutant of Occupied: a cancellation that is only requested frees the scope.
OccupiedByRunning(s) ==
  \E i \in Allocated : row[i].scope = s /\ row[i].status \in {"claimed", "running"}

Occupied(s) == \E i \in Allocated : row[i].scope = s /\ row[i].status \in Capacity

\* The Runtime holds a claim that it has not yet acknowledged.
Unconfirmed(d) ==
  \E i \in Allocated : row[i].device = d /\ row[i].status = "claimed" /\ ~row[i].fenced

\* Mutant of Claim: the runner binding is written but not consulted.
ClaimAnywhere(i, d) ==
  /\ Room(i)
  /\ row[i].status = "queued"
  /\ ~Unconfirmed(d)
  /\ ~Occupied(row[i].scope)
  /\ binding' = [binding EXCEPT ![IssueOf(i)] = d]
  /\ row' = [row EXCEPT ![i] = Bumped(i, [@ EXCEPT !.status = "claimed",
                                 !.device = d, !.lease = "live"])]
  /\ net' = net \cup {Message("offer", i)}
  /\ UNCHANGED <<count, run, task, open>>

\* A pull by a Runtime without an unconfirmed claim: claim_next_for_device.
\* With the Issue locked, the scope is free and the Issue is bound to this
\* device or to none.  The payload leaves as an offer.
Claim(i, d) ==
  /\ Room(i)
  /\ row[i].status = "queued"
  /\ ~Unconfirmed(d)
  /\ ~Occupied(row[i].scope)
  /\ binding[IssueOf(i)] \in {d, None}
  /\ binding' = [binding EXCEPT ![IssueOf(i)] = d]
  /\ row' = [row EXCEPT ![i] = Bumped(i, [@ EXCEPT !.status = "claimed",
                                 !.device = d, !.lease = "live"])]
  /\ net' = net \cup {Message("offer", i)}
  /\ UNCHANGED <<count, run, task, open>>

\* A pull by the Runtime that holds an unfenced claim returns that claim again.
Redeliver(i) ==
  /\ row[i].status = "claimed" /\ ~row[i].fenced
  /\ row' = [row EXCEPT ![i].lease = "live"]
  /\ net' = net \cup {Message("offer", i)}
  /\ UNCHANGED <<count, run, binding, task, open>>

\* request_runtime_start: the App fences the claim, then sends its create.
RequestStart(i) ==
  /\ "fenced" \in Channels
  /\ Room(i)
  /\ Quiet(i)
  /\ InFlight("offer", i)
  /\ row[i].status = "claimed" /\ ~row[i].fenced
  /\ row' = [row EXCEPT ![i] = Bumped(i, [@ EXCEPT !.fenced = TRUE, !.lease = "live"])]
  /\ net' = (net \ {Message("offer", i)}) \cup {Message("create", i)}
  /\ UNCHANGED <<count, run, binding, task, open>>

LeaseExpires(i) ==
  /\ Quiet(i)
  /\ row[i].status \in Capacity /\ row[i].lease = "live"
  /\ row' = [row EXCEPT ![i].lease = "expired"]
  /\ UNCHANGED <<count, run, binding, task, net, open>>

\* heartbeat renews the lease and nothing else.  The client beats for a task
\* that its Runtime has.
Heartbeat(i) ==
  /\ row[i].status \in Capacity
  /\ task[i].live \/ task[i].waiting > 0
  /\ row' = [row EXCEPT ![i].lease = "live"]
  /\ UNCHANGED <<count, run, binding, task, net, open>>

\* Every scan republishes the stop of every row whose cancel is unconfirmed.
SendStop(i) ==
  /\ row[i].status = "cancel_requested"
  /\ ~InFlight("stop", i)
  /\ net' = net \cup {Message("stop", i)}
  /\ UNCHANGED <<count, row, run, binding, task, open>>

(***************************************************************************)
(* The Executor and its Runtime.                                           *)
(***************************************************************************)
\* What runtime.tasks.list says of the task of a row.
Report(t) ==
  CASE t.live                          -> "running"
    [] ~t.live /\ t.waiting > 0         -> "accepted"
    [] ~t.live /\ t.waiting = 0 /\ t.last # "none" -> t.last
    [] OTHER                           -> "missing"

\* An offer is created at once in the pull channel; a fenced create follows
\* request_runtime_start.  A task id that exists gets one more turn.
Startable(m) == m.op = "create" \/ (m.op = "offer" /\ "pull" \in Channels)

Create(m) ==
  /\ Startable(m)
  /\ task[m.id].created < MaxCreates
  /\ task' = [task EXCEPT ![m.id].created = @ + 1, ![m.id].waiting = @ + 1]
  /\ net' = (net \ {m}) \cup {Message("ack_ok", m.id)}
  /\ UNCHANGED <<count, row, run, binding, open>>

\* The Runtime refuses: before it stored the task, or leaving it as failed.
\* The Executor reports a refusal of what it pulled; the App does not.
RefuseCreate(m) ==
  /\ Startable(m)
  /\ \E last \in {task[m.id].last, "failed"} : task' = [task EXCEPT ![m.id].last = last]
  /\ net' = (net \ {m}) \cup
            (IF m.op = "offer" THEN {Message("ack_rejected", m.id)} ELSE {})
  /\ UNCHANGED <<count, row, run, binding, open>>

StartTurn(i) ==
  /\ task[i].waiting > 0 /\ ~task[i].live
  /\ task' = [task EXCEPT ![i].waiting = @ - 1, ![i].live = TRUE, ![i].seq = @ + 1]
  /\ net' = net \cup {[op |-> "observe", id |-> i, arg |-> "running",
                       seq |-> task[i].seq + 1]}
  /\ UNCHANGED <<count, row, run, binding, open>>

EndTurn(i, outcome) ==
  /\ task[i].live
  /\ task' = [task EXCEPT ![i].live = FALSE, ![i].last = outcome, ![i].seq = @ + 1]
  /\ net' = net \cup {[op |-> "finish", id |-> i, arg |-> outcome,
                       seq |-> task[i].seq + 1]}
  /\ UNCHANGED <<count, row, run, binding, open>>

\* runtime.tasks.cancel removes a queued turn first, without an event.
StopQueued(i) ==
  /\ InFlight("stop", i)
  /\ task[i].waiting > 0
  /\ task' = [task EXCEPT ![i].waiting = @ - 1,
                          ![i].last = IF task[i].live THEN @ ELSE "cancelled"]
  /\ UNCHANGED <<count, row, run, binding, net, open>>

StopLive(i) ==
  /\ InFlight("stop", i)
  /\ task[i].waiting = 0
  /\ EndTurn(i, "cancelled")

\* Mutant of TakeSnapshot: an unconfirmed start is not asked about.
SnapshotConfirmedOnly(i) ==
  /\ Quiet(i)
  /\ row[i].status \in Capacity /\ row[i].observed # "unconfirmed"
  /\ ~InFlight("snapshot", i)
  /\ net' = net \cup {[op |-> "snapshot", id |-> i, arg |-> Report(task[i]), seq |-> 0]}
  /\ UNCHANGED <<count, row, run, binding, task, open>>

\* reconcile_device_executions lists the tasks, and applies the list later.
TakeSnapshot(i) ==
  /\ Quiet(i)
  /\ row[i].status \in Capacity
  /\ ~InFlight("snapshot", i)
  /\ net' = net \cup {[op |-> "snapshot", id |-> i, arg |-> Report(task[i]), seq |-> 0]}
  /\ UNCHANGED <<count, row, run, binding, task, open>>

\* A response, a create, an acknowledgement or a task list may be lost.
Lose(m) ==
  /\ m.op \in {"offer", "create", "ack_ok", "ack_rejected", "snapshot"}
  /\ net' = net \ {m}
  /\ UNCHANGED <<count, row, run, binding, task, open>>

-----------------------------------------------------------------------------
Init ==
  /\ count = 0
  /\ row = [i \in Ids |-> NoRow]
  /\ run = [i \in Ids |-> "open"]
  /\ binding = [issue \in Issue |-> None]
  /\ task = [i \in Ids |-> [created |-> 0, waiting |-> 0, live |-> FALSE,
                            last |-> "none", seq |-> 0]]
  /\ net = {}
  /\ open = {}

\* Requests of users, of the App and of the scan.
RequestOps == {"cancel", "approve", "reject", "preflight", "unknown", "recover"}

BackendStep ==
  \/ \E s \in Scope, status \in Admissions, approval \in BOOLEAN :
       Enqueue(s, status, approval)
  \/ \E i \in Ids : SelectRuntime(i)
  \/ \E i \in Ids, d \in Device : Claim(i, d)
  \/ \E i \in Ids : Redeliver(i)
  \/ \E i \in Ids : RequestStart(i)
  \/ \E i \in Ids : Heartbeat(i)
  \/ \E i \in Ids : LeaseExpires(i)
  \/ \E i \in Ids : SendStop(i)
  \/ \E i \in Ids, op \in RequestOps : Ask(op, i)
  \/ \E m \in net : m.op \in ServiceOps /\ Perform(m)
  \/ \E m \in net : Discard(m)
  \/ \E o \in open : Finish(o)

RuntimeStep ==
  \/ \E m \in net : Create(m)
  \/ \E m \in net : RefuseCreate(m)
  \/ \E i \in Ids : StartTurn(i)
  \/ \E i \in Ids, outcome \in {"completed", "failed"} : EndTurn(i, outcome)
  \/ \E i \in Ids : StopQueued(i)
  \/ \E i \in Ids : StopLive(i)
  \/ \E i \in Ids : TakeSnapshot(i)
  \/ \E m \in net : Lose(m)

Next == BackendStep \/ RuntimeStep

Spec == Init /\ [][Next]_vars

-----------------------------------------------------------------------------
\* Every variable holds a value of its kind.
TypeOK ==
  /\ count \in 0..MaxRows
  /\ row \in [Ids -> Row]
  /\ run \in [Ids -> {"open", "succeeded", "failed", "cancelled"}]
  /\ binding \in [Issue -> Device \cup {None}]
  /\ task \in [Ids -> Task]
  /\ net \subseteq Call
  /\ open \subseteq Open

\* At most one attempt of an execution scope holds capacity: two attempts of
\* one Issue and processor never run at once (claim under the Issue lock).
OneHolderPerScope ==
  \A i, j \in Allocated :
    row[i].scope = row[j].scope /\ row[i].status \in Capacity
      /\ row[j].status \in Capacity => i = j

\* Every attempt of an Issue that reached a device reached the same one,
\* whichever processor asked for it (the runner binding of the first claim).
OneDevicePerIssue ==
  \A i, j \in Allocated :
    IssueOf(i) = IssueOf(j) /\ row[i].device # None /\ row[j].device # None
      => row[i].device = row[j].device

\* A turn that the Runtime executes or has queued belongs to an attempt that
\* holds capacity: nothing runs for an attempt the queue considers free to be
\* claimed again, or over (the Start fence).
TurnHoldsCapacity ==
  \A i \in Ids : task[i].live \/ task[i].waiting > 0 => row[i].status \in Capacity

\* The first terminal outcome of an attempt is its last status.
TerminalIrreversible ==
  [][\A i \in Ids : row[i].status \in Terminal => row'[i].status = row[i].status]_vars

\* Once cancellation has been requested of a started attempt, it stays
\* requested until the attempt is over: no event, acknowledgement, snapshot
\* or lease expiry puts it back to work or in the queue.
CancelSticks ==
  [][\A i \in Ids : row[i].status = "cancel_requested" =>
       row'[i].status \in {"cancel_requested"} \cup Terminal]_vars

\* A started attempt goes back to the queue in this step.
Requeues(i) ==
  row[i].status \in Capacity /\ row[i].fenced /\ row'[i].status = "queued"

\* This step applies a task list that does not have the task of a claim whose
\* start had timed out: one that arrives, or one that a handler had opened.
MissingList(i) == [op |-> "snapshot", id |-> i, arg |-> "missing", seq |-> 0]

FoundMissing(i) ==
  \/ row[i].status = "claimed" /\ row[i].timedOut /\ MissingList(i) \in net \ net'
  \/ \E o \in open \ open' :
       o.call = MissingList(i) /\ o.read.status = "claimed" /\ o.read.timedOut

\* Past the start fence an attempt returns to the queue only when a task list
\* has shown that its start, which had timed out, never arrived; that is, unless
\* recovery_scan or approve wrote what they had read before the fence.
StartedIsNotRequeued ==
  [][\A i \in Ids : Requeues(i) => FoundMissing(i)]_vars

\* A failed attempt is retried by one attempt at most, whoever reports the
\* failure and however often.
OneRetryPerAttempt ==
  \A i, j \in Allocated :
    row[i].retry > 0 /\ row[j].retry > 0 /\ row[i].prev = row[j].prev => i = j

\* The outcome of a started attempt, and the failure that a retry follows, is
\* the one its Runtime task had: a timeout, a lost answer or a stale version
\* never stands in for proof.
OutcomeIsProven ==
  /\ \A i \in Allocated : row[i].fenced /\ row[i].status \in {"completed", "failed"}
                         => task[i].last = row[i].status
  /\ \A i \in Allocated : row[i].retry > 0 =>
         row[row[i].prev].status = "failed" /\ task[row[i].prev].last = "failed"

\* Whatever is late, lost or old, an attempt is completed only when its Runtime
\* task has come to an end: neither a lease nor a list without it stands for one.
OutcomeHasAnEnd ==
  \A i \in Allocated : row[i].status = "completed" => task[i].last \in Terminal

\* An attempt after which its automation run had no other.
IsNewestAttempt(i) == \A j \in Allocated : row[j].run = row[i].run => j <= i

\* When the newest attempt of a run is over, the run shows its outcome.
RunShowsOutcome ==
  \A i \in Allocated : IsNewestAttempt(i) /\ row[i].status \in Terminal
                       => run[row[i].run] = RunOutcome[row[i].status]

(***************************************************************************)
(* Fairness: the scan republishes stops and visits expired leases, leases  *)
(* do expire, a connected device is asked for its tasks and its answers    *)
(* are applied unless lost every time, and the Runtime carries out a stop. *)
(* Nothing obliges a turn to end, a user to act, or an event to arrive.    *)
(***************************************************************************)
Fairness ==
  \A i \in Ids :
    /\ WF_vars(LeaseExpires(i))
    /\ WF_vars(SendStop(i))
    /\ WF_vars(Ask("recover", i))
    /\ WF_vars(StopQueued(i))
    /\ WF_vars(StopLive(i))
    /\ WF_vars(row[i].sync = "stale" /\ TakeSnapshot(i))
    /\ SF_vars(\E m \in net : m.op = "snapshot" /\ m.id = i /\ Serve(m))
    /\ WF_vars(\E o \in open : o.call.id = i /\ Finish(o))

FairSpec == Spec /\ Fairness

\* A requested cancellation ends: a lost stop, event or answer only delays it.
CancelSettles ==
  \A i \in Ids : row[i].status = "cancel_requested" ~> row[i].status \in Terminal

\* An attempt that went stale is resolved by a snapshot: it does not hold its
\* scope in ignorance for ever.
StaleResolves ==
  \A i \in Ids : row[i].status \in Capacity /\ row[i].sync = "stale"
                 ~> ~(row[i].status \in Capacity /\ row[i].sync = "stale")
=============================================================================

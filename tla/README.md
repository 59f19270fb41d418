# Wegent in TLA+

Specifications of the parts of Wegent in which several processes, or one process
and its crashes, change the same state: TLA+ modules translated from the code,
TLC configurations that check them on small instances, and theorems that TLAPS
proves for every value of the constants. Paths below are relative to `src/`, and `service.py`
stands for `backend/app/services/loop_item_executions/service.py`.

## 1. Inventory

| Part | State | Operations | Met by | Hard behaviour |
|---|---|---|---|---|
| **Work execution queue** (`service.py`) | rows of `loop_item_executions`: status, fence, lease, observation, last event sequence, version | enqueue, approve, reject, select a Runtime, claim, fence, cancel, observe, end, retry, recover, reconcile | users, the device, the periodic scan, Runtime events | every handler reads, decides and writes at READ COMMITTED; some writes are compare-and-swaps, some are not |
| **Device pull channel** (`device_pull.py`, `executor/src/local/backend.rs`) | the claim a device has not acknowledged | pull, redeliver, acknowledge, refuse | queue, Executor | the response to a pull, or its acknowledgement, is lost |
| **Runner routing** (`runner_routing.py`) | the device an Issue is bound to | bind at the first claim | claim | two devices pull work of one Issue at once |
| **Periodic scan** (`robot_queue_tasks.py`, `collaboration_revocation.py`) | none of its own | expire leases, repeat stops, list the tasks of a device and apply the list | queue, Executor | the list is old when it is applied |
| **Executor Runtime** (`executor/src/runtime_work/handler/`) | tasks, their queues of turns, sequence numbers of their events | create, start, end, cancel, list | queue | a task id that exists gets one more turn; a refused create may leave a failed task |
| **Knowledge indexing** (`knowledge/index_state_machine.py`, `tasks/knowledge_tasks.py`, `core/distributed_lock.py`) | status and generation of a document, a lock in Redis, chunks in the vector store | enqueue, start, write, finalize, retry, scan, delete | Celery, broker, users | redelivered and superseded tasks; a lock that expires under its holder |
| **Document converter** (`knowledge_doc_converter/`, `conversion_callback.py`) | none that outlives a task | report start, completion, failure | knowledge indexing | a task delivered twice, a start that is never reported |
| **Frontend task sessions** (`packages/chat-core/src/task-state/`, `frontend/src/features/tasks/session/`, `SocketContext.tsx`) | per tab: the machine of a task, its messages, the socket and the set of joined tasks, HTTP reads under way | open, leave, join, apply events and snapshots, check the runtime, reconnect, send | server, socket, the user | events, snapshots and HTTP answers of different age meet in one state; a join may be superseded or lost |
| **Chat execution and streaming**, as far as a tab sees it (`backend/app/api/ws/chat_namespace.py`) | rows of subtasks, the stream cached in Redis, rooms | join handler, send, start, chunk, end of a turn | task sessions | a join handler reads in three places while the turn goes on |
| **Desktop releases** (`wework/electron/src/runtime/release-store.ts`, `release-snapshot.ts`, `bootstrap.ts`, `wework/launcher/src/main.rs`) | files of the release store, slots, snapshots, the user's data | prepare, install, confirm, try, recover, roll back, restore, clean up | application, stable entry, native launcher, the user | the machine stops between any two files; the trial ends while its target confirms |
| Knowledge imports (`external_document_import.py`, `external_refresh_snapshot.py`) | import generation, snapshot of the body being replaced | claim an import, restore | knowledge indexing | a refresh that fails half way |
| Executor manager queue (`executor_manager/services/task_queue_*.py`) | Redis stream, pending entries | add, read, acknowledge, claim, dead letter | containers | a consumer dies between two steps |
| Executor manager heartbeats and sandboxes | liveness keys, sandbox records | beat, reap, reuse | containers | a beat races the reaper |
| Subscriptions (`subscription/`) | background executions with an optimistic version | dispatch, retry, finish | Celery | a completion races a scheduler |
| Chat shell, Rust ports, CRUD, plugins, user interfaces | conversations, projections, pages | | | listed in `PROJECT.json` with the reason they are left out |

What makes the queue correct: one attempt at a time works for an Issue and
processor, on the device the Issue is bound to; no turn runs for an attempt
that the queue considers over or free; an outcome is proven, final and shown by
the automation run; a failure is retried once per attempt within its budget; a
cancellation is never lost and ends; an attempt of unknown fate is resolved.

What makes indexing correct: one task at a time writes a document's chunks; a
document reported as indexed serves its own generation; a superseded or repeated
task changes nothing; a deleted document leaves no chunks; no document stays in
progress for ever.

What makes a task session correct: the text shown of an answer was produced, in
order and once; what is shown is never taken back; a task shown as over is only
reopened by a turn; one join counts at a time, a recovery asked for meanwhile is
kept and the tab comes to rest; a task that is over shows no stream.

What makes a release change correct: a release that runs can read its data;
nothing that the user added is lost; what a rollback needs is there; a rollback
goes where it was offered to go; a target is tried once; a healthy release is
only left at the user's request; an activation that was begun ends.

## 2. Modules

| Module | What it is |
|---|---|
| `ExecutionQueue` | queue, pull channel, Issue binding, scan and the observable part of the Runtime, composed: they share rows and messages |
| `MCExecutionQueue` | its instance for TLC, with the symmetry of devices and processors |
| `ExecutionQueueProofs` | type correctness with the lemmas about each action; scope exclusion, Issue binding, irreversible outcomes |
| `ExecutionQueueOutcomeProofs` | retries and the run they belong to, the start fence, cancellation, and the evidence behind every outcome |
| `KnowledgeIndexing` | one document: its row, the dispatching requests, the converter's callbacks, the index tasks with their lock, the chunks, the scan and the deletion |
| `MCKnowledgeIndexing` | its instance for TLC, with the symmetry of workers |
| `KnowledgeIndexingProofs` | types, the lock, success and its chunks, deletion and its chunks, final outcomes |
| `TaskStateMachine` | the reducers of a tab's machine, as operators from a machine to the next |
| `TaskSession` | the machine composed with the socket, its rooms, the server's join handlers and turns, and the HTTP reads |
| `JoinRecovery` | abstract specification of a recovery: settled, waiting or joining, with a number and a wish |
| `MCTaskSession` | its instance for TLC |
| `TaskSessionProofs` | `TaskSession` implements `JoinRecovery`; where a join is; what reopens a task |
| `TaskSessionTypeProofs` | what the text operators compute for every list of waiting chunks; type correctness |
| `TaskSessionTextProofs` | the text that a tab shows: produced, in order, once, and never taken back |
| `DesktopRelease` | store, application, stable entry, launcher, user and failures |
| `MCDesktopRelease` | its instance for TLC |
| `DesktopReleaseProofs` | types, plans and records of the store; nothing is lost; one trial per activation, health, and the release a rollback goes to |
| `DesktopReleaseDataProofs` | readable data, and what cleanup keeps for a rollback |

The four components share no state: nothing in the queue reads a document, no
index task reads an execution, a tab reads the status of a task but no row of
the queue, and the desktop's release store knows of no task. They are therefore
not composed.

### State and code

`row[i]` is the row with id `i`; ids are handed out in order, as auto-increment
does. `device`, `fenced`, `observed`, `sync`, `lease`, `seq`, `version`,
`retry`, `prev` and `run` are `runtime_device_id`, whether
`start_requested_at` is set, `observed_state`, `sync_state`, whether
`lease_expires_at` is unset, in the future or past, `last_event_seq`,
`version`, `retry_attempt`, `previous_execution_id` and `automation_run_id`;
`timedOut` is `termination_reason = "start_confirmation_timeout"`. `run` holds
`project_automation_runs.status`, every status that is not terminal being
`"open"`. `binding` is `metadata_json.runner_binding` of the Issue. `task[i]` is
the Runtime task `codex-queue-<i>`, `net` what is on its way between backend and
Executor, `open` the handlers that have read and not yet written.

A handler is one guard (`Applies`) and one effect (`Handle`) on the row it
read. `Serve` does both in one transaction's step; `Begin` and `Finish` do them
in two, so that other transactions commit in between. `Overlapping` says for
which handlers. What a handler writes then follows the code: a conditional
UPDATE writes only if status and version are what it read (`SameRead`); a flush
of the ORM writes the columns that changed with respect to its read and no
others (`Column`), whatever the row has become.

Two channels bring work to a device. In `"fenced"` the App asks
`request_runtime_start` for the fence and then sends its create. In `"pull"`
the Executor creates the task it pulled and acknowledges afterwards, and the
acknowledgement sets the fence.

### State and code of knowledge indexing

`doc` is the row of `knowledge_documents`: `status` and `gen` are
`index_status` and `index_generation`; `aged` says that `updated_at` is older
than the timeout of the status; `deleting` that `delete_document` holds the row
lock and has removed the chunks; `emptied` remembers a deletion that removed
them and then gave up. `dispatch` holds generations that a request has committed
and not yet sent, `conversion` and `queue` the Celery messages (sets: two equal
messages are one, and `Redeliver` and `Crash` put a message back whenever they
please). `worker[w]` is where a worker stands in `index_document_task`, `lock`
whether the key of the Redis lock exists, `chunks` the generations with chunks
in the vector store, `abandoned` the index calls without a caller, `alarmed`
that a cleanup has raised `LateIndexCleanupError`.

A transaction that takes the row lock (`with_for_update`) is one step, and
cannot happen while a deletion holds the row (`RowFree`). Everything between two
transactions (the lock in Redis, the removal of old chunks, the index call, the
late cleanup) is a step of its own. The decisions are those of
`decide_index_transition`, one operator per event.

Three constants switch faults on, and name what a property needs:
`LockFaults` (the lock fails open, or lapses under a live holder; it names no
owner), `CallsOutlive` (knowledge_runtime finishes an index call whose caller
timed out or crashed) and `DispatchesOverlap` (a generation is replaced, or ages
past its timeout, before its own request has sent the task).

### State and code of a task session

`m` is the machine of the open task: `status`, `phase`, `task`, `active`, `upd`,
`termUpd`, `pend`, `version` and `chunks` are `status`, `runtimePhase`,
`taskStatus`, `activeStreamSubtaskId`, `lastStatusUpdatedAt`,
`lastTerminalStatusUpdatedAt`, `pendingRecovery`, `recoveryVersion` and
`pendingChunks`; `msgs` holds one message per subtask. The text of a message is
the sequence of the positions of the answer that it shows, so a gap, a repetition
and a reordering differ from the answer. `srv` is the task on the server (rows,
Redis, the clock of `updated_at`), `conn` the socket, `down` and `up` the events
between them, `joins` the join handlers that run, `check` and `detail` the HTTP
reads. A read over HTTP is two steps, what the server reads and what the tab
applies, and a join handler is four: it enters the room, reads the stream, reads
the rows and answers. `Dispatched` is the end of every `dispatch`: a queued
recovery starts once the machine has settled.

### State and code of desktop releases

`disk` is the release store: `active`, `bridge`, `previous`, `last`, `journal`,
`trial`, `attempted`, `failed`, `healthy`, `opened` and `quarantine` are the files
`active`, `bridge`, `previousHealthy`, `last-activation.json`, `activation.json`,
`trial`, `attempted`, `failed`, `healthy`, `data-opened` and
`rolled-back-versions.json`; a marker holds the token of an activation. An
operation is a list of writes in `todo`, in the order of the code, and each write
is one step; that order is what the properties are about. `host` is the
application, `shell` the stable entry before it hands over, `launcher` the
native launcher with the token it tries. `data` holds the live data, the
snapshot of each activation and what each restore put aside.

The program stops between any two writes, but for two places that `Unresumed`
admits: between the release to go back to and the activation to undo in a
confirmation (`"confirm"`), and when a refused request is still on disk
(`"request"`). The run `release` stops the machine everywhere else; section 4 says
what happens there. Two more stops are resumed by nothing, and every run has
them: between the journal and the trial of an activation, and when a rollback
after a failed trial has only its journal left. They leave the activation
`Stranded`: its release is not started again, the release it left stays in use,
and every later installation and rollback is refused. `ActivationEnds` says that
an activation ends or is stranded in this way, and in no other.

### Abstractions

* Knowledge indexing: one document of uploaded content. The snapshot that the
  failure of an external refresh restores, stored chunk texts, summaries and the
  converted attachment are left out. A conversion that is committed and never
  sent is one that never starts. The converter's own lock only decides which of
  its callbacks come, so they come in any order. The scan reads and marks in one
  step: the code repeats the test of the age under the row's lock, and that test
  alone decides.
* Which of the queued rows a pull takes (priority, age, round robin) is a
  choice: the properties hold for every order.
* A collaboration dispatch can also be completed by its manager's decision on the
  Issue (`collaboration_manager_decisions.py`), which ends the attempt although
  its task may still run. That completion is left out: every attempt of the model
  is one of a robot or an assigned agent. `mark_managed_running` and `claim` have
  no callers, and `stall_scan` cancels like anybody else.
* Authority lost by a member is a cancellation like any other, also where
  `request_runtime_start` discovers it.
* `version` only matters while a handler that read it is open, so it is counted
  then and is 0 otherwise. This keeps the state space finite without a bound on
  the life of a row.
* `reconcile_terminal_automation_projections` repairs a run that is open
  although its newest attempt is over. `RunShowsOutcome` holds without it: the
  repair finds nothing to do, and is left out.
* Notes, activities, chat messages and notifications are left out: no decision
  reads them.
* Task session: one task and only the assistant's messages. The statuses
  `PENDING`, `CANCELLING`, `PENDING_CONFIRMATION` and `DELETE`, stopping, blocks
  and cards, the retry of a failed message by the user and a `done` that carries
  an error are left out, as is a join whose read of the subtasks failed. Every
  caller of a check forces it, so there is no debounce. Whether a stream has
  stalled is a choice, and the probe's grace is not timed. The stored text of a
  running row is empty, and the cached text any prefix of what was produced. The
  end of a turn and its `task:status` are sent in one step, after it was stored
  and Redis cleared in another. The acknowledgement of a send is on its way before
  the turn it starts reports its start (`on_chat_send` returns first). The clocks of tab and server agree. The detail
  that `pullRuntime` syncs a second time is the same status again.
* Desktop releases: the path of Windows and Linux. A release is named by its
  version, the data is one entry, a write of a file is atomic (the code renames a
  temporary file), the snapshot and the journal of an activation are one step,
  and `register` is part of the preparation that calls it. The user
  starts nothing while something runs: the launcher holds `supervisor.lock`
  (main.rs:241) and the application a single-instance lock (main.ts). The stable
  entry takes no lock; that two entries work at once is left out. A trial is
  over before a newer release is ready to install. Which versions migrate the
  schema is a constant. `stageUpdateForApp` has no caller in the program.

## 3. Runs

All bounds are constants of the module. One device and one Issue are enough
wherever the property speaks about one row; two are used where it does not.

| Run | Question | Instance |
|---|---|---|
| `queue_scope` | does one scope have one holder, and one Issue one device? | two requests of one scope, two devices, no retries |
| `queue_races` | what survives a cancellation and a progress event whose read and write are separated by any other transaction? | fenced channel, `Prompt`, one request, one retry allowed, three rows so that a second, forbidden retry would fit |
| `queue_pull` | is nothing completed before its task ended, and do cancellations and stale attempts resolve, when messages are lost, late or repeated? | one request, no retry, both channels, every admission, `Prompt = FALSE` |
| `queue_pull_orphan` | violation: a turn without an attempt in the pull channel | |
| `knowledge_indexing` | does one task write at a time, does success stand for the chunks of its generation, does a deletion leave nothing behind? | two workers, two generations, one retry, conversions |
| `knowledge_settles` | is an outcome final, and does the scan alone end every attempt? | one worker, two generations, calls that outlive their callers |
| `task_session` | what may a tab show, and does its recovery implement `JoinRecovery`? | a finished turn and the next one, answers of three chunks, three recoveries, a lost socket, two selections, no refused join |
| `task_session_settles` | does the tab come to rest while the socket holds? | one turn, a check, a refused join, a selection |
| `session_lost_answer` | violation: a join whose socket is lost | one turn, one loss |
| `session_revived` | violation: a snapshot read before the end and applied after it | one turn, no loss |
| `release` | does every stop leave readable data, nothing lost, and an activation that ends or a journal alone? | four versions, two migrations, two activations, two stops, one refusal |
| `release_torn_confirm` | violation: a confirmation that stops between its first two writes | three versions, no power loss: the trial fails |

Why the bounds are enough. A row interacts with another only through its scope,
its Issue and the retry that follows it; two rows show the first two, three the
last. One create per row keeps at most two events of a task, which is what a
reordering needs. One open handler is the smallest number that puts a foreign
commit between a read and a write; the foreign commit is any action. `MaxVersion
= 2` allows two of them.

For a document, two generations are what a supersession needs and two workers
what a race for the lock needs; a third of either meets the same states, because
a generation is only ever compared with the row's. `MaxRetries = 1` is the
value in `core/config.py`. Each conversion is delivered again at most once
(`copy`); index tasks are delivered again without bound.

For a session, two turns are what a late snapshot, status or event of one turn
needs to meet another; an answer of three chunks has all the ways two copies
overlap, lag or leave a gap with something after it. `task_session` refuses no join,
because the two text properties need that (section 4); `task_session_settles`
does. Three recoveries give a superseded join, its successor and a queued one. `task_session_settles` keeps the socket (`MaxDisconnects = 0`),
because `session_lost_answer` shows that the loss alone breaks it.

For releases, a second activation is what a stale marker, an older activation to
undo and a cleanup need. Four versions, the second and the last with a new
schema, give activations with and without a restore in either order. Two stops
interrupt an operation and what resumes it.

`Prompt` (used by `Quiet`) says that a create or a task list that is under way
for a row is over before the next one, or before the lease or the answer of
that row times out: RPC timeouts are 30 seconds, the lease five minutes.
That makes it likely, but nothing in the code enforces it. `queue_races` assumes
it, and `TurnHoldsCapacity` and `OutcomeIsProven` need it: a list that is older
than a slow create reports the task as missing (service.py:4488), and the
attempt is requeued while the create is on its way. `queue_pull` does not assume
it; its `OutcomeHasAnEnd` says what is then still true of an outcome, and its
`StaleResolves` counts an attempt marked `diverged` as resolved.

### Fairness

`FairSpec` of `ExecutionQueue` asks for weak fairness of what the scan and the Executor do without
being asked: leases expire, the scan visits expired leases, repeats stops and
lists the tasks of stale attempts, the Executor carries out a stop it received,
an open handler finishes. Strong fairness is asked of applying a task list,
which may be lost any number of times but not every time. The scan is a periodic
job (`tasks/robot_queue_tasks.py`) and repeats all of this on every pass. Nothing obliges a turn to
end, a user to act, an event to arrive or a create to succeed. `Heartbeat` may
compete with `LeaseExpires` for ever: `CancelSettles` does not depend on the
lease, and a stale attempt is asked about whatever its lease.

`FairSpec` of `KnowledgeIndexing` asks that a request dispatches or dies, that a
deletion ends, that time passes, and that `scan_stale_index_tasks`, a job of
Celery beat, gets the row now and then: strong fairness, because deletions that
abort may hold the row again and again. Nothing obliges the broker to deliver, a
worker to work or the converter to answer: `ActiveSettles` is what is promised
when all of them fail.

`FairSpec` of `TaskSession` asks that the browser runs the callbacks of what has
arrived, that the server's handlers and turns go on, and that a lost socket is
connected again or the request without a network fails. Nothing is asked of the
user, and the socket may be lost and a join refused as often as the bounds allow.

`FairSpec` of `DesktopRelease` asks that a program which runs goes on with its
writes, that a launcher's minute ends, and that the user starts the application
again after a stop. Nothing is asked of readiness: a release may never become
healthy, and `ActivationEnds` holds because the launcher then gives up. The
journals that a stop strands for good are part of its statement.

### Refinement

`JoinRecovery` is what a tab promises of its recovery: at most one join counts,
each has a number larger than any before, a recovery asked for while one is
under way is remembered, and only leaving the task forgets it. `TaskSession`
implements it under the mapping that reads the phase from `status`, the wish from
`pendingRecovery` and the number from `recoveryVersion` (`Recovers`), checked by
`task_session` and proved.

## 4. Findings

Four violation runs show the code departing from what its comments or the
developer guides say; `PROJECT.json` quotes each sentence with its line.

* `cancel()` ends an unfenced claim at once because no process can exist; in the
  pull channel it can.
* `joinTask` resolves only with the acknowledgement of its event. When the socket
  is lost before that, the machine stays in `joining` for ever: every later
  recovery, the reconnect's included, is only queued.
* The answer of a join that read the rows before a turn ended is applied after
  the end: a task that is over shows a stream. The message stays open until
  another snapshot or the next turn.
* A confirmation that stops between `previousHealthy` and `last-activation.json`
  and is then rolled back leaves a rollback that is offered as the running
  release and goes to an older one, without the question about the data.

Further departures were met on small instances while modelling and are described
here without a run of their own:

* A snapshot that reports a failed task retries it although it was being cancelled.
* `fail(requeue=True)` closes the automation run before it inserts the retry,
  and `_set_automation_run_status` does not reopen it.
* A writer that loses the election of the terminal status to another failure
  still inserts its retry.
* `approve()` (and `reject()`) overwrite whatever was committed since their read.
* `recovery_scan` requeues a claim that was fenced since its read
  (service.py:4378): it expects of the row only that it is active. Its docstring
  (:4344) says "Once Start may have been delivered this scan must preserve the
  slot". `queue_races` does not overlap it; `RequeuesAreKnown` (section 5) proves
  that it and `approve` are the only handlers that can do this.
* A stop between the journal and the trial of `activate` (release-store.ts:167),
  or between the last two removals of `finishActivation` after a failed trial
  (:433), leaves a journal that nothing ends: every later installation and
  rollback is refused. The comment at :431 says "Interrupted finalization is
  recoverable."; `release` reaches both and `ActivationEnds` admits them by name
  (`Stranded`).
* A refused join (`enterRecoveryError`) leaves `pendingChunks` as they are. The
  chunks that follow are applied at once, with a gap where the waiting ones belong,
  and the snapshot of the next recovery then puts the old chunks over the newer
  text: it gets shorter, or out of order, until a later snapshot or the end of the
  turn. The proof of `TextIsProduced` led to this case; with `MaxRefusals = 1`,
  `MaxDisconnects = 1`, one check and four chunks TLC finds both text properties
  violated.
* An index task that has waited for the lock in vain marks its generation failed,
  although the holder is normally an earlier delivery of the same task. The
  generation fails while it is being indexed, and its success is then refused.
  The broker redelivers after 300 seconds, an index call may take 600, and the
  one retry waits 15 (the guide still names ten retries).

Limits that the code accepts and no run keeps, each tried once on a small
instance: with `LockFaults` two tasks write and success may stand for a mixture;
with `CallsOutlive` a late write outlives a newer generation or the document;
with `DispatchesOverlap` the unconditional `pending_conversion` overwrites a
final status; `reject()` and the running branch of a snapshot overwrite a
terminal status as `approve()` does. After a stop at `"confirm"` cleanup may also remove the older release or snapshot that the
rollback then asks for. A request is only refused after such a stop; if the
program stops again before it has removed it (`"request"`), the next start rolls
back with it, or fails to when its releases are gone.
The answer of a superseded join makes the tab leave the room of the newer one,
and a check that runs swallows the one a reconnect asks for: events are then
missed until the next check.

## 5. Proofs

`ExecutionQueueProofs` proves `TypeCorrect`: `Spec => []TypeOK`. `TypeOK` is not
inductive alone. `IInv` adds that rows beyond `count` are unallocated and every
`prev` and `run` points to an earlier row (`RowsInOrder`), that what an open
handler kept of its read is a value the handler's guard accepts (`ReadsFit`),
and that the turns and events of a task stay within the creates it accepted
(`TurnBudget`): without the last one, sequence numbers have no bound. There is
one lemma per action, and one per effect that several handlers share
(`Terminate`, `Write`, `FailAndRetry`).

The same module proves, on top of it,

* `OneHolder`: `Spec => []OneHolderPerScope`, and `TerminalStays`:
  `Spec => TerminalIrreversible`, both under `NoBlindOverlap`, the assumption
  that `approve`, `reject` and `snapshot`, which write a status without a
  compare-and-swap, are not separated from their write. It says that the
  compare-and-swaps are enough by themselves and isolates what the other
  handlers owe; section 4 names what each of the three does without it. `ack_ok`
  and `recover` may overlap: the first leaves the status alone, the second
  returns a row to the queue only while it is active;
* `OneDevice`: `Spec => []OneDevicePerIssue` with no such assumption. The
  invariant is that a row's device is the binding of its Issue, and no handler
  but the claim, which locks the Issue, writes either.

The argument for `OneHolder` is that a row enters `Capacity` only by a claim,
which finds its scope free, or was in `Capacity` when its handler read it and,
its version being unchanged, still is (`Fresh`).

`ExecutionQueueOutcomeProofs` proves eight more, most of them from an invariant
that says more than the property. What a call may do to a row is stated once, in
a table of effects (`Effect`), and every theorem is an argument over that table
and the steps of the Runtime.

* `RetriedOnce`: `Spec => []OneRetryPerAttempt`, and `RunFollowsAttempts`:
  `Spec => []RunShowsOutcome`, under `NoBlindOverlap`. Neither is inductive:
  that a second report of a failure finds the row terminal does not keep the
  retry of an *older* attempt from being inserted. `Chained` adds that a retry
  follows an attempt that failed and that of the attempts of one run only the
  newest is not over, so the attempt that fails is the newest;
* `RequeuesAreKnown`, with every overlap allowed: a fenced attempt goes back to
  the queue either because a task list shows that its start, which had timed out,
  never arrived (`FoundMissing`), or because `recover` or `approve` had read its
  row before the fence (`DecidedBeforeFence`). The second is the departure of
  section 4;
* `FenceHolds`: `Spec => StartedIsNotRequeued`, if no step, a fence above
  all, falls between the read and the write of `recover` or `approve` (`NoFenceBetween`). The code does
  not exclude that, and the property fails with it. Snapshots may overlap: the
  version they compare is enough;
* `OutcomesHaveAnEnd`: `OutcomeHasAnEnd`, and the same of the attempt that a
  retry follows, under `NoBlindOverlap` only: on both channels, and with creates
  and task lists of any age. An end of a task is never taken back, so every
  message that tells of one stays true (`Ending`), and no other message
  completes or retries an attempt;
* `CancellationSticks`: `Spec => CancelSticks`, if only the handlers with a
  compare-and-swap overlap (`OnlyCasOverlaps`). `ReadsCurrent` says what the
  version is for: a row that holds capacity and has the version a handler read
  has the status and the fence that it read;
* `OutcomesAreProven`: `Spec => []OutcomeIsProven`, and `NothingRunsUnheld`:
  `Spec => []TurnHoldsCapacity`, under `Disciplined`: `Prompt` (a timeout outlasts
  the create and the list it guards, section 3), the fenced channel only, and
  `OnlyCasOverlaps`, which is the configuration of `queue_races`. They say
  nothing of a late create (service.py:4488): with one both fail, and
  `OutcomesHaveAnEnd` is what remains. The invariant `Proven` relates three
  places. A task is created
  at most once, and only for a fenced attempt that holds capacity (`StartedOnce`).
  Whatever is in flight is true of its task when it arrives: an end was the
  task's end, a list saw no create under way and shows the task as it still is
  (`Says`). The status of a started attempt is then the task's. Each part of the
  assumption is needed: `queue_pull_orphan` breaks `TurnHoldsCapacity` in the
  pull channel, a list older than a slow create breaks it without `Prompt`, and
  section 4 says what the writes without a compare-and-swap do.

`KnowledgeIndexingProofs` proves, for every number of workers and generations,

* `KnowledgeTyping`: `TypeOK`, inductive as it stands, under every fault;
* `KnowledgeOneWriter`, if not `LockFaults`. `Locking` says that a task inside
  the lock holds it, that a holder's key exists and that two holders are one:
  `OneWriter` alone does not say why the key cannot vanish;
* `KnowledgeServesItsGeneration`, if neither `LockFaults` nor `CallsOutlive`.
  `Serving` says what the writer of the row's generation has in the store at
  each stage, and that after a success nobody else is about to write;
* `KnowledgeDeletedLeavesNoChunks`, under the same assumptions. `Owed` says
  that chunks of a deleted document always have a debtor: a task past its write
  that will find the row gone, or a message that brings one back;
* `KnowledgeOutcomeIsFinal`, if not `DispatchesOverlap`, whatever the lock and
  the calls do. `Issued` says that a generation whose task is unsent is the
  row's own, and that no message exists for it, so that the unconditional
  `pending_conversion` cannot meet a final status.

The constants are switches, so each assumption of a theorem is one fault the
code does not defend against, and section 4 says what happens under it.

`TaskSessionProofs` proves, for every number of turns and chunks and every bound,

* `RecoveryIsImplemented`: `Spec => Recovers`, the refinement. Each action maps
  to a step of `JoinRecovery` or to none; the lemmas say for every reducer what
  it may do to status, wish and number;
* `JoiningWaits`: `Spec => []JoiningIsUnderWay`. `Way` follows the join that
  counts through its three places, called, in its handler and answered; only the
  answer with its own number leaves `joining`, so the answer of an older join
  cannot, and only a loss of the socket after it was sent removes it;
* `OverStaysOver`: `Spec => OverIsReopenedByATurn`. `Ends` says that every
  status under way, in an event, a check or a detail, and the one that a live
  stream defers, is that of a task that runs or is over: the reducers then drop
  each one that would reopen it.

`TaskSessionTypeProofs` proves `TypesKeep`: `Spec => []TypeOK`. `Typed` gives the
shape of every event, call, handler and read under way, because the machine takes
its fields from them. `TaskSessionTextProofs` then proves

* `ProducedIsShown`: `Spec => [](used.refusals = 0 => TextIsProduced)`, and
* `TextOnlyGrows`: `Spec /\ [](used.refusals = 0) => TextNeverShrinks`,

with no assumption on a constant: `used.refusals` counts the joins the server
refused, and section 4 says what a refused one does. Neither property is
inductive, because whether a chunk may be put at its place depends on everything
that is still under way. The invariant `Inv` says

* what was sent was produced, in `down`, in the waiting chunks, in a snapshot and
  in what a join handler has read (`AllSent`), and the cached and stored texts
  start with the first chunk;
* the reply, the start and the chunks of the turns are on their way in this order,
  the waiting chunks before those in `down` (`Ordered`); a message that shows
  nothing yet gets nothing before the start of its turn, which empties it
  (`Silent`);
* chunks wait for a reason: the machine is idle or joining, their message is no
  longer streaming, or their turn or their connection is past, so that nothing
  more will come behind them (`Held`);
* a text rises, has at most what was produced, and either has no gap or comes
  before every chunk that is still to come (`Shown`). Without the last part a
  chunk, or a snapshot followed by the waiting chunks, could cut the text short.

What `Merged` computes for every list of waiting chunks is an induction on its
length. It is a recursive function and its induction is made by the least
counterexample (`LeastNumber`, from `WFMin`), as the library's induction theorems
cannot be used here; each step then says what one merge does to a rising text.

`DesktopReleaseProofs` proves, for every number of
versions, activations, stops and refusals and every choice of migrations,

* `NothingIsEverLost`: `Spec => []NothingIsLost`. `Base` gathers types, who may
  run at the same time, the plans (`todo` is always a list in which each write is
  followed by one that may follow it) and the records of the store. `Restored`
  says that between putting the data aside and marking the copy nothing runs that
  could open the data, and the journal of that token makes the entry go on.
  `Kept` then says what was put aside contains what the copy may overwrite;
* `TargetIsTriedOnce`: `Spec => TriedOnce`, and `HealthyIsKept`:
  `Spec => HealthyStays`, from `Course`: only the pending activation is on trial,
  without a trial the active release is the one to go back to unless the target
  is healthy, a target that was started has its attempt on disk, and a release
  is returned only at the user's request or while the target is not healthy;
* `TypesHold`: `Spec => []TypeOK`, from the types in `Base`;
* `RollbackGoesAsOffered`: `Spec => RollbackIsAsOffered` if a confirmation does
  not stop between its first two writes (`"confirm" \notin Unresumed`).
  `release_torn_confirm` shows that the assumption is needed.

`DesktopReleaseDataProofs` continues from there:

* `DataStaysReadable`: `Spec => []DataIsReadable`, wherever the program may stop
  for good. The schema of the live data is compared with the release that the
  pointer selects (`Fits`), and the pointer moves in a different write than the
  data. So one has to know where the pointer will be when the operation is over
  (`Homes`: the release at home is one of the two of the last activation), that
  an activation that was restored is never confirmed and ends at the release it
  came from (`Undone`), and that a snapshot can be read by that release and an
  activation goes up (`Sounds`, `Newer`);
* `RollbackStaysPossible`: `Spec => []RollbackIsPossible`, unless the program may
  stop for good at `"confirm"` or `"request"`. `Stored` says that every release
  the pointers and a pending journal name has its slot, and every activation
  that restores its snapshot. TLC finds the property violated with either stop
  allowed: after a torn confirmation cleanup removes what the rollback asks for,
  and a refused request that stays names releases that are gone.

Only model-checked are the liveness properties, which the prover does not reach:
`CancelSettles`, `StaleResolves`, `ActiveSettles`, `Settles`,
`QueuedRecoveryStarts` and `ActivationEnds`. Every invariant and every action
property that a passing run checks is stated by a theorem, under the
assumptions named above.

## 6. Plan

1. `ExecutionQueue` and its proofs (here).
2. `KnowledgeIndexing` and its proofs (here). Later: the snapshot of an external
   refresh and import generations, as an extension of `MarkFailed` and `Succeed`.
3. `TaskSession` with `JoinRecovery` and its proofs (here). Later: stopping a
   turn (`CANCELLING`), the retry of a failed message.
4. `DesktopRelease` and its proofs (here). Later: the exchange of the bundle on
   macOS, which replaces two directories instead of one pointer.
5. Proofs: `OutcomeIsProven` for the pull channel, whose acknowledgements are
   evidence of another kind; how far the text properties hold after a refused
   join.
6. Executor manager: the Redis stream queue with consumers that crash, the
   heartbeat keys and the reaper. Subscriptions: the validated transitions with
   their optimistic version.

### Not modelled

The modules cover a small share of the repository by lines, and will stay so:
of some 750,000 lines of TypeScript nearly all are pages, panels, editors and
their API clients, with state of one component that one thread of the browser
renders. Modelling those would restate their guards. The logic in which processes,
messages and crashes meet is in the Python backend, in the Rust launcher and
executor, and in the few TypeScript modules named in section 1.

Not planned: the user interfaces, CRUD services, plugins and model calls, which
hold no state that two processes race for; the Rust port of the backend, which
repeats the Python transitions; generated and vendored code. `PROJECT.json`
gives the reason for each.

## 7. Running

    tlc -workers 2 -config ExecutionQueueRaces.cfg MCExecutionQueue.tla
    tlc -workers 2 -config KnowledgeIndexing.cfg MCKnowledgeIndexing.tla
    tlc -workers 2 -config TaskSession.cfg MCTaskSession.tla
    tlc -workers 2 -config DesktopRelease.cfg MCDesktopRelease.tla
    tlapm ExecutionQueueProofs.tla
    tlapm ExecutionQueueOutcomeProofs.tla
    tlapm KnowledgeIndexingProofs.tla
    tlapm TaskSessionProofs.tla
    tlapm TaskSessionTypeProofs.tla
    tlapm TaskSessionTextProofs.tla
    tlapm DesktopReleaseProofs.tla
    tlapm DesktopReleaseDataProofs.tla

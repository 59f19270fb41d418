--------------------------- MODULE KnowledgeIndexing ---------------------------
(***************************************************************************)
(* Indexing of one knowledge document.  The row knowledge_documents holds  *)
(* a status and a generation; Celery delivers index tasks at least once;   *)
(* a Redis lock per document keeps two workers apart; knowledge_runtime    *)
(* removes and writes the chunks that retrieval reads.  Users enqueue a    *)
(* new generation, replace a running one, or delete the document at any    *)
(* time, and a periodic scan fails what has been active for too long.      *)
(*                                                                         *)
(* Transactions that lock the row are one step.  Calls to knowledge_       *)
(* runtime, the lock, the queue and the row are steps of their own.        *)
(***************************************************************************)
EXTENDS Naturals

CONSTANTS
  Worker,            \* Celery worker processes
  Conversion,        \* TRUE: a document may have to be converted first
  LockFaults,        \* TRUE: the lock may lapse under a live holder, and an
                     \*   error of Redis lets a worker pass
  CallsOutlive,      \* TRUE: knowledge_runtime goes on with an index call
                     \*   whose caller timed out or crashed
  DispatchesOverlap, \* TRUE: a generation may be aged or replaced before the
                     \*   request that created it has sent its task
  MaxGeneration,     \* bound: generations of the document
  MaxRetries         \* KNOWLEDGE_INDEX_LOCK_MAX_RETRIES

ASSUME IndexingAssumption ==
  /\ MaxGeneration \in Nat \ {0} /\ MaxRetries \in Nat
  /\ {Conversion, LockFaults, CallsOutlive, DispatchesOverlap} \subseteq BOOLEAN

Generation == 1..MaxGeneration
Active == {"queued", "pending_conversion", "converting", "indexing"}
Final  == {"success", "failed"}

Document == [exists   : BOOLEAN,
             deleting : BOOLEAN,   \* a deletion holds the row and has removed the chunks
             emptied  : BOOLEAN,   \* a deletion that gave up had removed the chunks
             status   : {"not_indexed"} \cup Active \cup Final,
             gen      : 0..MaxGeneration,
             aged     : BOOLEAN]   \* updated_at is older than the status allows

Message == [gen : Generation, retries : 0..MaxRetries]

\* Where a worker is in index_document_task.
Stage == {"idle", "waited", "locked", "started", "writing", "written",
          "skipped", "raised", "cleanup"}
Process == [stage : Stage, msg : Message, holds : BOOLEAN]

VARIABLES
  doc,        \* the row
  dispatch,   \* generations committed whose task is not yet sent
  conversion, \* conversion tasks
  queue,      \* index tasks in the broker
  worker,     \* the task each worker executes
  lock,       \* the lock's key exists; its value names no owner
  chunks,     \* generations with chunks in the vector store
  abandoned,  \* index calls without a caller
  alarmed     \* a cleanup gave up with LateIndexCleanupError

vars == <<doc, dispatch, conversion, queue, worker, lock, chunks, abandoned, alarmed>>

Idle == [stage |-> "idle", msg |-> [gen |-> 1, retries |-> 0], holds |-> FALSE]
At(w, stage) == worker[w].stage = stage
Goto(w, stage) == worker' = [worker EXCEPT ![w].stage = stage]

\* A transition locks the row first, and waits for a deletion under way.
RowFree == ~doc.deleting

\* A changed status renews updated_at; an unchanged one writes nothing.
WithStatus(status) ==
  [doc EXCEPT !.status = status, !.aged = IF doc.status = status THEN @ ELSE FALSE]

(***************************************************************************)
(* The decisions of decide_index_transition.                               *)
(***************************************************************************)
Owns(g) == doc.exists /\ doc.gen = g

EnqueueAccepted(replace, again) ==
  /\ doc.exists
  /\ doc.status \in Active => replace \/ doc.aged
  /\ doc.status = "success" => again

StartAccepted(g) == Owns(g) /\ doc.status \in Active

\* Mutant of SuccessAccepted: whoever owns the generation may finish it.
SuccessAnytime(g) == Owns(g)

SuccessAccepted(g) == Owns(g) /\ doc.status \in {"queued", "indexing"}

FailureAccepted(g) == Owns(g) /\ doc.status \in Active

\* mark_document_index_failed for a generation that may no longer own the row.
MarkFailed(g) ==
  /\ RowFree
  /\ doc' = IF FailureAccepted(g) THEN WithStatus("failed") ELSE doc

(***************************************************************************)
(* Requests: a new generation, then the task it is dispatched as.          *)
(***************************************************************************)
Enqueue(replace, again) ==
  /\ RowFree
  /\ EnqueueAccepted(replace, again)
  /\ doc.gen < MaxGeneration
  /\ DispatchesOverlap \/ dispatch = {}
  /\ doc' = [WithStatus("queued") EXCEPT !.gen = @ + 1, !.aged = FALSE]
  /\ dispatch' = dispatch \cup {[gen |-> doc.gen + 1, converted |-> FALSE]}
  /\ UNCHANGED <<conversion, queue, worker, lock, chunks, abandoned, alarmed>>

DispatchIndexing(d) ==
  /\ dispatch' = dispatch \ {d}
  /\ queue' = queue \cup {[gen |-> d.gen, retries |-> 0]}
  /\ UNCHANGED <<doc, conversion, worker, lock, chunks, abandoned, alarmed>>

\* The status is overwritten through the ORM: no generation is compared.
DispatchConversion(d) ==
  /\ Conversion /\ ~d.converted
  /\ RowFree /\ doc.exists
  /\ dispatch' = dispatch \ {d}
  /\ doc' = WithStatus("pending_conversion")
  /\ conversion' = conversion \cup {[gen |-> d.gen, begun |-> FALSE, copy |-> FALSE]}
  /\ UNCHANGED <<queue, worker, lock, chunks, abandoned, alarmed>>

DispatchFails(d) ==
  /\ dispatch' = dispatch \ {d}
  /\ MarkFailed(d.gen)
  /\ UNCHANGED <<conversion, queue, worker, lock, chunks, abandoned, alarmed>>

\* The request dies between its commit and its dispatch.
DispatchLost(d) ==
  /\ dispatch' = dispatch \ {d}
  /\ UNCHANGED <<doc, conversion, queue, worker, lock, chunks, abandoned, alarmed>>

(***************************************************************************)
(* Callbacks of the converter.  Its task, too, may be delivered again.     *)
(***************************************************************************)
\* A rejected start ends the task.
ConversionStarted(c) ==
  /\ RowFree /\ ~c.begun
  /\ IF Owns(c.gen) /\ doc.status \in {"queued", "pending_conversion"}
     THEN /\ doc' = WithStatus("converting")
          /\ conversion' = (conversion \ {c}) \cup {[c EXCEPT !.begun = TRUE]}
     ELSE /\ conversion' = conversion \ {c}
          /\ UNCHANGED doc
  /\ UNCHANGED <<dispatch, queue, worker, lock, chunks, abandoned, alarmed>>

\* The start could not be reported: the converter goes on.
ConversionUnreported(c) ==
  /\ ~c.begun
  /\ conversion' = (conversion \ {c}) \cup {[c EXCEPT !.begun = TRUE]}
  /\ UNCHANGED <<doc, dispatch, queue, worker, lock, chunks, abandoned, alarmed>>

ConversionCompleted(c) ==
  /\ RowFree /\ c.begun
  /\ conversion' = conversion \ {c}
  /\ IF Owns(c.gen) /\ doc.status \in {"converting", "pending_conversion"}
     THEN /\ doc' = WithStatus("queued")
          /\ dispatch' = dispatch \cup {[gen |-> c.gen, converted |-> TRUE]}
     ELSE UNCHANGED <<doc, dispatch>>
  /\ UNCHANGED <<queue, worker, lock, chunks, abandoned, alarmed>>

\* A copy that waited for the converter's lock in vain reports a failure too.
ConversionFailed(c) ==
  /\ conversion' = conversion \ {c}
  /\ MarkFailed(c.gen)
  /\ UNCHANGED <<dispatch, queue, worker, lock, chunks, abandoned, alarmed>>

\* Delivered again, after a crash or its visibility timeout, while the first
\* delivery may still go on: once at most, a bound of the model.
ConversionRedelivered(c) ==
  /\ c.begun /\ ~c.copy
  /\ conversion' = (conversion \ {c}) \cup {[c EXCEPT !.begun = b, !.copy = TRUE] : b \in BOOLEAN}
  /\ UNCHANGED <<doc, dispatch, queue, worker, lock, chunks, abandoned, alarmed>>

(***************************************************************************)
(* index_document_task.                                                    *)
(***************************************************************************)
\* Mutant of Release: the key is deleted also by a task that did not get it.
ReleaseAnyway(w) == lock' = FALSE

\* Leaving the lock's context deletes the key, whoever set it.
Release(w) == lock' = (lock /\ ~worker[w].holds)

Leave(w) ==
  /\ Release(w)
  /\ worker' = [worker EXCEPT ![w] = Idle]

Acquire(w, m) ==
  /\ At(w, "idle") /\ m \in queue
  /\ ~lock \/ LockFaults
  /\ lock' = TRUE
  /\ queue' = queue \ {m}
  /\ worker' = [worker EXCEPT ![w] = [stage |-> "locked", msg |-> m, holds |-> TRUE]]
  /\ UNCHANGED <<doc, dispatch, conversion, chunks, abandoned, alarmed>>

\* Mutant of WaitForLock: one retry too many.
WaitForLockOnceMore(w, m) ==
  /\ At(w, "idle") /\ m \in queue
  /\ lock
  /\ queue' = (queue \ {m}) \cup
       (IF m.retries <= MaxRetries THEN {[m EXCEPT !.retries = @ + 1]} ELSE {})
  /\ UNCHANGED <<doc, dispatch, conversion, worker, lock, chunks, abandoned, alarmed>>

\* The lock is held: a retry with a delay, while the budget lasts.
WaitForLock(w, m) ==
  /\ At(w, "idle") /\ m \in queue
  /\ lock
  /\ IF m.retries < MaxRetries
     THEN /\ queue' = (queue \ {m}) \cup {[m EXCEPT !.retries = @ + 1]}
          /\ UNCHANGED worker
     ELSE /\ queue' = queue \ {m}
          /\ worker' = [worker EXCEPT ![w] =
                          [stage |-> "waited", msg |-> m, holds |-> FALSE]]
  /\ UNCHANGED <<doc, dispatch, conversion, lock, chunks, abandoned, alarmed>>

\* Without the lock for the last time, the task fails its generation.
GiveUpWaiting(w) ==
  /\ At(w, "waited")
  /\ MarkFailed(worker[w].msg.gen)
  /\ Goto(w, "cleanup")
  /\ UNCHANGED <<dispatch, conversion, queue, lock, chunks, abandoned, alarmed>>

Start(w) ==
  /\ At(w, "locked") /\ RowFree
  /\ IF StartAccepted(worker[w].msg.gen)
     THEN doc' = WithStatus("indexing") /\ Goto(w, "started") /\ UNCHANGED lock
     ELSE /\ IF doc.exists THEN Leave(w) ELSE Goto(w, "cleanup") /\ UNCHANGED lock
          /\ UNCHANGED doc
  /\ UNCHANGED <<dispatch, conversion, queue, chunks, abandoned, alarmed>>

\* A file that must not be indexed: nothing is removed nor written.
SkipFile(w) ==
  /\ At(w, "started")
  /\ Goto(w, "skipped")
  /\ UNCHANGED <<doc, dispatch, conversion, queue, lock, chunks, abandoned, alarmed>>

\* Mutant of RemoveOld: a removal that failed is only logged.
RemoveOldOrLog(w) ==
  /\ At(w, "started")
  /\ Goto(w, "writing")
  /\ chunks' \in {chunks, {}}
  /\ doc' = [doc EXCEPT !.emptied = FALSE]
  /\ UNCHANGED <<dispatch, conversion, queue, lock, abandoned, alarmed>>

\* The chunks of earlier generations go before the new ones are written.
RemoveOld(w) ==
  /\ At(w, "started")
  /\ Goto(w, "writing")
  /\ chunks' = {}
  /\ doc' = [doc EXCEPT !.emptied = FALSE]
  /\ UNCHANGED <<dispatch, conversion, queue, lock, abandoned, alarmed>>

Write(w) ==
  /\ At(w, "writing")
  /\ Goto(w, "written")
  /\ chunks' = chunks \cup {worker[w].msg.gen}
  /\ UNCHANGED <<doc, dispatch, conversion, queue, lock, abandoned, alarmed>>

\* The removal or the write raises, perhaps after it has taken effect.
Raise(w) ==
  /\ \/ At(w, "started") /\ chunks' \in {chunks, {}}
     \/ At(w, "writing") /\ chunks' \in {chunks, chunks \cup {worker[w].msg.gen}}
  /\ Goto(w, "raised")
  /\ UNCHANGED <<doc, dispatch, conversion, queue, lock, abandoned, alarmed>>

\* The call times out in the worker and goes on in knowledge_runtime.
TimeOut(w) ==
  /\ CallsOutlive /\ At(w, "writing")
  /\ Goto(w, "raised")
  /\ abandoned' = abandoned \cup {worker[w].msg.gen}
  /\ UNCHANGED <<doc, dispatch, conversion, queue, lock, chunks, alarmed>>

Succeed(w) ==
  /\ At(w, "written") /\ RowFree
  /\ IF SuccessAccepted(worker[w].msg.gen)
     THEN doc' = WithStatus("success") /\ Leave(w)
     ELSE Goto(w, "cleanup") /\ UNCHANGED <<doc, lock>>
  /\ UNCHANGED <<dispatch, conversion, queue, chunks, abandoned, alarmed>>

\* A skipped file left no chunks: nothing to clean up.
FailSkipped(w) ==
  /\ At(w, "skipped")
  /\ MarkFailed(worker[w].msg.gen)
  /\ Leave(w)
  /\ UNCHANGED <<dispatch, conversion, queue, chunks, abandoned, alarmed>>

\* Mutant of FailRaised: a failure never cleans up.
FailAndLeave(w) ==
  /\ At(w, "raised")
  /\ MarkFailed(worker[w].msg.gen)
  /\ Leave(w)
  /\ UNCHANGED <<dispatch, conversion, queue, chunks, abandoned, alarmed>>

FailRaised(w) ==
  /\ At(w, "raised")
  /\ MarkFailed(worker[w].msg.gen)
  /\ IF FailureAccepted(worker[w].msg.gen)
     THEN Leave(w)
     ELSE Goto(w, "cleanup") /\ UNCHANGED lock
  /\ UNCHANGED <<dispatch, conversion, queue, chunks, abandoned, alarmed>>

\* _cleanup_late_index_or_retry: only a deleted document is cleaned up after.
CleanUp(w) ==
  /\ At(w, "cleanup")
  /\ chunks' = IF doc.exists THEN chunks ELSE {}
  /\ Leave(w)
  /\ UNCHANGED <<doc, dispatch, conversion, queue, abandoned, alarmed>>

CleanUpFails(w) ==
  /\ At(w, "cleanup") /\ ~doc.exists
  /\ IF worker[w].msg.retries < MaxRetries
     THEN /\ queue' = queue \cup {[worker[w].msg EXCEPT !.retries = @ + 1]}
          /\ UNCHANGED alarmed
     ELSE alarmed' = TRUE /\ UNCHANGED queue
  /\ Leave(w)
  /\ UNCHANGED <<doc, dispatch, conversion, chunks, abandoned>>

(***************************************************************************)
(* The surroundings: broker, lock, crashes, late writes, scan, deletion.   *)
(***************************************************************************)
\* Acknowledged late: a task that outlasts the visibility timeout is
\* delivered again while it runs.
Redeliver(w) ==
  /\ ~At(w, "idle")
  /\ queue' = queue \cup {worker[w].msg}
  /\ UNCHANGED <<doc, dispatch, conversion, worker, lock, chunks, abandoned, alarmed>>

\* The key stays behind, and the task is delivered again.
Crash(w) ==
  /\ ~At(w, "idle")
  /\ queue' = queue \cup {worker[w].msg}
  /\ worker' = [worker EXCEPT ![w] = Idle]
  /\ abandoned' = IF CallsOutlive /\ At(w, "writing")
                  THEN abandoned \cup {worker[w].msg.gen} ELSE abandoned
  /\ UNCHANGED <<doc, dispatch, conversion, lock, chunks, alarmed>>

\* The watchdog of a live holder renews the key.
LockLapses ==
  /\ lock
  /\ LockFaults \/ \A w \in Worker : ~worker[w].holds
  /\ lock' = FALSE
  /\ UNCHANGED <<doc, dispatch, conversion, queue, worker, chunks, abandoned, alarmed>>

LateWrite(g) ==
  /\ g \in abandoned
  /\ abandoned' = abandoned \ {g}
  /\ chunks' \in {chunks, chunks \cup {g}}
  /\ UNCHANGED <<doc, dispatch, conversion, queue, worker, lock, alarmed>>

Age ==
  /\ doc.status \in Active /\ ~doc.aged
  /\ DispatchesOverlap \/ dispatch = {}
  /\ doc' = [doc EXCEPT !.aged = TRUE]
  /\ UNCHANGED <<dispatch, conversion, queue, worker, lock, chunks, abandoned, alarmed>>

\* Mutant of ScanStale: a conversion has its own timeout.
ScanStaleIndexing ==
  /\ RowFree /\ doc.exists
  /\ doc.status \in {"queued", "indexing"} /\ doc.aged
  /\ doc' = WithStatus("failed")
  /\ UNCHANGED <<dispatch, conversion, queue, worker, lock, chunks, abandoned, alarmed>>

\* scan_stale_index_tasks: the age is looked at again under the row's lock.
ScanStale ==
  /\ RowFree /\ doc.exists
  /\ doc.status \in Active /\ doc.aged
  /\ doc' = WithStatus("failed")
  /\ UNCHANGED <<dispatch, conversion, queue, worker, lock, chunks, abandoned, alarmed>>

\* delete_document locks the row, removes the chunks, then the row.
DeleteChunks ==
  /\ doc.exists /\ RowFree
  /\ doc' = [doc EXCEPT !.deleting = TRUE]
  /\ chunks' = {}
  /\ UNCHANGED <<dispatch, conversion, queue, worker, lock, abandoned, alarmed>>

DeleteRow ==
  /\ doc.deleting
  /\ doc' = [doc EXCEPT !.deleting = FALSE, !.exists = FALSE]
  /\ UNCHANGED <<dispatch, conversion, queue, worker, lock, chunks, abandoned, alarmed>>

\* The removal was reported as failed, or the transaction rolls back.
DeleteAborts ==
  /\ doc.deleting
  /\ doc' = [doc EXCEPT !.deleting = FALSE, !.emptied = TRUE]
  /\ UNCHANGED <<dispatch, conversion, queue, worker, lock, chunks, abandoned, alarmed>>

-----------------------------------------------------------------------------
Init ==
  /\ doc = [exists |-> TRUE, deleting |-> FALSE, emptied |-> FALSE,
            status |-> "not_indexed", gen |-> 0, aged |-> FALSE]
  /\ dispatch = {} /\ conversion = {} /\ queue = {}
  /\ worker = [w \in Worker |-> Idle]
  /\ lock = FALSE
  /\ chunks = {} /\ abandoned = {} /\ alarmed = FALSE

Request ==
  \/ \E replace, again \in BOOLEAN : Enqueue(replace, again)
  \/ \E d \in dispatch : DispatchIndexing(d)
  \/ \E d \in dispatch : DispatchConversion(d)
  \/ \E d \in dispatch : DispatchFails(d)
  \/ \E d \in dispatch : DispatchLost(d)
  \/ DeleteChunks \/ DeleteRow \/ DeleteAborts

Converter ==
  \/ \E c \in conversion : ConversionStarted(c)
  \/ \E c \in conversion : ConversionUnreported(c)
  \/ \E c \in conversion : ConversionCompleted(c)
  \/ \E c \in conversion : ConversionFailed(c)
  \/ \E c \in conversion : ConversionRedelivered(c)

IndexTask(w) ==
  \/ \E m \in queue : Acquire(w, m)
  \/ \E m \in queue : WaitForLock(w, m)
  \/ GiveUpWaiting(w) \/ Start(w) \/ SkipFile(w)
  \/ RemoveOld(w) \/ Write(w) \/ Raise(w) \/ TimeOut(w)
  \/ Succeed(w) \/ FailSkipped(w) \/ FailRaised(w)
  \/ CleanUp(w) \/ CleanUpFails(w)

Surroundings ==
  \/ \E w \in Worker : Redeliver(w)
  \/ \E w \in Worker : Crash(w)
  \/ \E g \in abandoned : LateWrite(g)
  \/ LockLapses \/ Age \/ ScanStale

Next == Request \/ Converter \/ (\E w \in Worker : IndexTask(w)) \/ Surroundings

Spec == Init /\ [][Next]_vars

(***************************************************************************)
(* Fairness: requests dispatch or die, deletions end, time passes, and the *)
(* scan runs every five minutes, now and then while no deletion holds the  *)
(* row.  Neither the broker, a worker nor the converter has to do anything.*)
(***************************************************************************)
Fairness ==
  /\ WF_vars(\E d \in dispatch : DispatchIndexing(d))
  /\ WF_vars(DeleteRow \/ DeleteAborts)
  /\ WF_vars(Age)
  /\ SF_vars(ScanStale)

FairSpec == Spec /\ Fairness

-----------------------------------------------------------------------------
\* Every variable holds a value of its kind.
TypeOK ==
  /\ doc \in Document
  /\ dispatch \subseteq [gen : Generation, converted : BOOLEAN]
  /\ conversion \subseteq [gen : Generation, begun : BOOLEAN, copy : BOOLEAN]
  /\ queue \subseteq Message
  /\ worker \in [Worker -> Process]
  /\ lock \in BOOLEAN
  /\ chunks \subseteq Generation /\ abandoned \subseteq Generation
  /\ alarmed \in BOOLEAN

Running == {"locked", "started", "writing", "written", "skipped", "raised"}

\* One worker at a time indexes the document, however often its tasks are
\* delivered (the Redis lock around index_document_task).
OneWriter ==
  \A v, w \in Worker :
    worker[v].stage \in Running /\ worker[w].stage \in Running => v = w

\* A document that is reported as indexed serves the chunks of its generation:
\* none of an older one, and not nothing, unless a deletion took them.
SuccessServesItsGeneration ==
  doc.exists /\ doc.status = "success" =>
    /\ chunks \subseteq {doc.gen}
    /\ chunks = {} => doc.deleting \/ doc.emptied

\* Once a document is deleted and the tasks that knew it are over, no chunk of
\* it is left, unless a cleanup has failed loudly.
Over == queue = {} /\ abandoned = {} /\ \A w \in Worker : At(w, "idle")
DeletedLeavesNoChunks == ~doc.exists /\ Over => chunks = {} \/ alarmed

\* The outcome of a generation is final: only a new generation leaves it.
OutcomeIsFinal ==
  [][doc.status \in Final /\ doc'.status # doc.status => doc'.gen > doc.gen]_vars

\* A document does not stay in an active status for ever.
ActiveSettles ==
  doc.exists /\ doc.status \in Active ~> ~doc.exists \/ doc.status \notin Active
=============================================================================

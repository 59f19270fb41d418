------------------------ MODULE KnowledgeIndexingProofs ------------------------
(***************************************************************************)
(* Proofs about KnowledgeIndexing for any set of workers and any bounds.   *)
(***************************************************************************)
EXTENDS KnowledgeIndexing, TLAPS

(***************************************************************************)
(* Types.                                                                  *)
(***************************************************************************)
LEMMA StatusTyped ==
  ASSUME TypeOK, NEW status \in {"not_indexed"} \cup Active \cup Final
  PROVE  WithStatus(status) \in Document
  BY DEF TypeOK, WithStatus, Document, Active, Final

LEMMA FailedTyped ==
  ASSUME TypeOK, NEW g, MarkFailed(g)
  PROVE  doc' \in Document
  BY StatusTyped, "failed" \in Final DEF TypeOK, MarkFailed, Final

LEMMA GotoTyped ==
  ASSUME TypeOK, NEW w \in Worker, NEW stage \in Stage, Goto(w, stage)
  PROVE  worker' \in [Worker -> Process]
  BY DEF TypeOK, Goto, Process

LEMMA IdleTyped ==
  ASSUME IndexingAssumption
  PROVE  Idle \in Process
  BY DEF IndexingAssumption, Idle, Process, Stage, Message, Generation

LEMMA LeaveTyped ==
  ASSUME IndexingAssumption, TypeOK, NEW w \in Worker, Leave(w)
  PROVE  worker' \in [Worker -> Process] /\ lock' \in BOOLEAN
  BY IdleTyped DEF TypeOK, Leave, Release

-----------------------------------------------------------------------------
(***************************************************************************)
(* The parts of the next-state relation, one per way a step is taken.      *)
(***************************************************************************)
LEMMA RequestTyped ==
  ASSUME IndexingAssumption, TypeOK, Request
  PROVE  TypeOK'
  <1>1. ASSUME NEW replace \in BOOLEAN, NEW again \in BOOLEAN, Enqueue(replace, again)
        PROVE  TypeOK'
    <2>1. doc.gen \in 0..MaxGeneration /\ doc.gen < MaxGeneration
      BY <1>1 DEF Enqueue, TypeOK, Document
    <2>2. doc.gen + 1 \in Generation /\ doc.gen + 1 \in 0..MaxGeneration
      BY <2>1 DEF Generation, IndexingAssumption
    <2>3. WithStatus("queued") \in Document /\ WithStatus("queued").gen = doc.gen
      BY StatusTyped DEF Active, WithStatus, TypeOK, Document
    <2>4. doc' \in Document
      BY <1>1, <2>2, <2>3 DEF Enqueue, Document
    <2>5. dispatch' \subseteq [gen : Generation, converted : BOOLEAN]
      <3>1. [gen |-> doc.gen + 1, converted |-> FALSE] \in [gen : Generation, converted : BOOLEAN]
        BY <2>2
      <3> QED
        BY <1>1, <3>1 DEF Enqueue, TypeOK
    <2> QED
      BY <1>1, <2>4, <2>5 DEF Enqueue, TypeOK
  <1>2. ASSUME NEW d \in dispatch, DispatchIndexing(d)
        PROVE  TypeOK'
    BY <1>2 DEF DispatchIndexing, TypeOK, Message, IndexingAssumption
  <1>3. ASSUME NEW d \in dispatch, DispatchConversion(d)
        PROVE  TypeOK'
    <2>1. doc' \in Document
      BY <1>3, StatusTyped DEF DispatchConversion, Active
    <2>2. [gen |-> d.gen, begun |-> FALSE, copy |-> FALSE]
            \in [gen : Generation, begun : BOOLEAN, copy : BOOLEAN]
      BY DEF TypeOK
    <2> QED
      BY <1>3, <2>1, <2>2 DEF DispatchConversion, TypeOK
  <1>4. ASSUME NEW d \in dispatch, DispatchFails(d)
        PROVE  TypeOK'
    BY <1>4, FailedTyped DEF DispatchFails, TypeOK
  <1>5. ASSUME NEW d \in dispatch, DispatchLost(d)
        PROVE  TypeOK'
    BY <1>5 DEF DispatchLost, TypeOK
  <1>6. CASE DeleteChunks \/ DeleteRow \/ DeleteAborts
    BY <1>6 DEF DeleteChunks, DeleteRow, DeleteAborts, TypeOK, Document
  <1> QED
    BY <1>1, <1>2, <1>3, <1>4, <1>5, <1>6 DEF Request

LEMMA ConverterTyped ==
  ASSUME TypeOK, Converter
  PROVE  TypeOK'
  <1>1. ASSUME NEW c \in conversion, ConversionStarted(c)
        PROVE  TypeOK'
    <2>1. doc' \in Document
      BY <1>1, StatusTyped DEF ConversionStarted, Active, TypeOK
    <2>2. [c EXCEPT !.begun = TRUE] \in [gen : Generation, begun : BOOLEAN, copy : BOOLEAN]
      BY DEF TypeOK
    <2> QED
      BY <1>1, <2>1, <2>2 DEF ConversionStarted, TypeOK
  <1>2. ASSUME NEW c \in conversion, ConversionUnreported(c)
        PROVE  TypeOK'
    BY <1>2 DEF ConversionUnreported, TypeOK
  <1>3. ASSUME NEW c \in conversion, ConversionCompleted(c)
        PROVE  TypeOK'
    <2>1. doc' \in Document
      BY <1>3, StatusTyped DEF ConversionCompleted, Active, TypeOK
    <2>2. [gen |-> c.gen, converted |-> TRUE] \in [gen : Generation, converted : BOOLEAN]
      BY DEF TypeOK
    <2> QED
      BY <1>3, <2>1, <2>2 DEF ConversionCompleted, TypeOK
  <1>4. ASSUME NEW c \in conversion, ConversionFailed(c)
        PROVE  TypeOK'
    BY <1>4, FailedTyped DEF ConversionFailed, TypeOK
  <1>5. ASSUME NEW c \in conversion, ConversionRedelivered(c)
        PROVE  TypeOK'
    BY <1>5 DEF ConversionRedelivered, TypeOK
  <1> QED
    BY <1>1, <1>2, <1>3, <1>4, <1>5 DEF Converter

LEMMA IndexTaskTyped ==
  ASSUME IndexingAssumption, TypeOK, NEW w \in Worker, IndexTask(w)
  PROVE  TypeOK'
  <1> DEFINE g == worker[w].msg.gen
  <1>1. worker[w].msg \in Message /\ g \in Generation
    BY DEF TypeOK, Process, Message
  <1>2. ASSUME NEW m \in queue, Acquire(w, m)
        PROVE  TypeOK'
    BY <1>2 DEF Acquire, TypeOK, Process, Stage
  <1>3. ASSUME NEW m \in queue, WaitForLock(w, m)
        PROVE  TypeOK'
    <2>1. queue' \subseteq Message
      BY <1>3 DEF WaitForLock, TypeOK, Message, IndexingAssumption
    <2>2. [stage |-> "waited", msg |-> m, holds |-> FALSE] \in Process
      BY DEF TypeOK, Process, Stage
    <2>3. worker' \in [Worker -> Process]
      BY <1>3, <2>2 DEF WaitForLock, TypeOK
    <2> QED
      BY <1>3, <2>1, <2>3 DEF WaitForLock, TypeOK
  <1>4. CASE GiveUpWaiting(w)
    BY <1>4, FailedTyped, GotoTyped, "cleanup" \in Stage DEF GiveUpWaiting, TypeOK, Stage
  <1>5. CASE Start(w)
    <2>1. doc' \in Document
      BY <1>5, StatusTyped DEF Start, Active, TypeOK
    <2>2. worker' \in [Worker -> Process] /\ lock' \in BOOLEAN
      BY <1>1, <1>5, GotoTyped, LeaveTyped DEF Start, Stage, TypeOK
    <2> QED
      BY <1>5, <2>1, <2>2 DEF Start, TypeOK
  <1>6. CASE SkipFile(w)
    BY <1>6, GotoTyped DEF SkipFile, TypeOK, Stage
  <1>7. CASE RemoveOld(w)
    <2>1. doc' \in Document
      BY <1>7 DEF RemoveOld, TypeOK, Document
    <2> QED
      BY <1>7, <2>1, GotoTyped DEF RemoveOld, TypeOK, Stage
  <1>8. CASE Write(w) \/ Raise(w) \/ TimeOut(w)
    <2>1. worker' \in [Worker -> Process]
      BY <1>8, GotoTyped DEF Write, Raise, TimeOut, Stage
    <2> QED
      BY <1>1, <1>8, <2>1 DEF Write, Raise, TimeOut, TypeOK
  <1>9. CASE Succeed(w)
    <2>1. doc' \in Document
      BY <1>9, StatusTyped DEF Succeed, Final, TypeOK
    <2>2. worker' \in [Worker -> Process] /\ lock' \in BOOLEAN
      BY <1>1, <1>9, GotoTyped, LeaveTyped DEF Succeed, Stage, TypeOK
    <2> QED
      BY <1>9, <2>1, <2>2 DEF Succeed, TypeOK
  <1>10. CASE FailSkipped(w)
    BY <1>1, <1>10, FailedTyped, LeaveTyped DEF FailSkipped, TypeOK
  <1>11. CASE FailRaised(w)
    <2>1. doc' \in Document
      BY <1>11, FailedTyped DEF FailRaised
    <2>2. worker' \in [Worker -> Process] /\ lock' \in BOOLEAN
      BY <1>1, <1>11, GotoTyped, LeaveTyped DEF FailRaised, Stage, TypeOK
    <2> QED
      BY <1>11, <2>1, <2>2 DEF FailRaised, TypeOK
  <1>12. CASE CleanUp(w)
    BY <1>1, <1>12, LeaveTyped DEF CleanUp, TypeOK
  <1>13. CASE CleanUpFails(w)
    <2>1. queue' \subseteq Message
      BY <1>1, <1>13 DEF CleanUpFails, TypeOK, Message, IndexingAssumption
    <2> QED
      BY <1>1, <1>13, <2>1, LeaveTyped DEF CleanUpFails, TypeOK
  <1> QED
    BY <1>2, <1>3, <1>4, <1>5, <1>6, <1>7, <1>8, <1>9, <1>10, <1>11, <1>12, <1>13
    DEF IndexTask

LEMMA SurroundingsTyped ==
  ASSUME IndexingAssumption, TypeOK, Surroundings
  PROVE  TypeOK'
  <1>1. ASSUME NEW w \in Worker, Redeliver(w)
        PROVE  TypeOK'
    BY <1>1 DEF Redeliver, TypeOK, Process
  <1>2. ASSUME NEW w \in Worker, Crash(w)
        PROVE  TypeOK'
    <2>1. Idle \in Process
      BY IdleTyped
    <2>2. worker[w].msg \in Message /\ worker[w].msg.gen \in Generation
      BY DEF TypeOK, Process, Message
    <2> QED
      BY <1>2, <2>1, <2>2 DEF Crash, TypeOK
  <1>3. ASSUME NEW g \in abandoned, LateWrite(g)
        PROVE  TypeOK'
    BY <1>3 DEF LateWrite, TypeOK
  <1>4. CASE LockLapses
    BY <1>4 DEF LockLapses, TypeOK
  <1>5. CASE Age
    BY <1>5 DEF Age, TypeOK, Document
  <1>6. CASE ScanStale
    BY <1>6, StatusTyped DEF ScanStale, TypeOK, Final
  <1> QED
    BY <1>1, <1>2, <1>3, <1>4, <1>5, <1>6 DEF Surroundings

LEMMA InitTyped ==
  ASSUME IndexingAssumption, Init
  PROVE  TypeOK
  <1>1. Idle \in Process
    BY IdleTyped
  <1>2. doc \in Document
    BY DEF Init, Document, IndexingAssumption
  <1> QED
    BY <1>1, <1>2 DEF Init, TypeOK

LEMMA StepTyped ==
  ASSUME IndexingAssumption, TypeOK, [Next]_vars
  PROVE  TypeOK'
  <1>1. CASE UNCHANGED vars
    BY <1>1 DEF vars, TypeOK
  <1> QED
    BY <1>1, RequestTyped, ConverterTyped, IndexTaskTyped, SurroundingsTyped DEF Next

\* Every variable keeps its type: TypeOK is inductive as it stands.
THEOREM KnowledgeTyping == Spec => []TypeOK
  BY IndexingAssumption, InitTyped, StepTyped, PTL DEF Spec
-----------------------------------------------------------------------------
(***************************************************************************)
(* The lock.  OneWriter is not inductive: it holds because whoever runs    *)
(* holds the key, the key is there while somebody holds it, and no two     *)
(* hold it.                                                                *)
(***************************************************************************)
Locking ==
  /\ \A w \in Worker : worker[w].stage \in Running => worker[w].holds
  /\ \A w \in Worker : worker[w].holds => lock
  /\ \A v, w \in Worker : worker[v].holds /\ worker[w].holds => v = w

\* Whoever leaves takes its own key with it, and nobody else's.
LEMMA LeaveKeepsLocking ==
  ASSUME TypeOK, Locking, NEW w \in Worker, Leave(w)
  PROVE  Locking'
  <1>1. worker'[w] = Idle
    BY DEF Leave, TypeOK
  <1>2. \A v \in Worker : v # w => worker'[v] = worker[v]
    BY DEF Leave, TypeOK
  <1>3. ASSUME NEW v \in Worker, worker'[v].holds
        PROVE  lock'
    <2>1. v # w /\ worker[v].holds
      BY <1>1, <1>2, <1>3 DEF Idle
    <2>2. lock /\ ~worker[w].holds
      BY <2>1 DEF Locking
    <2> QED
      BY <2>2 DEF Leave, Release
  <1> QED
    BY <1>1, <1>2, <1>3 DEF Locking, Idle, Running

\* Going on, to a stage that runs only from one that runs, keeps the key.
LEMMA GotoKeepsLocking ==
  ASSUME TypeOK, Locking, NEW w \in Worker, NEW stage \in Stage, Goto(w, stage),
         stage \in Running => worker[w].stage \in Running, lock' = lock
  PROVE  Locking'
  <1>1. worker'[w].stage = stage /\ worker'[w].holds = worker[w].holds
    BY DEF Goto, TypeOK, Process
  <1>2. \A v \in Worker : v # w => worker'[v] = worker[v]
    BY DEF Goto, TypeOK
  <1> QED
    BY <1>1, <1>2 DEF Locking

LEMMA IndexTaskKeepsLocking ==
  ASSUME ~LockFaults, TypeOK, Locking, NEW w \in Worker, IndexTask(w)
  PROVE  Locking'
  <1>1. ASSUME NEW m \in queue, Acquire(w, m)
        PROVE  Locking'
    <2>1. worker' = [worker EXCEPT ![w] = [stage |-> "locked", msg |-> m, holds |-> TRUE]]
      BY <1>1 DEF Acquire
    <2>2. ~lock /\ lock'
      BY <1>1 DEF Acquire
    <2>3. \A v \in Worker : ~worker[v].holds /\ worker[v].stage \notin Running
      BY <2>2 DEF Locking
    <2> QED
      BY <2>1, <2>2, <2>3 DEF Locking, TypeOK
  <1>2. ASSUME NEW m \in queue, WaitForLock(w, m)
        PROVE  Locking'
    <2>1. CASE worker' = worker
      BY <1>2, <2>1 DEF WaitForLock, Locking
    <2>2. CASE worker' = [worker EXCEPT ![w] =
                            [stage |-> "waited", msg |-> m, holds |-> FALSE]]
      BY <1>2, <2>2 DEF WaitForLock, Locking, TypeOK, Running
    <2> QED
      BY <1>2, <2>1, <2>2 DEF WaitForLock
  <1>3. CASE GiveUpWaiting(w)
    BY <1>3, GotoKeepsLocking DEF GiveUpWaiting, Stage, Running
  <1>4. CASE Start(w)
    BY <1>4, GotoKeepsLocking, LeaveKeepsLocking DEF Start, Stage, Running, At
  <1>5. CASE SkipFile(w) \/ RemoveOld(w) \/ Write(w) \/ Raise(w) \/ TimeOut(w)
    BY <1>5, GotoKeepsLocking
    DEF SkipFile, RemoveOld, Write, Raise, TimeOut, Stage, Running, At
  <1>6. CASE Succeed(w)
    BY <1>6, GotoKeepsLocking, LeaveKeepsLocking DEF Succeed, Stage, Running
  <1>7. CASE FailRaised(w)
    BY <1>7, GotoKeepsLocking, LeaveKeepsLocking DEF FailRaised, Stage, Running
  <1>8. CASE FailSkipped(w) \/ CleanUp(w) \/ CleanUpFails(w)
    BY <1>8, LeaveKeepsLocking DEF FailSkipped, CleanUp, CleanUpFails
  <1> QED
    BY <1>1, <1>2, <1>3, <1>4, <1>5, <1>6, <1>7, <1>8 DEF IndexTask

LEMMA StepKeepsLocking ==
  ASSUME ~LockFaults, TypeOK, Locking, [Next]_vars
  PROVE  Locking'
  <1>1. CASE worker' = worker /\ lock' = lock
    BY <1>1 DEF Locking
  <1>2. ASSUME NEW w \in Worker, IndexTask(w)
        PROVE  Locking'
    BY <1>2, IndexTaskKeepsLocking
  <1>3. ASSUME NEW w \in Worker, Crash(w)
        PROVE  Locking'
    <2>1. worker'[w] = Idle /\ lock' = lock
      BY <1>3 DEF Crash, TypeOK
    <2>2. \A v \in Worker : v # w => worker'[v] = worker[v]
      BY <1>3 DEF Crash, TypeOK
    <2> QED
      BY <2>1, <2>2 DEF Locking, Idle, Running
  <1>4. CASE LockLapses
    BY <1>4 DEF LockLapses, Locking
  <1>5. CASE Request
    <2>1. worker' = worker /\ lock' = lock
      BY <1>5 DEF Request, Enqueue, DispatchIndexing, DispatchConversion, DispatchFails,
                  DispatchLost, DeleteChunks, DeleteRow, DeleteAborts
    <2> QED
      BY <1>1, <2>1
  <1>6. CASE Converter
    <2>1. worker' = worker /\ lock' = lock
      BY <1>6 DEF Converter, ConversionStarted, ConversionUnreported, ConversionCompleted,
                  ConversionFailed, ConversionRedelivered
    <2> QED
      BY <1>1, <2>1
  <1>7. CASE Surroundings
    <2>1. \/ worker' = worker /\ lock' = lock
          \/ LockLapses \/ \E w \in Worker : Crash(w)
      BY <1>7 DEF Surroundings, Redeliver, LateWrite, Age, ScanStale
    <2> QED
      BY <1>1, <1>3, <1>4, <2>1
  <1> QED
    BY <1>1, <1>2, <1>5, <1>6, <1>7 DEF Next, vars

\* One worker at a time indexes the document, as long as a live lock stays with
\* its holder: the Redis lock around index_document_task, with its watchdog.
THEOREM KnowledgeOneWriter ==
  ASSUME ~LockFaults
  PROVE  Spec => []OneWriter
  <1>1. Init => Locking
    BY DEF Init, Locking, Idle, Running
  <1>2. TypeOK /\ Locking /\ [Next]_vars => Locking'
    BY StepKeepsLocking
  <1>3. Locking => OneWriter
    BY DEF Locking, OneWriter
  <1> QED
    BY <1>1, <1>2, <1>3, KnowledgeTyping, PTL DEF Spec
-----------------------------------------------------------------------------
(***************************************************************************)
(* The chunks.  While a worker has removed and not yet written there are   *)
(* none; after it has written there are its own; and while a document is   *)
(* reported as indexed nobody is about to remove or to write.              *)
(***************************************************************************)
Touching == {"started", "writing", "written"}

Gone == doc.deleting \/ ~doc.exists

Serving ==
  /\ abandoned = {}
  /\ doc.status = "success" => \A w \in Worker : worker[w].stage \notin Touching
  /\ \A w \in Worker : At(w, "writing") => chunks = {}
  /\ \A w \in Worker : At(w, "written") =>
       /\ chunks \subseteq {worker[w].msg.gen}
       /\ chunks = {} => Gone \/ doc.emptied
  /\ SuccessServesItsGeneration

\* Somebody is left to clean up after a deletion, or has said that it could
\* not.  Neither a skipped file nor a cleanup that found the row counts.
Debtor ==
  \/ alarmed \/ queue # {}
  \/ \E w \in Worker : /\ worker[w].stage \notin {"idle", "skipped"}
                       /\ worker[w].stage = "cleanup" => ~doc.exists

\* Chunks written after a deletion removed them have such a debtor, and a task
\* that skips its file, and so cleans up nothing, finds none.
Owed ==
  /\ Gone => \A w \in Worker : At(w, "started") \/ At(w, "skipped") => chunks = {}
  /\ Gone /\ chunks # {} => Debtor

\* A step that leaves the chunks alone, and the row no better off.
RowKept ==
  /\ chunks' = chunks /\ abandoned' = abandoned
  /\ doc'.status = "success" => doc.status = "success" /\ doc'.gen = doc.gen
  /\ doc'.exists => doc.exists
  /\ Gone' => Gone
  /\ Gone \/ doc.emptied => (Gone \/ doc.emptied)'

\* Whoever runs, runs alone.
LEMMA RunsAlone ==
  ASSUME Locking, NEW w \in Worker, worker[w].stage \in Running
  PROVE  \A v \in Worker : worker[v].stage \in Running => v = w
  BY DEF Locking

LEMMA GotoStage ==
  ASSUME TypeOK, NEW w \in Worker, NEW stage \in Stage, Goto(w, stage)
  PROVE  /\ worker'[w].stage = stage /\ worker'[w].msg = worker[w].msg
         /\ \A v \in Worker : v # w => worker'[v] = worker[v]
  BY DEF Goto, TypeOK, Process

LEMMA LeaveStage ==
  ASSUME TypeOK, NEW w \in Worker, Leave(w)
  PROVE  /\ worker'[w].stage = "idle"
         /\ \A v \in Worker : v # w => worker'[v] = worker[v]
  BY DEF Leave, Idle, TypeOK

\* The outcome of a transition of the row, as far as chunks are concerned.
LEMMA FailedRow ==
  ASSUME TypeOK, NEW g, MarkFailed(g)
  PROVE  /\ doc'.status = "success" => doc.status = "success" /\ doc'.gen = doc.gen
         /\ doc'.exists = doc.exists /\ doc'.deleting = doc.deleting
         /\ doc'.emptied = doc.emptied
  BY DEF MarkFailed, WithStatus, TypeOK, Document

LEMMA StatusRow ==
  ASSUME TypeOK, NEW status
  PROVE  /\ WithStatus(status).status = status
         /\ WithStatus(status).gen = doc.gen
         /\ WithStatus(status).exists = doc.exists
         /\ WithStatus(status).deleting = doc.deleting
         /\ WithStatus(status).emptied = doc.emptied
  BY DEF WithStatus, TypeOK, Document

\* Requests, but for a deletion's first step, keep the row in this sense.
LEMMA RequestRow ==
  ASSUME TypeOK, Request, ~DeleteChunks
  PROVE  RowKept /\ worker' = worker /\ alarmed' = alarmed /\ queue \subseteq queue'
  <1>1. ASSUME NEW replace \in BOOLEAN, NEW again \in BOOLEAN, Enqueue(replace, again)
        PROVE  RowKept /\ worker' = worker /\ alarmed' = alarmed /\ queue' = queue
    <2>1. /\ doc'.status = "queued" /\ doc'.exists = doc.exists
          /\ doc'.deleting = doc.deleting /\ doc'.emptied = doc.emptied
      BY <1>1 DEF Enqueue, WithStatus, TypeOK, Document
    <2> QED
      BY <1>1, <2>1 DEF Enqueue, RowKept, Gone
  <1>2. ASSUME NEW d \in dispatch, DispatchConversion(d)
        PROVE  RowKept /\ worker' = worker /\ alarmed' = alarmed /\ queue' = queue
    BY <1>2, StatusRow DEF DispatchConversion, RowKept, Gone
  <1>3. ASSUME NEW d \in dispatch, DispatchFails(d)
        PROVE  RowKept /\ worker' = worker /\ alarmed' = alarmed /\ queue' = queue
    BY <1>3, FailedRow DEF DispatchFails, RowKept, Gone
  <1>4. ASSUME NEW d \in dispatch, DispatchIndexing(d) \/ DispatchLost(d)
        PROVE  RowKept /\ worker' = worker /\ alarmed' = alarmed /\ queue \subseteq queue'
    BY <1>4 DEF DispatchIndexing, DispatchLost, RowKept, Gone
  <1>5. CASE DeleteRow \/ DeleteAborts
    BY <1>5 DEF DeleteRow, DeleteAborts, RowKept, Gone, TypeOK, Document
  <1> QED
    BY <1>1, <1>2, <1>3, <1>4, <1>5 DEF Request

LEMMA ConverterRow ==
  ASSUME TypeOK, Converter
  PROVE  RowKept /\ worker' = worker /\ alarmed' = alarmed /\ queue' = queue
  <1>1. ASSUME NEW c \in conversion, ConversionFailed(c)
        PROVE  RowKept /\ worker' = worker /\ alarmed' = alarmed /\ queue' = queue
    BY <1>1, FailedRow DEF ConversionFailed, RowKept, Gone
  <1>2. ASSUME NEW c \in conversion, ConversionStarted(c) \/ ConversionCompleted(c)
        PROVE  RowKept /\ worker' = worker /\ alarmed' = alarmed /\ queue' = queue
    BY <1>2, StatusRow DEF ConversionStarted, ConversionCompleted, RowKept, Gone
  <1>3. ASSUME NEW c \in conversion, ConversionUnreported(c) \/ ConversionRedelivered(c)
        PROVE  RowKept /\ worker' = worker /\ alarmed' = alarmed /\ queue' = queue
    BY <1>3 DEF ConversionUnreported, ConversionRedelivered, RowKept, Gone
  <1> QED
    BY <1>1, <1>2, <1>3 DEF Converter

\* So do the surroundings, but for crashes, as long as no call outlives its
\* caller.
LEMMA SurroundingsRow ==
  ASSUME TypeOK, Surroundings, abandoned = {}, \A w \in Worker : ~Crash(w)
  PROVE  RowKept /\ worker' = worker /\ alarmed' = alarmed /\ queue \subseteq queue'
  <1>1. ASSUME NEW w \in Worker, Redeliver(w)
        PROVE  RowKept /\ worker' = worker /\ alarmed' = alarmed /\ queue \subseteq queue'
    BY <1>1 DEF Redeliver, RowKept, Gone
  <1>2. CASE LockLapses
    BY <1>2 DEF LockLapses, RowKept, Gone
  <1>3. CASE Age
    BY <1>3 DEF Age, RowKept, Gone, TypeOK, Document
  <1>4. CASE ScanStale
    BY <1>4, StatusRow DEF ScanStale, RowKept, Gone
  <1> QED
    BY <1>1, <1>2, <1>3, <1>4 DEF Surroundings, LateWrite

-----------------------------------------------------------------------------
\* A row that is kept goes on serving if no worker comes closer to the chunks.
LEMMA AwayKeepsServing ==
  ASSUME TypeOK, Serving, RowKept,
         \A v \in Worker : worker'[v] = worker[v] \/ worker'[v].stage \notin Touching
  PROVE  Serving'
  <1>1. ASSUME doc'.status = "success"
        PROVE  \A v \in Worker : worker'[v].stage \notin Touching
    BY <1>1 DEF Serving, RowKept
  <1>2. ASSUME NEW v \in Worker, worker'[v].stage = "writing"
        PROVE  chunks' = {}
    BY <1>2 DEF Serving, RowKept, Touching, At
  <1>3. ASSUME NEW v \in Worker, worker'[v].stage = "written"
        PROVE  /\ chunks' \subseteq {worker'[v].msg.gen}
               /\ chunks' = {} => Gone' \/ doc'.emptied
    BY <1>3 DEF Serving, RowKept, Touching, At
  <1>4. SuccessServesItsGeneration'
    BY DEF Serving, SuccessServesItsGeneration, RowKept, Gone
  <1>5. abandoned' = {}
    BY DEF Serving, RowKept
  <1> QED
    BY <1>1, <1>2, <1>3, <1>4, <1>5 DEF Serving, At

\* The steps of a worker that touch the chunks, or make the row succeed.
LEMMA IndexTaskServes ==
  ASSUME ~CallsOutlive, TypeOK, Locking, Serving, NEW w \in Worker, IndexTask(w)
  PROVE  Serving'
  <1> DEFINE g == worker[w].msg.gen
  <1>1. ASSUME NEW m \in queue, Acquire(w, m)
        PROVE  Serving'
    BY <1>1, AwayKeepsServing DEF Acquire, RowKept, Gone, Touching, TypeOK
  <1>2. ASSUME NEW m \in queue, WaitForLock(w, m)
        PROVE  Serving'
    BY <1>2, AwayKeepsServing DEF WaitForLock, RowKept, Gone, Touching, TypeOK
  <1>3. CASE GiveUpWaiting(w)
    BY <1>3, AwayKeepsServing, FailedRow, GotoStage
    DEF GiveUpWaiting, RowKept, Gone, Touching, Stage
  <1>4. CASE Start(w)
    <2>1. CASE StartAccepted(g)
      <3>1. doc' = WithStatus("indexing") /\ Goto(w, "started") /\ chunks' = chunks
             /\ abandoned' = abandoned
        BY <1>4, <2>1 DEF Start
      <3>2. worker'[w].stage = "started" /\ \A v \in Worker : v # w => worker'[v] = worker[v]
        BY <3>1, GotoStage DEF Stage
      <3>3. \A v \in Worker : worker'[v].stage \notin {"writing", "written"}
        BY <1>4, <3>2, RunsAlone DEF Start, At, Running
      <3> QED
        BY <3>1, <3>3, StatusRow DEF Serving, At, SuccessServesItsGeneration
    <2>2. CASE ~StartAccepted(g)
      <3>1. UNCHANGED <<doc, chunks, abandoned>> /\ (Leave(w) \/ Goto(w, "cleanup"))
        BY <1>4, <2>2 DEF Start
      <3> QED
        BY <3>1, AwayKeepsServing, GotoStage, LeaveStage DEF RowKept, Gone, Touching, Stage
    <2> QED
      BY <2>1, <2>2
  <1>5. CASE SkipFile(w)
    BY <1>5, AwayKeepsServing, GotoStage DEF SkipFile, RowKept, Gone, Touching, Stage
  <1>6. CASE RemoveOld(w)
    <2>1. worker'[w].stage = "writing" /\ \A v \in Worker : v # w => worker'[v] = worker[v]
      BY <1>6, GotoStage DEF RemoveOld, Stage
    <2>2. chunks' = {} /\ abandoned' = {}
      BY <1>6 DEF RemoveOld, Serving
    <2>3. doc'.status = doc.status /\ doc.status # "success"
      BY <1>6 DEF RemoveOld, Serving, Touching, At, TypeOK, Document
    <2>4. \A v \in Worker : worker'[v].stage # "written"
      BY <1>6, <2>1, RunsAlone DEF RemoveOld, At, Running
    <2> QED
      BY <2>2, <2>3, <2>4 DEF Serving, At, SuccessServesItsGeneration
  <1>7. CASE Write(w)
    <2>1. /\ worker'[w].stage = "written" /\ worker'[w].msg = worker[w].msg
          /\ \A v \in Worker : v # w => worker'[v] = worker[v]
      BY <1>7, GotoStage DEF Write, Stage
    <2>2. chunks' = {g} /\ doc' = doc /\ abandoned' = {}
      BY <1>7 DEF Write, Serving
    <2>3. doc.status # "success"
      BY <1>7 DEF Write, Serving, Touching, At
    <2>4. \A v \in Worker : v # w => worker'[v].stage \notin Touching
      BY <1>7, <2>1, RunsAlone DEF Write, At, Running, Touching
    <2> QED
      BY <2>1, <2>2, <2>3, <2>4 DEF Serving, At, Touching, SuccessServesItsGeneration
  <1>8. CASE Raise(w)
    <2>1. doc' = doc /\ abandoned' = {} /\ worker[w].stage \in Touching \cap Running
      BY <1>8 DEF Raise, Serving, Touching, Running, At
    <2>2. \A v \in Worker : worker'[v].stage \notin Touching
      BY <1>8, <2>1, GotoStage, RunsAlone DEF Raise, Touching, Running, Stage
    <2>3. doc.status # "success"
      BY <2>1 DEF Serving
    <2> QED
      BY <2>1, <2>2, <2>3 DEF Serving, At, Touching, SuccessServesItsGeneration
  <1>9. CASE Succeed(w)
    <2>1. CASE SuccessAccepted(g)
      <3>1. doc' = WithStatus("success") /\ Leave(w) /\ UNCHANGED <<chunks, abandoned>>
        BY <1>9, <2>1 DEF Succeed
      <3>2. \A v \in Worker : worker'[v].stage \notin Touching
        BY <1>9, <3>1, LeaveStage, RunsAlone DEF Succeed, At, Touching, Running
      <3>3. doc.gen = g /\ ~Gone
        BY <1>9, <2>1 DEF SuccessAccepted, Owns, Succeed, RowFree, Gone
      <3>4. chunks \subseteq {g} /\ (chunks = {} => doc.emptied)
        BY <1>9, <3>3 DEF Succeed, Serving, Gone
      <3> QED
        BY <3>1, <3>2, <3>3, <3>4, StatusRow
        DEF Serving, At, Touching, SuccessServesItsGeneration
    <2>2. CASE ~SuccessAccepted(g)
      <3>1. UNCHANGED <<doc, chunks, abandoned>> /\ Goto(w, "cleanup")
        BY <1>9, <2>2 DEF Succeed
      <3> QED
        BY <3>1, AwayKeepsServing, GotoStage DEF RowKept, Gone, Touching, Stage
    <2> QED
      BY <2>1, <2>2
  <1>10. CASE FailSkipped(w)
    BY <1>10, AwayKeepsServing, FailedRow, LeaveStage
    DEF FailSkipped, RowKept, Gone, Touching
  <1>11. CASE FailRaised(w)
    <2>1. MarkFailed(g) /\ UNCHANGED <<chunks, abandoned>> /\ (Leave(w) \/ Goto(w, "cleanup"))
      BY <1>11 DEF FailRaised
    <2> QED
      BY <2>1, AwayKeepsServing, FailedRow, GotoStage, LeaveStage
      DEF RowKept, Gone, Touching, Stage
  <1>12. CASE CleanUp(w)
    <2>1. \A v \in Worker : worker'[v] = worker[v] \/ worker'[v].stage \notin Touching
      BY <1>12, LeaveStage DEF CleanUp, Touching
    <2>2. CASE doc.exists
      BY <1>12, <2>1, <2>2, AwayKeepsServing DEF CleanUp, RowKept, Gone
    <2>3. CASE ~doc.exists
      BY <1>12, <2>1, <2>3
      DEF CleanUp, Serving, At, Touching, SuccessServesItsGeneration, Gone
    <2> QED
      BY <2>2, <2>3
  <1>13. CASE CleanUpFails(w)
    BY <1>13, AwayKeepsServing, LeaveStage DEF CleanUpFails, RowKept, Gone, Touching
  <1> QED
    BY <1>1, <1>2, <1>3, <1>4, <1>5, <1>6, <1>7, <1>8, <1>9, <1>10, <1>11, <1>12, <1>13
    DEF IndexTask, TimeOut

LEMMA StepServes ==
  ASSUME ~CallsOutlive, TypeOK, Locking, Serving, [Next]_vars
  PROVE  Serving'
  <1>1. CASE DeleteChunks
    <2>1. chunks' = {} /\ worker' = worker /\ abandoned' = abandoned
      BY <1>1 DEF DeleteChunks
    <2>2. doc'.status = doc.status /\ doc'.deleting
      BY <1>1 DEF DeleteChunks, TypeOK, Document
    <2> QED
      BY <2>1, <2>2 DEF Serving, At, SuccessServesItsGeneration, Gone
  <1>2. CASE Request /\ ~DeleteChunks
    BY <1>2, RequestRow, AwayKeepsServing
  <1>3. CASE Converter
    BY <1>3, ConverterRow, AwayKeepsServing
  <1>4. ASSUME NEW w \in Worker, IndexTask(w)
        PROVE  Serving'
    BY <1>4, IndexTaskServes
  <1>5. ASSUME NEW w \in Worker, Crash(w)
        PROVE  Serving'
    <2>1. RowKept
      BY <1>5 DEF Crash, RowKept, Gone
    <2>2. \A v \in Worker : worker'[v] = worker[v] \/ worker'[v].stage \notin Touching
      BY <1>5 DEF Crash, TypeOK, Idle, Touching
    <2> QED
      BY <2>1, <2>2, AwayKeepsServing
  <1>6. CASE Surroundings /\ \A w \in Worker : ~Crash(w)
    BY <1>6, SurroundingsRow, AwayKeepsServing DEF Serving
  <1>7. CASE UNCHANGED vars
    BY <1>7, AwayKeepsServing DEF vars, RowKept, Gone
  <1> QED
    BY <1>1, <1>2, <1>3, <1>4, <1>5, <1>6, <1>7 DEF Next

\* A document reported as indexed serves the chunks of its own generation, and
\* serves some, as long as a live lock stays with its holder and no index call
\* outlives its caller.
THEOREM KnowledgeServesItsGeneration ==
  ASSUME ~LockFaults, ~CallsOutlive
  PROVE  Spec => []SuccessServesItsGeneration
  <1>1. Init => Locking /\ Serving
    BY DEF Init, Locking, Serving, Idle, Running, Touching, At, SuccessServesItsGeneration
  <1>2. TypeOK /\ Locking /\ Serving /\ [Next]_vars => Locking' /\ Serving'
    BY StepKeepsLocking, StepServes
  <1>3. Serving => SuccessServesItsGeneration
    BY DEF Serving
  <1> QED
    BY <1>1, <1>2, <1>3, KnowledgeTyping, PTL DEF Spec

-----------------------------------------------------------------------------
(***************************************************************************)
(* Deletion.                                                               *)
(***************************************************************************)
\* A debt stays a debt while a debtor is there, and nobody starts late.
LEMMA StillOwed ==
  ASSUME Owed, Gone' => Gone, chunks' = chunks,
         \A v \in Worker : worker'[v] = worker[v]
                             \/ worker'[v].stage \notin {"started", "skipped"},
         Gone /\ chunks # {} => Debtor'
  PROVE  Owed'
  <1>1. ASSUME Gone', NEW v \in Worker, worker'[v].stage \in {"started", "skipped"}
        PROVE  chunks' = {}
    BY <1>1 DEF Owed, At
  <1>2. ASSUME Gone', chunks' # {}
        PROVE  Debtor'
    BY <1>2
  <1> QED
    BY <1>1, <1>2 DEF Owed, At

\* Whoever goes to clean up after a deleted document is in debt for it.
LEMMA CleaningOwes ==
  ASSUME TypeOK, Owed, NEW w \in Worker, Goto(w, "cleanup"), ~doc.deleting,
         doc'.exists = doc.exists, doc'.deleting = doc.deleting, chunks' = chunks
  PROVE  Owed'
  <1>1. /\ worker'[w].stage = "cleanup"
        /\ \A v \in Worker : v # w => worker'[v] = worker[v]
    BY GotoStage DEF Stage
  <1>2. Gone' => Gone /\ ~doc'.exists
    BY DEF Gone
  <1>3. Gone => Debtor'
    BY <1>1 DEF Gone, Debtor
  <1> QED
    BY <1>1, <1>2, <1>3, StillOwed

LEMMA IndexTaskOwes ==
  ASSUME ~CallsOutlive, TypeOK, Locking, Owed, NEW w \in Worker, IndexTask(w)
  PROVE  Owed'
  <1> DEFINE g == worker[w].msg.gen
  <1>1. ASSUME NEW m \in queue, Acquire(w, m)
        PROVE  Owed'
    BY <1>1, StillOwed DEF Acquire, Gone, TypeOK, Debtor
  <1>2. ASSUME NEW m \in queue, WaitForLock(w, m)
        PROVE  Owed'
    <2>1. CASE m.retries < MaxRetries
      BY <1>2, <2>1, StillOwed DEF WaitForLock, Gone, Debtor
    <2>2. CASE ~(m.retries < MaxRetries)
      <3>1. worker' = [worker EXCEPT ![w] = [stage |-> "waited", msg |-> m, holds |-> FALSE]]
        BY <1>2, <2>2 DEF WaitForLock
      <3>2. worker'[w].stage = "waited" /\ \A v \in Worker : v # w => worker'[v] = worker[v]
        BY <3>1 DEF TypeOK
      <3> QED
        BY <1>2, <3>2, StillOwed DEF WaitForLock, Gone, Debtor
    <2> QED
      BY <2>1, <2>2
  <1>3. CASE GiveUpWaiting(w)
    BY <1>3, CleaningOwes, FailedRow DEF GiveUpWaiting, MarkFailed, RowFree
  <1>4. CASE Start(w)
    <2>1. CASE doc.exists
      <3>1. ~Gone'
        BY <1>4, <2>1, StatusRow DEF Start, RowFree, Gone
      <3> QED
        BY <3>1 DEF Owed
    <2>2. CASE ~doc.exists
      <3>1. Goto(w, "cleanup") /\ UNCHANGED <<doc, chunks>> /\ RowFree
        BY <1>4, <2>2 DEF Start, StartAccepted, Owns
      <3> QED
        BY <3>1, CleaningOwes DEF RowFree
    <2> QED
      BY <2>1, <2>2
  <1>5. CASE SkipFile(w)
    <2>1. UNCHANGED <<doc, chunks>> /\ (Gone => chunks = {})
      BY <1>5 DEF SkipFile, Owed
    <2> QED
      BY <2>1 DEF Owed, Gone
  <1>6. CASE RemoveOld(w)
    BY <1>6 DEF RemoveOld, Owed
  <1>7. CASE Write(w) \/ Raise(w)
    <2>1. worker'[w].stage \in {"written", "raised"}
      BY <1>7, GotoStage DEF Write, Raise, Stage
    <2>2. \A v \in Worker : worker'[v].stage \notin {"started", "skipped"}
      BY <1>7, <2>1, GotoStage, RunsAlone DEF Write, Raise, At, Running, Stage
    <2> QED
      BY <2>1, <2>2 DEF Owed, At, Debtor
  <1>8. CASE Succeed(w)
    <2>1. CASE doc.exists
      <3>1. ~Gone'
        BY <1>8, <2>1, StatusRow DEF Succeed, RowFree, Gone
      <3> QED
        BY <3>1 DEF Owed
    <2>2. CASE ~doc.exists
      <3>1. Goto(w, "cleanup") /\ UNCHANGED <<doc, chunks>> /\ RowFree
        BY <1>8, <2>2 DEF Succeed, SuccessAccepted, Owns
      <3> QED
        BY <3>1, CleaningOwes DEF RowFree
    <2> QED
      BY <2>1, <2>2
  <1>9. CASE FailSkipped(w)
    <2>1. (Gone' => Gone) /\ (Gone => chunks = {}) /\ chunks' = chunks
      BY <1>9, FailedRow DEF FailSkipped, Owed, Gone
    <2> QED
      BY <2>1 DEF Owed
  <1>10. CASE FailRaised(w)
    <2>1. CASE doc.exists
      <3>1. ~Gone'
        BY <1>10, <2>1, FailedRow DEF FailRaised, MarkFailed, RowFree, Gone
      <3> QED
        BY <3>1 DEF Owed
    <2>2. CASE ~doc.exists
      <3>1. Goto(w, "cleanup") /\ chunks' = chunks /\ MarkFailed(g)
        BY <1>10, <2>2 DEF FailRaised, FailureAccepted, Owns
      <3> QED
        BY <3>1, CleaningOwes, FailedRow DEF MarkFailed, RowFree
    <2> QED
      BY <2>1, <2>2
  <1>11. CASE CleanUp(w)
    <2>1. CASE ~doc.exists
      BY <1>11, <2>1 DEF CleanUp, Owed
    <2>2. CASE doc.exists
      <3>1. UNCHANGED <<doc, chunks, queue, alarmed>> /\ Leave(w)
        BY <1>11, <2>2 DEF CleanUp
      <3>2. ASSUME Debtor
            PROVE  Debtor'
        BY <1>11, <2>2, <3>1, <3>2, LeaveStage DEF CleanUp, At, Debtor
      <3>3. Gone' => Gone
        BY <3>1 DEF Gone
      <3>4. Gone /\ chunks # {} => Debtor'
        BY <3>2 DEF Owed
      <3> QED
        BY <3>1, <3>3, <3>4, StillOwed, LeaveStage
    <2> QED
      BY <2>1, <2>2
  <1>12. CASE CleanUpFails(w)
    <2>1. Debtor' /\ UNCHANGED <<doc, chunks>> /\ Leave(w)
      BY <1>12 DEF CleanUpFails, Debtor
    <2> QED
      BY <2>1, StillOwed, LeaveStage DEF Gone
  <1> QED
    BY <1>1, <1>2, <1>3, <1>4, <1>5, <1>6, <1>7, <1>8, <1>9, <1>10, <1>11, <1>12
    DEF IndexTask, TimeOut

LEMMA StepOwes ==
  ASSUME ~CallsOutlive, TypeOK, Locking, Serving, Owed, [Next]_vars
  PROVE  Owed'
  <1>1. CASE DeleteChunks
    BY <1>1 DEF DeleteChunks, Owed
  <1>2. ASSUME RowKept, worker' = worker, alarmed' = alarmed, queue \subseteq queue',
               doc'.exists = doc.exists \/ ~doc'.exists
        PROVE  Owed'
    <2>1. Debtor => Debtor'
      BY <1>2 DEF Debtor
    <2> QED
      BY <1>2, <2>1, StillOwed DEF RowKept, Owed
  <1>3. CASE (Request /\ ~DeleteChunks) \/ Converter
          \/ (Surroundings /\ \A w \in Worker : ~Crash(w))
    BY <1>2, <1>3, RequestRow, ConverterRow, SurroundingsRow DEF RowKept, Serving, TypeOK, Document
  <1>4. ASSUME NEW w \in Worker, IndexTask(w)
        PROVE  Owed'
    BY <1>4, IndexTaskOwes
  <1>5. ASSUME NEW w \in Worker, Crash(w)
        PROVE  Owed'
    <2>1. UNCHANGED <<doc, chunks>> /\ queue' # {}
      BY <1>5 DEF Crash
    <2>2. \A v \in Worker : worker'[v] = worker[v] \/ worker'[v].stage = "idle"
      BY <1>5 DEF Crash, TypeOK, Idle
    <2> QED
      BY <2>1, <2>2, StillOwed DEF Gone, Debtor
  <1>6. CASE UNCHANGED vars
    BY <1>6 DEF vars, Owed, Gone, At, Debtor
  <1> QED
    BY <1>1, <1>3, <1>4, <1>5, <1>6 DEF Next

\* A deleted document leaves no chunks once its tasks are over, unless a
\* cleanup gave up and said so: the row lock of delete_document and the cleanup
\* of the tasks it overtakes, for any number of workers, tasks and crashes.
THEOREM KnowledgeDeletedLeavesNoChunks ==
  ASSUME ~LockFaults, ~CallsOutlive
  PROVE  Spec => []DeletedLeavesNoChunks
  <1>1. Init => Locking /\ Serving /\ Owed
    BY DEF Init, Locking, Serving, Owed, Gone, Idle, Running, Touching, At,
           SuccessServesItsGeneration
  <1>2. TypeOK /\ Locking /\ Serving /\ Owed /\ [Next]_vars
          => Locking' /\ Serving' /\ Owed'
    BY StepKeepsLocking, StepServes, StepOwes
  <1>3. Owed => DeletedLeavesNoChunks
    BY DEF Owed, Gone, Debtor, DeletedLeavesNoChunks, Over, At
  <1> QED
    BY <1>1, <1>2, <1>3, KnowledgeTyping, PTL DEF Spec

-----------------------------------------------------------------------------
(***************************************************************************)
(* Outcomes.  A generation whose task is not yet sent is the row's, still  *)
(* queued and young, and nothing else in flight carries it.                *)
(***************************************************************************)
\* A conversion, or a task in the broker or on a worker, carries generation g.
Carried(g) ==
  \/ \E x \in conversion \cup queue : x.gen = g
  \/ \E w \in Worker : ~At(w, "idle") /\ worker[w].msg.gen = g

Issued ==
  /\ \A d \in dispatch : d.gen <= doc.gen
  /\ \A g \in Generation : Carried(g) => g <= doc.gen
  /\ \A d \in dispatch : ~d.converted =>
       /\ dispatch = {d} /\ d.gen = doc.gen
       /\ doc.status = "queued" /\ ~doc.aged
       /\ ~Carried(doc.gen)

\* A step that brings no generation into the world, and changes the status of
\* the row only for one that was there.
Moves ==
  /\ doc'.gen = doc.gen
  /\ \A d \in dispatch' : d \in dispatch \/ (d.converted /\ d.gen = doc.gen /\ Carried(d.gen))
  /\ \A g \in Generation :
       Carried(g)' => Carried(g) \/ \E d \in dispatch : d.gen = g /\ d \notin dispatch'
  /\ \/ doc'.status = doc.status /\ doc'.aged = doc.aged
     \/ Carried(doc.gen) \/ doc.aged \/ \E d \in dispatch : d \notin dispatch'
     \/ dispatch = {}

LEMMA MovesKeepIssued ==
  ASSUME TypeOK, Issued, Moves
  PROVE  Issued'
  <1>1. \A d \in dispatch' : d.gen <= doc'.gen
    BY DEF Issued, Moves, TypeOK, Document
  <1>2. \A g \in Generation : Carried(g)' => g <= doc'.gen
    BY DEF Issued, Moves
  <1>3. ASSUME NEW d \in dispatch', ~d.converted
        PROVE  /\ dispatch' = {d} /\ d.gen = doc'.gen
               /\ doc'.status = "queued" /\ ~doc'.aged
               /\ ~Carried(doc.gen)'
    <2>1. d \in dispatch
      BY <1>3 DEF Moves
    <2>2. /\ dispatch = {d} /\ d.gen = doc.gen
          /\ doc.status = "queued" /\ ~doc.aged /\ ~Carried(doc.gen)
      BY <1>3, <2>1 DEF Issued
    <2>3. dispatch' = {d}
      BY <1>3, <2>2 DEF Moves
    <2>4. doc'.gen = doc.gen /\ doc.gen \in Generation
      BY <2>1, <2>2 DEF Moves, TypeOK
    <2>5. ~Carried(doc.gen)'
      BY <2>2, <2>3, <2>4 DEF Moves
    <2>6. doc'.status = "queued" /\ ~doc'.aged
      BY <2>2, <2>3 DEF Moves
    <2> QED
      BY <2>2, <2>3, <2>4, <2>5, <2>6
  <1>4. doc'.gen = doc.gen
    BY DEF Moves
  <1> QED
    BY <1>1, <1>2, <1>3, <1>4 DEF Issued, Carried

\* A failure touches the row of its own generation only.
LEMMA FailedOwn ==
  ASSUME TypeOK, NEW g, MarkFailed(g)
  PROVE  doc'.gen = doc.gen /\ (doc' = doc \/ doc.gen = g)
  BY DEF MarkFailed, FailureAccepted, Owns, WithStatus, TypeOK, Document

LEMMA RequestMoves ==
  ASSUME TypeOK, Request, \A replace, again \in BOOLEAN : ~Enqueue(replace, again)
  PROVE  Moves
  <1>1. ASSUME NEW d \in dispatch, DispatchIndexing(d)
        PROVE  Moves
    BY <1>1 DEF DispatchIndexing, Moves, Carried, At
  <1>2. ASSUME NEW d \in dispatch, DispatchConversion(d)
        PROVE  Moves
    <2>1. doc'.gen = doc.gen /\ d \notin dispatch' /\ dispatch' \subseteq dispatch
      BY <1>2, StatusRow DEF DispatchConversion
    <2>2. \A g \in Generation : Carried(g)' => Carried(g) \/ d.gen = g
      BY <1>2 DEF DispatchConversion, Carried, At
    <2> QED
      BY <2>1, <2>2 DEF Moves
  <1>3. ASSUME NEW d \in dispatch, DispatchFails(d)
        PROVE  Moves
    BY <1>3, FailedOwn DEF DispatchFails, Moves, Carried, At
  <1>4. ASSUME NEW d \in dispatch, DispatchLost(d)
        PROVE  Moves
    BY <1>4 DEF DispatchLost, Moves, Carried, At
  <1>5. CASE DeleteChunks \/ DeleteRow \/ DeleteAborts
    <2>1. doc'.gen = doc.gen /\ doc'.status = doc.status /\ doc'.aged = doc.aged
      BY <1>5 DEF DeleteChunks, DeleteRow, DeleteAborts, TypeOK, Document
    <2> QED
      BY <1>5, <2>1 DEF DeleteChunks, DeleteRow, DeleteAborts, Moves, Carried, At
  <1> QED
    BY <1>1, <1>2, <1>3, <1>4, <1>5 DEF Request

LEMMA ConverterMoves ==
  ASSUME TypeOK, Converter
  PROVE  Moves
  <1>1. ASSUME NEW c \in conversion, ConversionStarted(c)
        PROVE  Moves
    <2>1. doc'.gen = doc.gen /\ (doc' = doc \/ doc.gen = c.gen)
      BY <1>1, StatusRow DEF ConversionStarted, Owns
    <2>2. Carried(c.gen)
      BY DEF Carried
    <2>3. \A x \in conversion' : \E y \in conversion : y.gen = x.gen
      BY <1>1 DEF ConversionStarted, TypeOK
    <2> QED
      BY <1>1, <2>1, <2>2, <2>3 DEF ConversionStarted, Moves, Carried, At
  <1>2. ASSUME NEW c \in conversion, ConversionUnreported(c) \/ ConversionRedelivered(c)
        PROVE  Moves
    <2>1. \A x \in conversion' : x \in conversion \/ x.gen = c.gen
      <3>1. CASE ConversionUnreported(c)
        BY <3>1 DEF ConversionUnreported, TypeOK
      <3>2. CASE ConversionRedelivered(c)
        <4>1. \A b \in BOOLEAN : [c EXCEPT !.begun = b, !.copy = TRUE].gen = c.gen
          BY DEF TypeOK
        <4>2. conversion' \subseteq
                conversion \cup {[c EXCEPT !.begun = b, !.copy = TRUE] : b \in BOOLEAN}
          BY <3>2 DEF ConversionRedelivered
        <4> QED
          BY <4>1, <4>2
      <3> QED
        BY <1>2, <3>1, <3>2
    <2> QED
      BY <1>2, <2>1 DEF ConversionUnreported, ConversionRedelivered, Moves, Carried, At
  <1>3. ASSUME NEW c \in conversion, ConversionCompleted(c)
        PROVE  Moves
    <2>1. doc'.gen = doc.gen /\ (doc' = doc \/ doc.gen = c.gen)
      BY <1>3, StatusRow DEF ConversionCompleted, Owns
    <2>2. Carried(c.gen)
      BY DEF Carried
    <2>3. \A d \in dispatch' : d \in dispatch \/ (d.converted /\ d.gen = c.gen /\ c.gen = doc.gen)
      BY <1>3 DEF ConversionCompleted, Owns
    <2> QED
      BY <1>3, <2>1, <2>2, <2>3 DEF ConversionCompleted, Moves, Carried, At
  <1>4. ASSUME NEW c \in conversion, ConversionFailed(c)
        PROVE  Moves
    <2>1. Carried(c.gen)
      BY DEF Carried
    <2> QED
      BY <1>4, <2>1, FailedOwn DEF ConversionFailed, Moves, Carried, At
  <1> QED
    BY <1>1, <1>2, <1>3, <1>4 DEF Converter

\* A step of a worker that is busy before, or takes a task from the queue.
LEMMA WorkerMoves ==
  ASSUME TypeOK, NEW w \in Worker, dispatch' = dispatch, conversion' = conversion,
         \A m \in queue' : Carried(m.gen),
         worker'[w].stage # "idle" => Carried(worker'[w].msg.gen),
         \A v \in Worker : v # w => worker'[v] = worker[v],
         doc'.gen = doc.gen, doc' = doc \/ Carried(doc.gen)
  PROVE  Moves
  <1>1. ASSUME NEW g \in Generation, Carried(g)'
        PROVE  Carried(g)
    <2>1. CASE \E x \in conversion' \cup queue' : x.gen = g
      BY <2>1 DEF Carried
    <2>2. CASE \E v \in Worker : worker'[v].stage # "idle" /\ worker'[v].msg.gen = g
      BY <2>2 DEF Carried, At
    <2> QED
      BY <1>1, <2>1, <2>2 DEF Carried, At
  <1> QED
    BY <1>1 DEF Moves

LEMMA IndexTaskMoves ==
  ASSUME IndexingAssumption, TypeOK, NEW w \in Worker, IndexTask(w)
  PROVE  Moves
  <1> DEFINE g == worker[w].msg.gen
  <1>1. \A m \in queue : Carried(m.gen)
    BY DEF Carried
  <1>2. worker[w].stage # "idle" => Carried(g)
    BY DEF Carried, At
  <1>3. dispatch' = dispatch /\ conversion' = conversion
    BY DEF IndexTask, Acquire, WaitForLock, GiveUpWaiting, Start, SkipFile, RemoveOld,
           Write, Raise, TimeOut, Succeed, FailSkipped, FailRaised, CleanUp, CleanUpFails
  <1>4. ASSUME NEW m \in queue, Acquire(w, m)
        PROVE  Moves
    BY <1>1, <1>3, <1>4, WorkerMoves DEF Acquire, TypeOK
  <1>5. ASSUME NEW m \in queue, WaitForLock(w, m)
        PROVE  Moves
    <2>1. \A x \in queue' : Carried(x.gen)
      BY <1>1, <1>5 DEF WaitForLock, TypeOK, Message
    <2>2. worker'[w].stage # "idle" => Carried(worker'[w].msg.gen)
      BY <1>1, <1>2, <1>5 DEF WaitForLock, TypeOK
    <2>3. doc' = doc /\ \A v \in Worker : v # w => worker'[v] = worker[v]
      BY <1>5 DEF WaitForLock, TypeOK
    <2> QED
      BY <1>3, <2>1, <2>2, <2>3, WorkerMoves
  <1>6. ASSUME worker[w].stage # "idle", queue' = queue,
               Leave(w) \/ \E stage \in Stage : Goto(w, stage),
               doc'.gen = doc.gen, doc' = doc \/ doc.gen = g
        PROVE  Moves
    <2>1. worker'[w].stage # "idle" => worker'[w].msg = worker[w].msg
      BY <1>6, GotoStage, LeaveStage
    <2>2. \A v \in Worker : v # w => worker'[v] = worker[v]
      BY <1>6, GotoStage, LeaveStage
    <2> QED
      BY <1>1, <1>2, <1>3, <1>6, <2>1, <2>2, WorkerMoves
  <1>7. CASE GiveUpWaiting(w)
    BY <1>6, <1>7, FailedOwn DEF GiveUpWaiting, At, Stage
  <1>8. CASE Start(w)
    BY <1>6, <1>8, StatusRow DEF Start, StartAccepted, Owns, At, Stage
  <1>9. CASE SkipFile(w) \/ Write(w) \/ Raise(w) \/ TimeOut(w)
    BY <1>6, <1>9 DEF SkipFile, Write, Raise, TimeOut, At, Stage
  <1>10. CASE RemoveOld(w)
    <2>1. /\ doc'.gen = doc.gen /\ doc'.status = doc.status /\ doc'.aged = doc.aged
          /\ queue' = queue
      BY <1>10 DEF RemoveOld, TypeOK, Document
    <2>2. worker'[w].stage = "writing" /\ worker'[w].msg = worker[w].msg
          /\ \A v \in Worker : v # w => worker'[v] = worker[v]
      BY <1>10, GotoStage DEF RemoveOld, Stage
    <2>3. \A h \in Generation : Carried(h)' => Carried(h)
      BY <1>3, <1>10, <2>1, <2>2 DEF RemoveOld, Carried, At
    <2> QED
      BY <1>3, <2>1, <2>3 DEF Moves
  <1>11. CASE Succeed(w)
    BY <1>6, <1>11, StatusRow DEF Succeed, SuccessAccepted, Owns, At, Stage
  <1>12. CASE FailSkipped(w) \/ FailRaised(w)
    BY <1>6, <1>12, FailedOwn DEF FailSkipped, FailRaised, At, Stage
  <1>13. CASE CleanUp(w)
    BY <1>6, <1>13 DEF CleanUp, At
  <1>14. CASE CleanUpFails(w)
    <2>1. \A x \in queue' : Carried(x.gen)
      BY <1>1, <1>2, <1>14 DEF CleanUpFails, TypeOK, Process, Message, At
    <2> QED
      BY <1>3, <1>14, <2>1, LeaveStage, WorkerMoves DEF CleanUpFails
  <1> QED
    BY <1>4, <1>5, <1>7, <1>8, <1>9, <1>10, <1>11, <1>12, <1>13, <1>14 DEF IndexTask

LEMMA SurroundingsMove ==
  ASSUME ~DispatchesOverlap, TypeOK, Surroundings
  PROVE  Moves
  <1>1. ASSUME NEW w \in Worker, Redeliver(w) \/ Crash(w)
        PROVE  Moves
    <2>1. \A x \in queue' : Carried(x.gen)
      BY <1>1 DEF Redeliver, Crash, Carried
    <2>2. worker'[w].stage # "idle" => Carried(worker'[w].msg.gen)
      BY <1>1 DEF Redeliver, Crash, Carried, At, TypeOK, Idle
    <2>3. \A v \in Worker : v # w => worker'[v] = worker[v]
      BY <1>1 DEF Redeliver, Crash, TypeOK
    <2> QED
      BY <1>1, <2>1, <2>2, <2>3, WorkerMoves DEF Redeliver, Crash
  <1>2. CASE LockLapses \/ \E g \in abandoned : LateWrite(g)
    BY <1>2 DEF LockLapses, LateWrite, Moves, Carried, At
  <1>3. CASE Age
    BY <1>3 DEF Age, Moves, Carried, At, TypeOK, Document
  <1>4. CASE ScanStale
    BY <1>4, StatusRow DEF ScanStale, Moves, Carried, At
  <1> QED
    BY <1>1, <1>2, <1>3, <1>4 DEF Surroundings

LEMMA StepKeepsIssued ==
  ASSUME IndexingAssumption, ~DispatchesOverlap, TypeOK, Issued, [Next]_vars
  PROVE  Issued'
  <1>1. ASSUME NEW replace \in BOOLEAN, NEW again \in BOOLEAN, Enqueue(replace, again)
        PROVE  Issued'
    <2>1. /\ doc.gen \in Nat /\ doc'.gen = doc.gen + 1
          /\ doc'.status = "queued" /\ doc'.aged = FALSE
      BY <1>1 DEF Enqueue, WithStatus, TypeOK, Document, IndexingAssumption
    <2>2. dispatch' = {[gen |-> doc.gen + 1, converted |-> FALSE]}
      BY <1>1 DEF Enqueue
    <2>3. \A g \in Generation : Carried(g)' => Carried(g)
      BY <1>1 DEF Enqueue, Carried, At
    <2>4. doc.gen + 1 \in Generation
      BY <1>1, <2>1 DEF Enqueue, Generation, IndexingAssumption
    <2>5. ~Carried(doc.gen + 1)
      BY <2>1, <2>4 DEF Issued
    <2>6. ~Carried(doc.gen)'
      BY <1>1, <2>1, <2>5 DEF Enqueue, Carried, At
    <2>7. \A g \in Generation : Carried(g)' => g <= doc'.gen
      BY <2>1, <2>3 DEF Issued, Generation, IndexingAssumption
    <2> QED
      BY <2>1, <2>2, <2>6, <2>7 DEF Issued
  <1>2. CASE Request /\ \A replace, again \in BOOLEAN : ~Enqueue(replace, again)
    BY <1>2, RequestMoves, MovesKeepIssued
  <1>3. CASE Converter
    BY <1>3, ConverterMoves, MovesKeepIssued
  <1>4. ASSUME NEW w \in Worker, IndexTask(w)
        PROVE  Issued'
    BY <1>4, IndexTaskMoves, MovesKeepIssued
  <1>5. CASE Surroundings
    BY <1>5, SurroundingsMove, MovesKeepIssued
  <1>6. CASE UNCHANGED vars
    BY <1>6 DEF vars, Issued, Carried, At
  <1> QED
    BY <1>1, <1>2, <1>3, <1>4, <1>5, <1>6 DEF Next

\* Only a new generation leaves an outcome behind.
LEMMA StepKeepsOutcome ==
  ASSUME IndexingAssumption, TypeOK, Issued, [Next]_vars,
         doc.status \in Final, doc'.status # doc.status
  PROVE  doc'.gen > doc.gen
  <1>1. ASSUME NEW g, MarkFailed(g)
        PROVE  doc' = doc
    BY <1>1 DEF MarkFailed, FailureAccepted, Active, Final
  <1>2. ASSUME NEW replace \in BOOLEAN, NEW again \in BOOLEAN, Enqueue(replace, again)
        PROVE  doc'.gen > doc.gen
    BY <1>2 DEF Enqueue, WithStatus, TypeOK, Document, IndexingAssumption
  <1>3. ASSUME NEW d \in dispatch, DispatchConversion(d)
        PROVE  FALSE
    BY <1>3 DEF DispatchConversion, Issued, Final
  <1>4. Request => doc'.gen > doc.gen
    <2>1. CASE \E d \in dispatch : DispatchIndexing(d) \/ DispatchFails(d) \/ DispatchLost(d)
      BY <1>1, <2>1 DEF DispatchIndexing, DispatchFails, DispatchLost
    <2>2. CASE DeleteChunks \/ DeleteRow \/ DeleteAborts
      BY <2>2 DEF DeleteChunks, DeleteRow, DeleteAborts, TypeOK, Document
    <2> QED
      BY <1>2, <1>3, <2>1, <2>2 DEF Request
  <1>5. ~Converter
    BY <1>1 DEF Converter, ConversionStarted, ConversionUnreported, ConversionCompleted,
                ConversionFailed, ConversionRedelivered, Final
  <1>6. \A w \in Worker : ~IndexTask(w)
    <2>1. ASSUME NEW w \in Worker, GiveUpWaiting(w) \/ FailSkipped(w) \/ FailRaised(w)
          PROVE  FALSE
      BY <1>1, <2>1 DEF GiveUpWaiting, FailSkipped, FailRaised
    <2>2. ASSUME NEW w \in Worker, Start(w) \/ Succeed(w)
          PROVE  FALSE
      BY <2>2 DEF Start, StartAccepted, Succeed, SuccessAccepted, Active, Final
    <2>3. ASSUME NEW w \in Worker, RemoveOld(w)
          PROVE  FALSE
      BY <2>3 DEF RemoveOld, TypeOK, Document
    <2> QED
      BY <2>1, <2>2, <2>3
      DEF IndexTask, Acquire, WaitForLock, SkipFile, Write, Raise, TimeOut, CleanUp,
          CleanUpFails
  <1>7. ~Surroundings
    BY DEF Surroundings, Redeliver, Crash, LateWrite, LockLapses, Age, ScanStale, Active,
           Final
  <1>8. ~UNCHANGED vars
    BY DEF vars
  <1> QED
    BY <1>4, <1>5, <1>6, <1>7, <1>8 DEF Next

\* The outcome of a generation is final, whatever the lock does and whatever
\* calls outlive: the decisions of decide_index_transition suffice, as long as a
\* request sends its task before its generation is replaced.
THEOREM KnowledgeOutcomeIsFinal ==
  ASSUME ~DispatchesOverlap
  PROVE  Spec => OutcomeIsFinal
  <1>1. Init => Issued
    BY DEF Init, Issued, Carried, At, Idle
  <1>2. TypeOK /\ Issued /\ [Next]_vars => Issued'
    BY IndexingAssumption, StepKeepsIssued
  <1>3. TypeOK /\ Issued /\ [Next]_vars
          => [doc.status \in Final /\ doc'.status # doc.status => doc'.gen > doc.gen]_vars
    BY IndexingAssumption, StepKeepsOutcome
  <1> QED
    BY <1>1, <1>2, <1>3, KnowledgeTyping, PTL DEF Spec, OutcomeIsFinal
=============================================================================

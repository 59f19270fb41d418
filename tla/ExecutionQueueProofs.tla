------------------------ MODULE ExecutionQueueProofs ------------------------
(***************************************************************************)
(* Proofs about ExecutionQueue, for every value of its constants.          *)
(***************************************************************************)
EXTENDS ExecutionQueue, TLAPS

(***************************************************************************)
(* The inductive invariant.  TypeOK alone is not inductive: an event       *)
(* number has a type because a turn emits two events, a retry counter      *)
(* because an overlapping handler read a row whose counter never changes.  *)
(***************************************************************************)
\* Rows are allocated in order.
RowsInOrder == \A i \in Ids : i > count => row[i].status = "none"

\* An overlapping handler has read an allocated row, below the version bound,
\* whose retry counter still is what it read.
ReadsFit ==
  \A o \in open :
    /\ o.call.op \in Overlapping
    /\ o.call.id <= count
    /\ o.read.version < MaxVersion
    /\ o.read.status \in Active
    /\ o.call.op = "snapshot" => o.read.retry = row[o.call.id].retry
    /\ o.call.op = "approve" => o.read.status = "pending_approval"

\* Each turn that started has emitted one event, each that ended two.
TurnBudget ==
  \A i \in Ids :
    task[i].seq + 2 * task[i].waiting + (IF task[i].live THEN 1 ELSE 0)
      <= 2 * task[i].created

IInv == TypeOK /\ RowsInOrder /\ ReadsFit /\ TurnBudget

\* What a handler does to the table, whatever it decides: rows keep their
\* kind, the columns of an attempt's identity, and their place.
Keeps ==
  /\ count' \in count..MaxRows
  /\ row' \in [Ids -> Row]
  /\ run' \in [Ids -> {"open", "succeeded", "failed", "cancelled"}]
  /\ \A j \in Ids : j <= count =>
       /\ row'[j].scope = row[j].scope
       /\ row'[j].device = row[j].device
       /\ row'[j].retry = row[j].retry
  /\ \A j \in Ids : j > count' => row'[j] = row[j]
  /\ \A j \in Ids : j > count /\ j <= count' =>
       row'[j].status = "queued" /\ row'[j].device = None

\* It changes the status of the row it was called for, to s, and of no other.
KeepsTo(i, s) ==
  /\ Keeps
  /\ \A j \in Ids : j <= count /\ j # i => row'[j].status = row[j].status
  /\ row'[i].status = s

\* The statuses a call may give the row it finds, having read r of it.
Permits(c, r, now, s) ==
  \/ s = now.status
  \/ s \in Terminal /\ (now.status \in Active \/ c.op = "reject")
  \/ s = "cancel_requested" /\ now.status \in {"claimed", "running"}
  \/ s \in {"waiting_runtime", "queued"} /\ c.op = "approve"
  \/ s = "queued" /\ now.status \in Active /\ r.status = "claimed" /\ ~r.fenced
       /\ c.op = "recover"
  \/ s = "queued" /\ now.status = "claimed" /\ r.status = "claimed" /\ r.timedOut
       /\ c.op = "snapshot" /\ c.arg = "missing"
  \/ s = StillRunning(r) /\ now.status \in Capacity /\ now.version = r.version
       /\ c.op = "observe"
  \/ s = StillRunning(r) /\ c.op = "snapshot"

-----------------------------------------------------------------------------
\* Bumped changes the version only, and stays below the bound.
LEMMA BumpedTyped ==
  ASSUME QueueAssumption, NEW i \in Ids, NEW new \in Row, new.version < MaxVersion
  PROVE  /\ Bumped(i, new) \in Row
         /\ Bumped(i, new).status = new.status
         /\ Bumped(i, new).scope = new.scope
         /\ Bumped(i, new).device = new.device
         /\ Bumped(i, new).retry = new.retry
  BY DEF Bumped, Row, QueueAssumption

\* Ended is a row with the outcome it was given.
LEMMA EndedTyped ==
  ASSUME QueueAssumption, NEW r \in Row, NEW outcome \in Terminal, NEW seq \in 0..MaxSeq
  PROVE  /\ Ended(r, outcome, seq) \in Row
         /\ Ended(r, outcome, seq).status = outcome
         /\ Ended(r, outcome, seq).scope = r.scope
         /\ Ended(r, outcome, seq).device = r.device
         /\ Ended(r, outcome, seq).retry = r.retry
         /\ Ended(r, outcome, seq).version = r.version
  BY ZenonT(30) DEF Ended, Row

\* A new row is a row.
LEMMA NewRowTyped ==
  ASSUME QueueAssumption, NEW status \in {"none"} \cup Active \cup Terminal,
         NEW scope \in Scope, NEW approval \in BOOLEAN, NEW prev \in 0..MaxRows,
         NEW root \in Ids
  PROVE  /\ NewRow(status, scope, approval, prev, root) \in Row
         /\ NewRow(status, scope, approval, prev, root).status = status
         /\ NewRow(status, scope, approval, prev, root).device = None
<1>1. 0 \in 0..MaxSeq /\ 0 \in 0..MaxVersion /\ 0 \in 0..MaxRetries
  BY DEF MaxSeq, QueueAssumption
<1>. QED
  BY <1>1 DEF NewRow, Row

\* So is the row of an id that is not allocated.
LEMMA NoRowTyped ==
  ASSUME QueueAssumption
  PROVE  NoRow \in Row /\ NoRow.status = "none" /\ NoRow.device = None
<1>1. PICK issue \in Issue, processor \in Processor : TRUE
  BY DEF QueueAssumption
<1>2. \E s \in Scope : TRUE
  <2>1. <<issue, processor>> \in Scope
    BY DEF Scope
  <2>. QED
    BY <2>1
<1>3. (CHOOSE s \in Scope : TRUE) \in Scope
  BY <1>2
<1>4. 0 \in 0..MaxRows /\ 1 \in Ids
  BY DEF QueueAssumption, Ids
<1>5. NoRow \in Row
  BY <1>3, <1>4, NewRowTyped DEF NoRow
<1>. QED
  BY <1>5 DEF NoRow, NewRow

\* A requeued row keeps scope, retry count and version.
LEMMA RequeuedTyped ==
  ASSUME NEW r \in Row
  PROVE  /\ Requeued(r) \in Row
         /\ Requeued(r).status = "queued"
         /\ Requeued(r).scope = r.scope
         /\ Requeued(r).device = r.device
         /\ Requeued(r).retry = r.retry
         /\ Requeued(r).version = r.version
  BY DEF Requeued, Row, Active, Pending

\* A conditional write of one allocated row.
LEMMA WriteKeeps ==
  ASSUME QueueAssumption, TypeOK, NEW i \in Ids, i <= count, NEW won \in BOOLEAN,
         NEW new \in Row, new.version < MaxVersion,
         new.scope = row[i].scope, new.device = row[i].device,
         new.retry = row[i].retry, Write(i, won, new)
  PROVE  KeepsTo(i, IF won THEN new.status ELSE row[i].status)
<1>1. Bumped(i, new) \in Row /\ Bumped(i, new).scope = row[i].scope
        /\ Bumped(i, new).device = row[i].device /\ Bumped(i, new).retry = row[i].retry
        /\ Bumped(i, new).status = new.status
  BY BumpedTyped
<1>2. count' = count /\ count \in 0..MaxRows /\ MaxRows \in Nat
  BY DEF Write, TypeOK, QueueAssumption
<1>3. row' \in [Ids -> Row]
  BY <1>1 DEF Write, TypeOK
<1>4. \A j \in Ids : row'[j] = row[j] \/ (j = i /\ row'[j] = Bumped(i, new))
  BY <1>1 DEF Write, TypeOK
<1>5. row'[i].status = IF won THEN new.status ELSE row[i].status
  BY <1>1 DEF Write, TypeOK
<1>6. run' \in [Ids -> {"open", "succeeded", "failed", "cancelled"}]
  BY DEF Write, TypeOK
<1>7. Keeps
  BY <1>1, <1>2, <1>3, <1>4, <1>6 DEF Keeps, Ids
<1>. QED
  BY <1>4, <1>5, <1>7 DEF KeepsTo

\* Ending an attempt keeps the table.
LEMMA TerminateKeeps ==
  ASSUME QueueAssumption, TypeOK, NEW i \in Ids, i <= count, NEW won \in BOOLEAN, Room(i),
         NEW outcome \in Terminal, NEW seq \in 0..MaxSeq, Terminate(i, won, outcome, seq)
  PROVE  KeepsTo(i, IF won THEN outcome ELSE row[i].status)
<1>. DEFINE new == Bumped(i, Ended(row[i], outcome, seq))
<1>0. row[i] \in Row
  BY DEF TypeOK
<1>1. new \in Row /\ new.scope = row[i].scope /\ new.status = outcome
        /\ new.device = row[i].device /\ new.retry = row[i].retry
  BY <1>0, BumpedTyped, EndedTyped DEF Room
<1>2. count' = count /\ count \in 0..MaxRows /\ MaxRows \in Nat
  BY DEF Terminate, TypeOK, QueueAssumption
<1>3. row' \in [Ids -> Row]
  BY <1>1 DEF Terminate, TypeOK
<1>4. \A j \in Ids : row'[j] = row[j] \/ (j = i /\ row'[j] = new)
  BY <1>1 DEF Terminate, TypeOK
<1>5. run' \in [Ids -> {"open", "succeeded", "failed", "cancelled"}]
  <2>1. RunOutcome[outcome] \in {"open", "succeeded", "failed", "cancelled"}
    BY DEF RunOutcome, Terminal
  <2>. QED
    BY <2>1 DEF Terminate, TypeOK
<1>6. row'[i].status = IF won THEN outcome ELSE row[i].status
  BY <1>1 DEF Terminate, TypeOK
<1>. HIDE DEF new
<1>7. Keeps
  BY <1>1, <1>2, <1>3, <1>4, <1>5 DEF Keeps, Ids
<1>. QED
  BY <1>4, <1>6, <1>7 DEF KeepsTo

\* An attempt ends as failed, and its retry takes the next row.
LEMMA FailAndRetryKeeps ==
  ASSUME QueueAssumption, TypeOK, NEW i \in Ids, i <= count, NEW won \in BOOLEAN, Room(i),
         row[i].retry < MaxRetries, NEW seq \in 0..MaxSeq, FailAndRetry(i, won, seq)
  PROVE  KeepsTo(i, IF won THEN "failed" ELSE row[i].status)
<1>. DEFINE failed == Bumped(i, Ended(row[i], "failed", seq))
            retry  == RetryOf(row[i], i)
<1>0. row[i] \in Row /\ MaxRows \in Nat /\ MaxRetries \in Nat /\ count \in 0..MaxRows
        /\ "failed" \in Terminal /\ i \in 0..MaxRows
  BY DEF TypeOK, QueueAssumption, Terminal, Ids
<1>1. failed \in Row /\ failed.scope = row[i].scope /\ failed.status = "failed"
        /\ failed.device = row[i].device /\ failed.retry = row[i].retry
  BY <1>0, BumpedTyped, EndedTyped DEF Room
<1>2. retry \in Row /\ retry.status = "queued" /\ retry.device = None
  <2>. DEFINE new == NewRow("queued", row[i].scope, FALSE, i, row[i].run)
  <2>1. new \in Row /\ new.status = "queued" /\ new.device = None
    <3>1. row[i].scope \in Scope /\ row[i].run \in Ids
      BY <1>0 DEF Row
    <3>2. "queued" \in {"none"} \cup Active \cup Terminal
      BY DEF Active, Pending
    <3>3. new \in Row
      BY <1>0, <3>1, <3>2, NewRowTyped
    <3>. QED
      BY <3>3 DEF NewRow
  <2>2. row[i].retry + 1 \in 0..MaxRetries
    BY <1>0 DEF Row
  <2>. QED
    BY <2>1, <2>2 DEF RetryOf, Row
<1>3. CASE won \/ row[i].status = "failed"
  <2>1. count < MaxRows /\ count' = count + 1 /\ count + 1 \in Ids /\ i # count + 1
    BY <1>0, <1>3 DEF FailAndRetry, Ids
  <2>2. row' \in [Ids -> Row]
    BY <1>1, <1>2, <1>3, <2>1 DEF FailAndRetry, TypeOK
  <2>3. \A j \in Ids : j # count + 1 => row'[j] = row[j] \/ (j = i /\ row'[j] = failed)
    BY <1>3, <2>1 DEF FailAndRetry, TypeOK
  <2>4. row'[count + 1] = retry
    BY <1>3, <2>1 DEF FailAndRetry, TypeOK
  <2>5. run' \in [Ids -> {"open", "succeeded", "failed", "cancelled"}]
    BY <1>3 DEF FailAndRetry, TypeOK
  <2>6. row'[i].status = IF won THEN "failed" ELSE row[i].status
    BY <1>1, <1>3, <2>1 DEF FailAndRetry, TypeOK
  <2>. HIDE DEF failed, retry
  <2>7. Keeps
    BY <1>0, <1>1, <1>2, <2>1, <2>2, <2>3, <2>4, <2>5 DEF Keeps, Ids
  <2>8. \A j \in Ids : j <= count /\ j # i => row'[j].status = row[j].status
    BY <1>0, <2>3 DEF Ids
  <2>. QED
    BY <2>6, <2>7, <2>8 DEF KeepsTo
<1>4. CASE ~(won \/ row[i].status = "failed")
  BY <1>0, <1>4 DEF FailAndRetry, TypeOK, Keeps, KeepsTo, Ids
<1>. QED
  BY <1>3, <1>4

\* Failing an attempt keeps the table, with or without a retry.
LEMMA FailKeeps ==
  ASSUME QueueAssumption, TypeOK, NEW i \in Ids, i <= count, NEW won \in BOOLEAN, Room(i),
         NEW r \in Row, r.retry = row[i].retry, NEW seq \in 0..MaxSeq,
         Fail(i, r, won, seq)
  PROVE  KeepsTo(i, IF won THEN "failed" ELSE row[i].status)
  BY FailAndRetryKeeps, TerminateKeeps DEF Fail, Terminal

\* The columns an ORM flush leaves alone, or writes, are columns of the row.
LEMMA ObservedTyped ==
  ASSUME TypeOK, NEW i \in Ids, NEW r \in Row, NEW state \in {"accepted", "running"}
  PROVE  /\ Observed(i, r, state) \in Row
         /\ Observed(i, r, state).version = r.version
         /\ Observed(i, r, state).status = row[i].status
         /\ Observed(i, r, state).scope = row[i].scope
         /\ Observed(i, r, state).device = row[i].device
         /\ Observed(i, r, state).retry = row[i].retry
<1>. DEFINE q == row[i]
            o == Column(r.observed, q.observed, state)
            s == Column(r.sync, q.sync, "in_sync")
            t == Column(r.timedOut, q.timedOut, FALSE)
<1>1. q \in Row
  BY DEF TypeOK
<1>2. /\ o \in {"unconfirmed", "accepted", "running"} \cup Terminal
      /\ s \in {"pending", "in_sync", "stale", "diverged"}
      /\ t \in BOOLEAN
  BY <1>1 DEF Row, Column
<1>3. Observed(i, r, state) = [q EXCEPT !.observed = o, !.sync = s, !.timedOut = t,
                                        !.version = r.version]
  BY DEF Observed
<1>. HIDE DEF q, o, s, t
<1>4. Observed(i, r, state) \in Row
  BY ZenonT(30), <1>1, <1>2, <1>3 DEF Row
<1>5. /\ Observed(i, r, state).version = r.version
      /\ Observed(i, r, state).status = q.status
      /\ Observed(i, r, state).scope = q.scope
      /\ Observed(i, r, state).device = q.device
      /\ Observed(i, r, state).retry = q.retry
  BY <1>1, <1>3 DEF Row
<1>. QED
  BY <1>4, <1>5 DEF q

\* A write through the ORM keeps the table.
LEMMA FlushKeeps ==
  ASSUME QueueAssumption, TypeOK, NEW i \in Ids, i <= count, NEW r \in Row,
         r.version < MaxVersion
  PROVE  /\ Accept(i, r) => KeepsTo(i, row[i].status)
         /\ ReconcileRunning(i, r) =>
              KeepsTo(i, Column(r.status, row[i].status, StillRunning(r)))
         /\ ReconcileAccepted(i, r) => KeepsTo(i, row[i].status)
         /\ Write(i, TRUE, Diverged(i, r)) => KeepsTo(i, row[i].status)
<1>1. Column(r.fenced, Observed(i, r, "accepted").fenced, TRUE) \in BOOLEAN
  BY ObservedTyped DEF Row, Column
<1>2. Column(r.status, row[i].status, StillRunning(r))
        \in {"none"} \cup Active \cup Terminal
  BY DEF TypeOK, Row, Column, StillRunning, Active, Capacity
<1>3. ASSUME Accept(i, r)
      PROVE  KeepsTo(i, row[i].status)
  <2>. DEFINE q   == Observed(i, r, "accepted")
              f   == Column(r.fenced, q.fenced, TRUE)
              new == [q EXCEPT !.fenced = f, !.lease = "live"]
  <2>1. /\ q \in Row /\ q.version = r.version /\ q.scope = row[i].scope
        /\ q.device = row[i].device /\ q.retry = row[i].retry
        /\ q.status = row[i].status /\ f \in BOOLEAN
    BY <1>1, ObservedTyped
  <2>2. Write(i, TRUE, new)
    BY <1>3 DEF Accept
  <2>. HIDE DEF q, f
  <2>3. new \in Row
    BY ZenonT(30), <2>1 DEF Row
  <2>4. /\ new.version = q.version /\ new.scope = q.scope
        /\ new.device = q.device /\ new.retry = q.retry
        /\ new.status = q.status
    BY <2>1 DEF Row
  <2>. HIDE DEF new
  <2>5. KeepsTo(i, new.status)
    BY <2>1, <2>2, <2>3, <2>4, WriteKeeps
  <2>. QED
    BY <2>1, <2>4, <2>5
<1>4. ASSUME ReconcileRunning(i, r)
      PROVE  KeepsTo(i, Column(r.status, row[i].status, StillRunning(r)))
  <2>. DEFINE q   == Observed(i, r, "running")
              s   == Column(r.status, row[i].status, StillRunning(r))
              new == [q EXCEPT !.status = s]
  <2>1. /\ q \in Row /\ q.version = r.version /\ q.scope = row[i].scope
        /\ q.device = row[i].device /\ q.retry = row[i].retry
        /\ q.status = row[i].status /\ s \in {"none"} \cup Active \cup Terminal
    BY <1>2, ObservedTyped
  <2>2. Write(i, TRUE, new)
    BY <1>4, <2>1 DEF ReconcileRunning
  <2>. HIDE DEF q, s
  <2>3. new \in Row
    BY <2>1 DEF Row
  <2>4. /\ new.version = q.version /\ new.scope = q.scope
        /\ new.device = q.device /\ new.retry = q.retry
        /\ new.status = s
    BY <2>1 DEF Row
  <2>. HIDE DEF new
  <2>5. KeepsTo(i, new.status)
    BY <2>1, <2>2, <2>3, <2>4, WriteKeeps
  <2>. QED
    BY <2>1, <2>4, <2>5 DEF s, q
<1>5. ASSUME ReconcileAccepted(i, r)
      PROVE  KeepsTo(i, row[i].status)
  <2>. DEFINE q   == Observed(i, r, "accepted")
              new == [q EXCEPT !.lease = "live"]
  <2>1. /\ q \in Row /\ q.version = r.version /\ q.scope = row[i].scope
        /\ q.device = row[i].device /\ q.retry = row[i].retry
        /\ q.status = row[i].status
    BY ObservedTyped
  <2>2. Write(i, TRUE, new)
    BY <1>5 DEF ReconcileAccepted
  <2>. HIDE DEF q
  <2>3. new \in Row
    BY <2>1 DEF Row
  <2>4. /\ new.version = q.version /\ new.scope = q.scope
        /\ new.device = q.device /\ new.retry = q.retry
        /\ new.status = q.status
    BY <2>1 DEF Row
  <2>. HIDE DEF new
  <2>5. KeepsTo(i, new.status)
    BY <2>1, <2>2, <2>3, <2>4, WriteKeeps
  <2>. QED
    BY <2>1, <2>4, <2>5
<1>6. ASSUME Write(i, TRUE, Diverged(i, r))
      PROVE  KeepsTo(i, row[i].status)
  <2>. DEFINE q   == row[i]
              s   == Column(r.sync, q.sync, "diverged")
              new == [q EXCEPT !.sync = s, !.version = r.version]
  <2>1. q \in Row /\ s \in {"pending", "in_sync", "stale", "diverged"}
    BY DEF TypeOK, Row, Column
  <2>2. Write(i, TRUE, new)
    BY <1>6 DEF Diverged
  <2>. HIDE DEF q, s
  <2>3. new \in Row
    BY ZenonT(30), <2>1 DEF Row
  <2>4. /\ new.version = r.version /\ new.scope = q.scope
        /\ new.device = q.device /\ new.retry = q.retry
        /\ new.status = q.status
    BY <2>1 DEF Row
  <2>. HIDE DEF new
  <2>5. KeepsTo(i, new.status)
    BY <2>2, <2>3, <2>4, WriteKeeps DEF q
  <2>. QED
    BY <2>4, <2>5 DEF q
<1>. QED
  BY <1>3, <1>4, <1>5, <1>6

\* A call carries an event number, and an outcome when it ends a turn.
LEMMA CallTyped ==
  ASSUME QueueAssumption, NEW c \in Call
  PROVE  /\ c.id \in Ids /\ c.seq \in 0..MaxSeq /\ 0 \in 0..MaxSeq
         /\ c.op = "finish" => c.arg \in Terminal
         /\ c.op = "snapshot" => c.arg \in Reports
  BY DEF Call, MaxSeq, QueueAssumption

\* The columns that a conditional write sets.
LEMMA ColumnsTyped ==
  ASSUME NEW r \in Row, NEW seq \in 0..MaxSeq,
         NEW status \in {"cancel_requested", "running"},
         NEW new \in {CancelRequested(r), StartUnknown(r), Progressed(r, status, seq)}
  PROVE  /\ new \in Row /\ new.version = r.version /\ new.scope = r.scope
         /\ new.device = r.device /\ new.retry = r.retry
<1>1. status \in {"none"} \cup Active \cup Terminal
  BY DEF Active, Capacity
<1>2. new \in Row
  <2>1. CancelRequested(r) \in Row
    BY DEF CancelRequested, Row, Active, Capacity
  <2>2. StartUnknown(r) \in Row
    BY DEF StartUnknown, Row
  <2>3. Progressed(r, status, seq) \in Row
    BY <1>1 DEF Progressed, Row
  <2>. QED
    BY <2>1, <2>2, <2>3
<1>3. CASE new = CancelRequested(r)
  BY <1>2, <1>3 DEF CancelRequested, Row
<1>4. CASE new = StartUnknown(r)
  BY <1>2, <1>4 DEF StartUnknown, Row
<1>5. CASE new = Progressed(r, status, seq)
  BY <1>2, <1>5 DEF Progressed, Row
<1>. QED
  BY <1>3, <1>4, <1>5

\* A conditional write of those columns keeps the table.
LEMMA ColumnsKept ==
  ASSUME QueueAssumption, TypeOK, NEW i \in Ids, i <= count, Room(i), NEW won \in BOOLEAN,
         NEW seq \in 0..MaxSeq, NEW status \in {"cancel_requested", "running"}
  PROVE  /\ Write(i, won, CancelRequested(row[i])) =>
              KeepsTo(i, IF won THEN "cancel_requested" ELSE row[i].status)
         /\ Write(i, won, StartUnknown(row[i])) => KeepsTo(i, row[i].status)
         /\ Write(i, won, Requeued(row[i])) =>
              KeepsTo(i, IF won THEN "queued" ELSE row[i].status)
         /\ Write(i, won, Progressed(row[i], status, seq)) =>
              KeepsTo(i, IF won THEN status ELSE row[i].status)
<1>0. row[i] \in Row /\ row[i].version < MaxVersion
  BY DEF TypeOK, Room
<1>1. ASSUME NEW new \in {CancelRequested(row[i]), StartUnknown(row[i]), Requeued(row[i]),
                          Progressed(row[i], status, seq)}, Write(i, won, new)
      PROVE  KeepsTo(i, IF won THEN new.status ELSE row[i].status)
  <2>1. /\ new \in Row /\ new.version = row[i].version /\ new.scope = row[i].scope
        /\ new.device = row[i].device /\ new.retry = row[i].retry
    BY <1>0, ColumnsTyped, RequeuedTyped
  <2>. QED
    BY <1>0, <1>1, <2>1, WriteKeeps
<1>2. /\ CancelRequested(row[i]).status = "cancel_requested"
      /\ StartUnknown(row[i]).status = row[i].status
      /\ Requeued(row[i]).status = "queued"
      /\ Progressed(row[i], status, seq).status = status
  <2>1. CancelRequested(row[i]).status = "cancel_requested"
    BY <1>0 DEF CancelRequested, Row
  <2>2. StartUnknown(row[i]).status = row[i].status
    BY <1>0 DEF StartUnknown, Row
  <2>3. Progressed(row[i], status, seq).status = status
    BY <1>0 DEF Progressed, Row
  <2>. QED
    BY <1>0, <2>1, <2>2, <2>3, RequeuedTyped
<1>. QED
  BY <1>1, <1>2

\* approve and reject write one row that keeps its version.
LEMMA ApprovalKeeps ==
  ASSUME QueueAssumption, TypeOK, NEW i \in Ids, i <= count
  PROVE  /\ Approve(i) => \E s \in {"waiting_runtime", "queued"} : KeepsTo(i, s)
         /\ Reject(i) => KeepsTo(i, "cancelled")
<1>0. row[i] \in Row /\ count \in 0..MaxRows /\ MaxRows \in Nat
  BY DEF TypeOK, QueueAssumption
<1>1. ASSUME NEW new \in Row, row' = [row EXCEPT ![i] = new], count' = count,
             new.scope = row[i].scope, new.device = row[i].device,
             new.retry = row[i].retry,
             run' \in [Ids -> {"open", "succeeded", "failed", "cancelled"}]
      PROVE  KeepsTo(i, new.status)
  <2>1. row' \in [Ids -> Row]
    BY <1>1 DEF TypeOK
  <2>2. row'[i] = new /\ \A j \in Ids : j # i => row'[j] = row[j]
    BY <1>1 DEF TypeOK
  <2>. QED
    BY <1>0, <1>1, <2>1, <2>2 DEF Keeps, KeepsTo, Ids
<1>2. ASSUME Approve(i) PROVE \E s \in {"waiting_runtime", "queued"} : KeepsTo(i, s)
  <2>1. PICK s \in {"waiting_runtime", "queued"} :
          row' = [row EXCEPT ![i] = [row[i] EXCEPT !.approval = FALSE, !.status = s]]
    BY <1>2 DEF Approve, TypeOK
  <2>. DEFINE new == [row[i] EXCEPT !.approval = FALSE, !.status = s]
  <2>2. new \in Row
    BY <1>0 DEF Row, Active, Pending
  <2>3. /\ new.scope = row[i].scope /\ new.device = row[i].device
        /\ new.retry = row[i].retry /\ new.status = s
    BY <1>0 DEF Row
  <2>4. count' = count /\ run' = run
    BY <1>2 DEF Approve
  <2>5. row' = [row EXCEPT ![i] = new]
    BY <2>1
  <2>. HIDE DEF new
  <2>6. run' \in [Ids -> {"open", "succeeded", "failed", "cancelled"}]
    BY <2>4 DEF TypeOK
  <2>7. KeepsTo(i, new.status)
    BY <1>1, <2>2, <2>3, <2>4, <2>5, <2>6
  <2>. QED
    BY <2>3, <2>7
<1>3. ASSUME Reject(i) PROVE KeepsTo(i, "cancelled")
  <2>. DEFINE new == [row[i] EXCEPT !.status = "cancelled", !.approval = FALSE,
                                    !.observed = "cancelled", !.sync = "in_sync"]
  <2>1. new \in Row
    BY <1>0 DEF Row, Terminal
  <2>2. /\ new.scope = row[i].scope /\ new.device = row[i].device
        /\ new.retry = row[i].retry /\ new.status = "cancelled"
    BY <1>0 DEF Row
  <2>3. /\ row' = [row EXCEPT ![i] = new] /\ count' = count
        /\ run' \in [Ids -> {"open", "succeeded", "failed", "cancelled"}]
    BY <1>3 DEF Reject, TypeOK
  <2>. HIDE DEF new
  <2>4. KeepsTo(i, new.status)
    BY <1>1, <2>1, <2>2, <2>3
  <2>. QED
    BY <2>2, <2>4
<1>. QED
  BY <1>2, <1>3

\* Whatever a handler decides, it keeps the table what it is, and gives its
\* row a status that its call and its read permit.
LEMMA HandleKeeps ==
  ASSUME QueueAssumption, TypeOK, NEW c \in Call, c.op \in ServiceOps, c.id <= count,
         Room(c.id), NEW r \in Row, r.version < MaxVersion, r.status \in Active,
         c.op = "snapshot" => r.retry = row[c.id].retry,
         c.op = "finish" => r = row[c.id], Handle(c, r)
  PROVE  \E s : KeepsTo(c.id, s) /\ Permits(c, r, row[c.id], s)
<1>. DEFINE i   == c.id
            now == row[i]
            ok(s) == KeepsTo(i, s) /\ Permits(c, r, now, s)
<1>0. /\ i \in Ids /\ i <= count /\ Room(i) /\ c.seq \in 0..MaxSeq /\ 0 \in 0..MaxSeq
      /\ now \in Row
      /\ "failed" \in Terminal /\ "cancelled" \in Terminal /\ "completed" \in Terminal
  BY CallTyped DEF TypeOK, Terminal
<1>1. SameRead(i, r) \in BOOLEAN /\ TRUE \in BOOLEAN
  BY DEF SameRead
<1>a. ASSUME NEW outcome \in Terminal, NEW won \in BOOLEAN, won => now.status \in Active,
             KeepsTo(i, IF won THEN outcome ELSE now.status)
      PROVE  \E s : ok(s)
  BY <1>a DEF Permits
<1>b. SameRead(i, r) => now.status \in Active
  BY DEF SameRead
<1>c. KeepsTo(i, now.status) => \E s : ok(s)
  BY DEF Permits
<1>2. ASSUME NEW outcome \in Terminal, Terminate(i, SameRead(i, r), outcome, 0)
      PROVE  \E s : ok(s)
  BY <1>0, <1>1, <1>2, <1>a, <1>b, TerminateKeeps
<1>3. CASE c.op = "cancel"
  <2>1. Cancel(i, r)
    BY <1>3 DEF Handle
  <2>. DEFINE won == now.status \in {"claimed", "running"} /\ now.version = r.version
  <2>2. won \in BOOLEAN
    OBVIOUS
  <2>3. ASSUME Write(i, won, CancelRequested(now)) PROVE \E s : ok(s)
    <3>1. KeepsTo(i, IF won THEN "cancel_requested" ELSE now.status)
      BY <1>0, <2>2, <2>3, ColumnsKept
    <3>. QED
      BY <3>1 DEF Permits
  <2>. QED
    BY <1>0, <1>2, <2>1, <2>3 DEF Cancel
<1>4. CASE c.op = "approve"
  BY <1>0, <1>4, ApprovalKeeps DEF Handle, Permits
<1>5. CASE c.op = "reject"
  BY <1>0, <1>5, ApprovalKeeps DEF Handle, Permits
<1>6. CASE c.op \in {"preflight", "ack_rejected"}
  BY <1>0, <1>2, <1>6 DEF Handle, Refuse
<1>7. MarkUnknown(i, r) => \E s : ok(s)
  <2>1. (now.version = r.version /\ now.status \in Capacity) \in BOOLEAN
    OBVIOUS
  <2>. QED
    BY <1>0, <1>c, <2>1, ColumnsKept DEF MarkUnknown
<1>8. CASE c.op = "unknown"
  BY <1>7, <1>8 DEF Handle
<1>9. CASE c.op = "recover"
  <2>1. Recover(i, r)
    BY <1>9 DEF Handle
  <2>. DEFINE won == now.status \in Active
  <2>2. won \in BOOLEAN
    OBVIOUS
  <2>3. ASSUME r.status = "claimed", ~r.fenced, Write(i, won, Requeued(now)) PROVE \E s : ok(s)
    <3>1. KeepsTo(i, IF won THEN "queued" ELSE now.status)
      BY <1>0, <2>2, <2>3, ColumnsKept
    <3>. QED
      BY <1>9, <2>3, <3>1 DEF Permits
  <2>. QED
    BY <1>7, <2>1, <2>3 DEF Recover
<1>10. CASE c.op = "ack_ok"
  BY <1>0, <1>10, <1>c, FlushKeeps DEF Handle
<1>11. CASE c.op = "observe"
  <2>. DEFINE won == now.version = r.version /\ now.status \in Capacity /\ now.seq < c.seq
  <2>1. Write(i, won, Progressed(now, StillRunning(r), c.seq))
    BY <1>11 DEF Handle, Observe
  <2>2. won \in BOOLEAN /\ StillRunning(r) \in {"cancel_requested", "running"}
    BY DEF StillRunning
  <2>3. KeepsTo(i, IF won THEN StillRunning(r) ELSE now.status)
    BY <1>0, <2>1, <2>2, ColumnsKept
  <2>. QED
    BY <1>11, <2>3 DEF Permits
<1>12. CASE c.op = "finish"
  <2>1. c.arg \in Terminal /\ Settle(i, c.arg, c.seq) /\ now.status \in Active
    BY <1>12, CallTyped DEF Handle
  <2>2. ASSUME NEW outcome \in Terminal, Terminate(i, TRUE, outcome, c.seq)
        PROVE  \E s : ok(s)
    BY <1>0, <1>1, <1>a, <2>1, <2>2, TerminateKeeps
  <2>3. ASSUME Fail(i, now, TRUE, c.seq) PROVE \E s : ok(s)
    BY <1>0, <1>1, <1>a, <2>1, <2>3, FailKeeps
  <2>. QED
    BY <1>0, <2>1, <2>2, <2>3 DEF Settle, Terminal
<1>13. CASE c.op = "snapshot"
  <2>1. c.arg \in Reports /\ Reconcile(i, r, c.arg)
    BY <1>13, CallTyped DEF Handle
  <2>2. ASSUME Fail(i, r, SameRead(i, r), 0) PROVE \E s : ok(s)
    BY <1>0, <1>1, <1>13, <1>a, <1>b, <2>2, FailKeeps
  <2>3. ASSUME c.arg = "missing", ReconcileMissing(i, r) PROVE \E s : ok(s)
    <3>1. ASSUME Terminate(i, now.status = "cancel_requested", "cancelled", 0)
          PROVE  \E s : ok(s)
      <4>1. (now.status = "cancel_requested") \in BOOLEAN
            /\ (now.status = "cancel_requested" => now.status \in Active)
        BY DEF Active, Capacity
      <4>. QED
        BY <1>0, <1>a, <3>1, <4>1, TerminateKeeps
    <3>2. ASSUME r.status = "claimed", r.timedOut, Write(i, SameRead(i, r), Requeued(now))
          PROVE  \E s : ok(s)
      <4>1. KeepsTo(i, IF SameRead(i, r) THEN "queued" ELSE now.status)
        BY <1>0, <1>1, <3>2, ColumnsKept
      <4>2. SameRead(i, r) => Permits(c, r, now, "queued")
        BY <1>13, <1>b, <2>3, <3>2 DEF Permits, SameRead
      <4>. QED
        BY <1>c, <4>1, <4>2
    <3>3. Write(i, TRUE, Diverged(i, r)) => \E s : ok(s)
      BY <1>0, <1>c, FlushKeeps
    <3>. QED
      BY <2>3, <3>1, <3>2, <3>3 DEF ReconcileMissing
  <2>4. ReconcileAccepted(i, r) => \E s : ok(s)
    BY <1>0, <1>c, FlushKeeps
  <2>5. ReconcileRunning(i, r) => \E s : ok(s)
    BY <1>0, <1>13, FlushKeeps DEF Permits, Column
  <2>. QED
    BY <1>0, <1>2, <2>1, <2>2, <2>3, <2>4, <2>5 DEF Reconcile, Reports
<1>. QED
  BY <1>3, <1>4, <1>5, <1>6, <1>8, <1>9, <1>10, <1>11, <1>12, <1>13
     DEF ServiceOps, CasHandlers, BlindHandlers

-----------------------------------------------------------------------------
(***************************************************************************)
(* Every step keeps the inductive invariant.                               *)
(***************************************************************************)
\* What is not "none" has been allocated.
LEMMA AllocatedRow ==
  ASSUME QueueAssumption, TypeOK, RowsInOrder, NEW i \in Ids, row[i].status # "none"
  PROVE  i <= count /\ i \in Allocated
  BY DEF TypeOK, RowsInOrder, Ids, Allocated, QueueAssumption

\* A handler runs on allocated rows only.
LEMMA AppliesAllocated ==
  ASSUME QueueAssumption, TypeOK, RowsInOrder, NEW c \in Call, c.op \in ServiceOps,
         Applies(c, row[c.id])
  PROVE  c.id <= count /\ row[c.id].status \in Active
<1>1. c.id \in Ids
  BY CallTyped
<1>2. row[c.id].status \in Active /\ row[c.id].status # "none"
  BY DEF Applies, CancelApplies, ApprovalApplies, PreflightApplies, UnknownApplies,
         RecoverApplies, AcceptApplies, ObserveApplies, Active, Pending, Capacity
<1>. QED
  BY <1>1, <1>2, AllocatedRow

\* A step that keeps the table and opens no handler keeps the invariant.
LEMMA KeepsStep ==
  ASSUME QueueAssumption, IInv, Keeps, open' \subseteq open, net' \subseteq Call,
         binding' \in [Issue -> Device \cup {None}], task' = task
  PROVE  IInv'
<1>1. count \in Nat /\ count' \in 0..MaxRows /\ count <= count' /\ MaxRows \in Nat
  BY DEF IInv, TypeOK, Keeps, QueueAssumption
<1>2. TypeOK'
  BY <1>1 DEF IInv, TypeOK, Keeps
<1>3. RowsInOrder'
  <2>. SUFFICES ASSUME NEW j \in Ids, j > count' PROVE row'[j].status = "none"
    BY DEF RowsInOrder
  <2>. QED
    BY <1>1 DEF IInv, RowsInOrder, Keeps, Ids
<1>4. ReadsFit'
  <2>. SUFFICES ASSUME NEW o \in open
                PROVE  /\ o.call.op \in Overlapping /\ o.call.id <= count'
                       /\ o.read.version < MaxVersion /\ o.read.status \in Active
                       /\ o.call.op = "snapshot" => o.read.retry = row'[o.call.id].retry
                       /\ o.call.op = "approve" => o.read.status = "pending_approval"
    BY DEF ReadsFit
  <2>1. o.call.id \in Ids /\ o.call.id <= count
    BY CallTyped DEF IInv, TypeOK, ReadsFit, Open
  <2>2. o.call.id <= count'
    BY <1>1, <2>1 DEF Ids
  <2>. QED
    BY <2>1, <2>2 DEF IInv, ReadsFit, Keeps
<1>5. TurnBudget'
  BY DEF IInv, TurnBudget
<1>. QED
  BY <1>2, <1>3, <1>4, <1>5 DEF IInv

\* A handler that reads and writes in one step.
LEMMA ServeStep ==
  ASSUME QueueAssumption, IInv, NEW c \in Call, c.op \in ServiceOps, Serve(c)
  PROVE  IInv'
<1>1. c.id \in Ids /\ row[c.id] \in Row /\ c.id <= count /\ row[c.id].status \in Active
  BY CallTyped, AppliesAllocated DEF IInv, TypeOK, Serve
<1>2. Keeps
  BY <1>1, HandleKeeps DEF IInv, Serve, Room, KeepsTo
<1>3. net' \subseteq Call
  BY DEF Serve, Taken, IInv, TypeOK
<1>. QED
  BY <1>2, <1>3, KeepsStep DEF Serve, IInv, TypeOK

\* A handler that writes what it decided on an earlier read.
LEMMA FinishStep ==
  ASSUME QueueAssumption, IInv, NEW o \in open, Finish(o)
  PROVE  IInv'
<1>1. /\ o.call \in Call /\ o.read \in Row /\ o.call.id <= count
      /\ o.call.op \in ServiceOps /\ o.read.version < MaxVersion
      /\ o.call.op = "snapshot" => o.read.retry = row[o.call.id].retry
      /\ o.call.op # "finish" /\ o.read.status \in Active
  BY DEF IInv, TypeOK, ReadsFit, Open, QueueAssumption, ServiceOps, CasHandlers, BlindHandlers
<1>2. Keeps
  BY <1>1, HandleKeeps DEF IInv, Finish, KeepsTo
<1>. QED
  BY <1>2, KeepsStep DEF Finish, IInv, TypeOK

\* A handler that has read and not yet written.
LEMMA BeginStep ==
  ASSUME QueueAssumption, IInv, NEW c \in Call, c.op \in ServiceOps, Begin(c)
  PROVE  IInv'
<1>. DEFINE r == row[c.id]
            o == [call |-> c, read |-> Kept(c, r)]
<1>1. /\ c.id \in Ids /\ r \in Row /\ c.id <= count /\ r.version < MaxVersion
      /\ r.status \in Active
  BY CallTyped, AppliesAllocated DEF IInv, TypeOK, Begin, Room
<1>2. Kept(c, r) \in Row /\ Kept(c, r).version = r.version /\ Kept(c, r).status = r.status
        /\ (c.op = "snapshot" => Kept(c, r) = r)
  <2>1. NoRow \in Row
    BY NoRowTyped
  <2>2. CASE c.op \in CasHandlers \cup {"recover"}
    <3>. DEFINE k == [NoRow EXCEPT !.status = r.status, !.fenced = r.fenced,
                                   !.version = r.version]
    <3>1. Kept(c, r) = k
      BY <2>2 DEF Kept
    <3>. HIDE DEF r
    <3>2. k \in Row
      BY <1>1, <2>1 DEF Row
    <3>3. k.version = r.version /\ k.status = r.status
      BY <2>1 DEF Row
    <3>. QED
      BY <2>2, <3>1, <3>2, <3>3 DEF CasHandlers
  <2>3. CASE c.op \notin CasHandlers \cup {"recover"}
    BY <1>1, <2>3 DEF Kept
  <2>. QED
    BY <2>2, <2>3
<1>3. open' = open \cup {o} /\ c.op \in Overlapping /\ net' \subseteq net
      /\ UNCHANGED <<count, row, run, binding, task>>
  BY DEF Begin, Taken
<1>. HIDE DEF o
<1>4. o \in Open /\ o.call = c /\ o.read = Kept(c, r)
  BY <1>2 DEF Open, o
<1>5. TypeOK'
  BY <1>3, <1>4 DEF IInv, TypeOK
<1>6. c.op = "approve" => r.status = "pending_approval"
  BY DEF Begin, Applies, ApprovalApplies
<1>7. ReadsFit'
  BY <1>1, <1>2, <1>3, <1>4, <1>6 DEF IInv, ReadsFit
<1>. QED
  BY <1>3, <1>5, <1>7 DEF IInv, RowsInOrder, TurnBudget

\* A step that writes one allocated row, without its retry counter.
LEMMA RowStep ==
  ASSUME QueueAssumption, IInv, NEW i \in Ids, row[i].status # "none", NEW new \in Row,
         new.retry = row[i].retry, row' = [row EXCEPT ![i] = new],
         UNCHANGED <<count, run, task, open>>, net' \subseteq Call,
         binding' \in [Issue -> Device \cup {None}]
  PROVE  IInv'
<1>1. i <= count
  BY AllocatedRow DEF IInv
<1>2. TypeOK'
  BY DEF IInv, TypeOK
<1>3. RowsInOrder'
  BY <1>1 DEF IInv, TypeOK, RowsInOrder, Ids
<1>4. \A j \in Ids : row'[j].retry = row[j].retry
  BY DEF IInv, TypeOK
<1>5. ReadsFit'
  <2>1. \A o \in open : o.call.id \in Ids
    BY CallTyped DEF IInv, TypeOK, Open
  <2>. QED
    BY <1>4, <2>1 DEF IInv, ReadsFit
<1>. QED
  BY <1>2, <1>3, <1>5 DEF IInv, TurnBudget

\* A step of the network or of the Runtime.
LEMMA RuntimeKeeps ==
  ASSUME QueueAssumption, IInv, UNCHANGED <<count, row, run, binding, open>>,
         net' \subseteq Call, task' \in [Ids -> Task], TurnBudget'
  PROVE  IInv'
  BY DEF IInv, TypeOK, RowsInOrder, ReadsFit

\* A step that sends or loses a message.
LEMMA NetStep ==
  ASSUME QueueAssumption, IInv, UNCHANGED <<count, row, run, binding, open, task>>,
         net' \subseteq Call
  PROVE  IInv'
  BY RuntimeKeeps DEF IInv, TypeOK, TurnBudget

\* A message without payload is a call.
LEMMA MessageTyped ==
  ASSUME QueueAssumption, NEW i \in Ids,
         NEW op \in (ServiceOps \cup RuntimeOps) \ {"snapshot", "finish"}
  PROVE  Message(op, i) \in Call /\ Message(op, i).op = op /\ Message(op, i).id = i
  BY DEF Message, Call, MaxSeq, QueueAssumption

\* A new row takes the next id.
LEMMA EnqueueStep ==
  ASSUME QueueAssumption, IInv, NEW s \in Scope, NEW status \in Admissions,
         NEW approval \in BOOLEAN, Enqueue(s, status, approval)
  PROVE  IInv'
<1>1. PICK prev \in 0..count :
        row' = [row EXCEPT ![count + 1] = NewRow(status, s, approval, prev, count + 1)]
  BY DEF Enqueue
<1>. DEFINE new == NewRow(status, s, approval, prev, count + 1)
<1>2. /\ count \in Nat /\ MaxRows \in Nat /\ count < MaxRows /\ count' = count + 1
      /\ count + 1 \in Ids /\ prev \in 0..MaxRows
      /\ UNCHANGED <<run, binding, task, net, open>>
  BY DEF Enqueue, IInv, TypeOK, QueueAssumption, Ids
<1>3. new \in Row
  <2>1. status \in {"none"} \cup Active \cup Terminal
    BY DEF QueueAssumption, Active
  <2>. QED
    BY <1>2, <2>1, NewRowTyped
<1>. HIDE DEF new
<1>4. row' \in [Ids -> Row] /\ \A j \in Ids : j # count + 1 => row'[j] = row[j]
  BY <1>1, <1>2, <1>3 DEF IInv, TypeOK, new
<1>5. TypeOK'
  BY <1>2, <1>4 DEF IInv, TypeOK
<1>6. RowsInOrder'
  BY <1>2, <1>4 DEF IInv, RowsInOrder, Ids
<1>7. ReadsFit'
  <2>1. \A o \in open : o.call.id \in Ids /\ o.call.id <= count
    BY CallTyped DEF IInv, TypeOK, ReadsFit, Open
  <2>2. \A o \in open : o.call.id # count + 1 /\ o.call.id <= count + 1
    BY <1>2, <2>1 DEF Ids
  <2>. QED
    BY <1>2, <1>4, <2>1, <2>2 DEF IInv, ReadsFit
<1>. QED
  BY <1>2, <1>5, <1>6, <1>7 DEF IInv, TurnBudget

\* The backend's own writes of one row.
LEMMA RowActions ==
  ASSUME QueueAssumption, IInv, NEW i \in Ids
  PROVE  /\ SelectRuntime(i) => IInv'
         /\ \A d \in Device : Claim(i, d) => IInv'
         /\ Redeliver(i) => IInv'
         /\ RequestStart(i) => IInv'
         /\ Heartbeat(i) => IInv'
         /\ LeaseExpires(i) => IInv'
<1>. DEFINE q == row[i]
<1>0. q \in Row /\ net \subseteq Call /\ binding \in [Issue -> Device \cup {None}]
      /\ Message("offer", i) \in Call /\ Message("create", i) \in Call
  BY MessageTyped DEF IInv, TypeOK, ServiceOps, RuntimeOps
<1>1. SelectRuntime(i) => IInv'
  <2>. HAVE SelectRuntime(i)
  <2>. DEFINE s   == IF q.approval THEN "pending_approval" ELSE "queued"
              set == [q EXCEPT !.status = s]
              new == Bumped(i, set)
  <2>1. set \in Row /\ set.version < MaxVersion /\ set.retry = q.retry
    BY <1>0 DEF SelectRuntime, Room, Row, Active, Pending
  <2>2. row' = [row EXCEPT ![i] = new] /\ net' = net /\ binding' = binding
        /\ UNCHANGED <<count, run, task, open>> /\ q.status # "none"
    BY DEF SelectRuntime
  <2>. HIDE DEF set
  <2>3. new \in Row /\ new.retry = q.retry
    BY <2>1, BumpedTyped
  <2>. HIDE DEF new
  <2>. QED
    BY <1>0, <2>2, <2>3, RowStep
<1>2. ASSUME NEW d \in Device, Claim(i, d) PROVE IInv'
  <2>. DEFINE set == [q EXCEPT !.status = "claimed", !.device = d, !.lease = "live"]
              new == Bumped(i, set)
  <2>1. set \in Row
    BY <1>0 DEF Row, Active, Capacity
  <2>2. set.version < MaxVersion /\ set.retry = q.retry
    BY <1>0, <1>2 DEF Claim, Room, Row
  <2>3. row' = [row EXCEPT ![i] = new] /\ net' \subseteq Call
        /\ UNCHANGED <<count, run, task, open>> /\ q.status # "none"
    BY <1>0, <1>2 DEF Claim
  <2>4. binding' \in [Issue -> Device \cup {None}]
    BY <1>0, <1>2 DEF Claim
  <2>. HIDE DEF set
  <2>5. new \in Row /\ new.retry = q.retry
    BY <2>1, <2>2, BumpedTyped
  <2>. HIDE DEF new
  <2>. QED
    BY <1>0, <2>3, <2>4, <2>5, RowStep
<1>3. RequestStart(i) => IInv'
  <2>. HAVE RequestStart(i)
  <2>. DEFINE set == [q EXCEPT !.fenced = TRUE, !.lease = "live"]
              new == Bumped(i, set)
  <2>1. set \in Row
    BY <1>0 DEF Row
  <2>2. set.version < MaxVersion /\ set.retry = q.retry
    BY <1>0 DEF RequestStart, Room, Row
  <2>3. row' = [row EXCEPT ![i] = new] /\ net' \subseteq Call /\ binding' = binding
        /\ UNCHANGED <<count, run, task, open>> /\ q.status # "none"
    BY <1>0 DEF RequestStart
  <2>. HIDE DEF set
  <2>4. new \in Row /\ new.retry = q.retry
    BY <2>1, <2>2, BumpedTyped
  <2>. HIDE DEF new
  <2>. QED
    BY <1>0, <2>3, <2>4, RowStep
<1>4. ASSUME NEW lease \in {"live", "expired"}, q.status # "none",
             row' = [row EXCEPT ![i].lease = lease], net' \subseteq Call,
             UNCHANGED <<count, run, binding, task, open>>
      PROVE  IInv'
  <2>. DEFINE new == [q EXCEPT !.lease = lease]
  <2>1. new \in Row /\ new.retry = q.retry
    BY <1>0 DEF Row
  <2>2. row' = [row EXCEPT ![i] = new]
    BY <1>4
  <2>. HIDE DEF new
  <2>. QED
    BY <1>0, <1>4, <2>1, <2>2, RowStep
<1>5. Redeliver(i) => IInv'
  BY <1>0, <1>4 DEF Redeliver
<1>6. Heartbeat(i) => IInv'
  BY <1>0, <1>4 DEF Heartbeat, Capacity
<1>7. LeaseExpires(i) => IInv'
  BY <1>0, <1>4 DEF LeaseExpires, Capacity
<1>. QED
  BY <1>1, <1>2, <1>3, <1>5, <1>6, <1>7

\* Messages sent, dropped or lost.
LEMMA NetActions ==
  ASSUME QueueAssumption, IInv, NEW i \in Ids
  PROVE  /\ SendStop(i) => IInv'
         /\ TakeSnapshot(i) => IInv'
         /\ \A m \in net : Discard(m) \/ Lose(m) => IInv'
<1>1. net \subseteq Call /\ Message("stop", i) \in Call
  BY MessageTyped DEF IInv, TypeOK, ServiceOps, RuntimeOps
<1>2. [op |-> "snapshot", id |-> i, arg |-> Report(task[i]), seq |-> 0] \in Call
  <2>1. task[i].last \in {"none"} \cup Terminal
    BY DEF IInv, TypeOK, Task
  <2>2. Report(task[i]) \in Reports
    BY <2>1 DEF Report, Reports
  <2>. QED
    BY <2>2 DEF Call
<1>. QED
  BY <1>1, <1>2, NetStep DEF SendStop, TakeSnapshot, Discard, Lose

\* A step of the Runtime on one task, within the budget of its turns.
Spent(t) == t.seq + 2 * t.waiting + (IF t.live THEN 1 ELSE 0)

\* A step of one turn stays within the budget.
LEMMA TurnStep ==
  ASSUME QueueAssumption, IInv, NEW i \in Ids, NEW t \in Task, Spent(t) <= 2 * t.created,
         task' = [task EXCEPT ![i] = t], net' \subseteq Call,
         UNCHANGED <<count, row, run, binding, open>>
  PROVE  IInv'
<1>1. task' \in [Ids -> Task]
  BY DEF IInv, TypeOK
<1>2. \A j \in Ids : task'[j] = IF j = i THEN t ELSE task[j]
  BY DEF IInv, TypeOK
<1>3. TurnBudget'
  BY <1>2 DEF IInv, TurnBudget, Spent
<1>. QED
  BY <1>1, <1>3, RuntimeKeeps

\* The fields of a task and their bounds.
LEMMA TaskFields ==
  ASSUME QueueAssumption, IInv, NEW i \in Ids
  PROVE  /\ task[i] \in Task /\ Spent(task[i]) <= 2 * task[i].created
         /\ task[i].created \in Nat /\ task[i].created <= MaxCreates
         /\ task[i].waiting \in Nat /\ task[i].seq \in Nat /\ task[i].live \in BOOLEAN
         /\ MaxSeq = 2 * MaxCreates /\ MaxCreates \in Nat
<1>1. task[i] \in Task /\ MaxCreates \in Nat /\ MaxSeq = 2 * MaxCreates
  BY DEF IInv, TypeOK, MaxSeq, QueueAssumption
<1>. QED
  BY <1>1 DEF IInv, TurnBudget, Spent, Task

\* Turns start, end and are stopped within the budget.
LEMMA TurnActions ==
  ASSUME QueueAssumption, IInv, NEW i \in Ids
  PROVE  /\ StartTurn(i) => IInv'
         /\ \A outcome \in Terminal : EndTurn(i, outcome) => IInv'
         /\ StopQueued(i) => IInv'
<1>. DEFINE t == task[i]
<1>0. net \subseteq Call /\ task \in [Ids -> Task]
  BY DEF IInv, TypeOK
<1>1. StartTurn(i) => IInv'
  <2>. HAVE StartTurn(i)
  <2>. DEFINE new == [t EXCEPT !.waiting = @ - 1, !.live = TRUE, !.seq = @ + 1]
  <2>1. t.waiting > 0 /\ ~t.live /\ t.seq + 1 \in 0..MaxSeq /\ t.waiting - 1 \in 0..MaxCreates
    BY TaskFields DEF StartTurn, Spent
  <2>2. new \in Task
    BY <2>1, TaskFields DEF Task
  <2>3. Spent(new) <= 2 * new.created
    <3>1. new.waiting = t.waiting - 1 /\ new.live = TRUE /\ new.seq = t.seq + 1
          /\ new.created = t.created
      BY TaskFields DEF Task
    <3>. HIDE DEF new
    <3>. QED
      BY <2>1, <3>1, TaskFields DEF Spent
  <2>4. [op |-> "observe", id |-> i, arg |-> "running", seq |-> t.seq + 1] \in Call
    BY <2>1 DEF Call, ServiceOps, CasHandlers
  <2>5. net' \subseteq Call /\ task' = [task EXCEPT ![i] = new]
        /\ UNCHANGED <<count, row, run, binding, open>>
    BY <1>0, <2>4 DEF StartTurn
  <2>. HIDE DEF new
  <2>. QED
    BY <2>2, <2>3, <2>5, TurnStep
<1>2. ASSUME NEW outcome \in Terminal, EndTurn(i, outcome) PROVE IInv'
  <2>. DEFINE new == [t EXCEPT !.live = FALSE, !.last = outcome, !.seq = @ + 1]
  <2>1. t.live /\ t.seq + 1 \in 0..MaxSeq
    BY <1>2, TaskFields DEF EndTurn, Spent
  <2>2. new \in Task
    BY <2>1, TaskFields DEF Task
  <2>3. Spent(new) <= 2 * new.created
    <3>1. new.waiting = t.waiting /\ new.live = FALSE /\ new.seq = t.seq + 1
          /\ new.created = t.created
      BY TaskFields DEF Task
    <3>. HIDE DEF new
    <3>. QED
      BY <2>1, <3>1, TaskFields DEF Spent
  <2>4. [op |-> "finish", id |-> i, arg |-> outcome, seq |-> t.seq + 1] \in Call
    BY <2>1 DEF Call
  <2>5. net' \subseteq Call /\ task' = [task EXCEPT ![i] = new]
        /\ UNCHANGED <<count, row, run, binding, open>>
    BY <1>0, <1>2, <2>4 DEF EndTurn
  <2>. HIDE DEF new
  <2>. QED
    BY <2>2, <2>3, <2>5, TurnStep
<1>3. StopQueued(i) => IInv'
  <2>. HAVE StopQueued(i)
  <2>. DEFINE last == IF t.live THEN t.last ELSE "cancelled"
              new  == [t EXCEPT !.waiting = @ - 1, !.last = last]
  <2>1. t.waiting > 0 /\ t.waiting - 1 \in 0..MaxCreates
    BY TaskFields DEF StopQueued, Spent
  <2>2. last \in {"none"} \cup Terminal
    BY TaskFields DEF Task, Terminal
  <2>3. new \in Task
    <3>. HIDE DEF last
    <3>. QED
      BY <2>1, <2>2, TaskFields DEF Task
  <2>4. Spent(new) <= 2 * new.created
    <3>1. new.waiting = t.waiting - 1 /\ new.live = t.live /\ new.seq = t.seq
          /\ new.created = t.created
      BY TaskFields DEF Task
    <3>. HIDE DEF new
    <3>. QED
      BY <2>1, <3>1, TaskFields DEF Spent
  <2>5. net' \subseteq Call /\ task' = [task EXCEPT ![i] = new]
        /\ UNCHANGED <<count, row, run, binding, open>>
    BY <1>0 DEF StopQueued
  <2>. HIDE DEF new
  <2>. QED
    BY <2>3, <2>4, <2>5, TurnStep
<1>. QED
  BY <1>1, <1>2, <1>3

\* A create adds one turn to the budget it uses.
LEMMA CreateActions ==
  ASSUME QueueAssumption, IInv, NEW m \in net
  PROVE  (Create(m) => IInv') /\ (RefuseCreate(m) => IInv')
<1>. DEFINE i == m.id
            t == task[i]
<1>0. /\ i \in Ids /\ net \subseteq Call /\ task \in [Ids -> Task]
      /\ Message("ack_ok", i) \in Call /\ Message("ack_rejected", i) \in Call
  BY CallTyped, MessageTyped
     DEF IInv, TypeOK, ServiceOps, CasHandlers, BlindHandlers
<1>1. Create(m) => IInv'
  <2>. HAVE Create(m)
  <2>. DEFINE new == [t EXCEPT !.created = @ + 1, !.waiting = @ + 1]
  <2>1. t.created + 1 \in 0..MaxCreates /\ t.waiting + 1 \in 0..MaxCreates
    BY <1>0, TaskFields DEF Create, Spent
  <2>2. new \in Task
    BY <1>0, <2>1, TaskFields DEF Task
  <2>3. Spent(new) <= 2 * new.created
    <3>1. new.waiting = t.waiting + 1 /\ new.live = t.live /\ new.seq = t.seq
          /\ new.created = t.created + 1
      BY <1>0, TaskFields DEF Task
    <3>. HIDE DEF new
    <3>. QED
      BY <1>0, <2>1, <3>1, TaskFields DEF Spent
  <2>4. net' \subseteq Call /\ task' = [task EXCEPT ![i] = new]
        /\ UNCHANGED <<count, row, run, binding, open>>
    BY <1>0 DEF Create
  <2>. HIDE DEF new
  <2>. QED
    BY <1>0, <2>2, <2>3, <2>4, TurnStep
<1>2. RefuseCreate(m) => IInv'
  <2>. HAVE RefuseCreate(m)
  <2>1. PICK last \in {t.last, "failed"} :
          task' = [task EXCEPT ![i] = [t EXCEPT !.last = last]]
    BY <1>0 DEF RefuseCreate
  <2>. DEFINE new == [t EXCEPT !.last = last]
  <2>2. last \in {"none"} \cup Terminal
    BY <1>0, TaskFields DEF Task, Terminal
  <2>3. new \in Task
    BY <1>0, <2>2, TaskFields DEF Task
  <2>4. Spent(new) <= 2 * new.created
    <3>1. new.waiting = t.waiting /\ new.live = t.live /\ new.seq = t.seq
          /\ new.created = t.created
      BY <1>0, TaskFields DEF Task
    <3>. HIDE DEF new
    <3>. QED
      BY <1>0, <3>1, TaskFields DEF Spent
  <2>5. net' \subseteq Call /\ UNCHANGED <<count, row, run, binding, open>>
    BY <1>0 DEF RefuseCreate
  <2>. HIDE DEF new
  <2>. QED
    BY <1>0, <2>1, <2>3, <2>4, <2>5, TurnStep DEF new
<1>. QED
  BY <1>1, <1>2

\* The inductive invariant holds initially.
LEMMA InitIInv ==
  ASSUME QueueAssumption, Init
  PROVE  IInv
<1>1. /\ NoRow \in Row /\ NoRow.status = "none" /\ 0 \in 0..MaxRows /\ 0 \in 0..MaxCreates
      /\ 0 \in 0..MaxSeq
  BY NoRowTyped DEF QueueAssumption, MaxSeq
<1>. HIDE DEF NoRow
<1>2. TypeOK
  BY <1>1 DEF Init, TypeOK, Task
<1>3. RowsInOrder
  BY <1>1 DEF Init, RowsInOrder
<1>4. ReadsFit /\ TurnBudget
  BY DEF Init, ReadsFit, TurnBudget
<1>. QED
  BY <1>2, <1>3, <1>4 DEF IInv

\* Every step preserves it.
LEMMA NextIInv ==
  ASSUME QueueAssumption, IInv, [Next]_vars
  PROVE  IInv'
<1>1. \A c \in Call : c.op \in ServiceOps /\ Perform(c) => IInv'
  BY ServeStep, BeginStep DEF Perform
<1>2. net \subseteq Call
  BY DEF IInv, TypeOK
<1>3. CASE UNCHANGED vars
  BY <1>3 DEF vars, IInv, TypeOK, RowsInOrder, ReadsFit, TurnBudget
<1>4. CASE BackendStep
  <2>1. ASSUME NEW i \in Ids, NEW op \in RequestOps, Ask(op, i) PROVE IInv'
    <3>1. op \in ServiceOps /\ op \notin {"snapshot", "finish"}
      BY DEF RequestOps, ServiceOps, CasHandlers, BlindHandlers
    <3>. QED
      BY <1>1, <2>1, <3>1, MessageTyped DEF Ask
  <2>2. ASSUME NEW m \in net, m.op \in ServiceOps, Perform(m) PROVE IInv'
    BY <1>1, <1>2, <2>2
  <2>3. ASSUME NEW m \in net, Discard(m) PROVE IInv'
    <3>1. m.id \in Ids
      BY <1>2, CallTyped
    <3>. QED
      BY <2>3, <3>1, NetActions
  <2>4. ASSUME NEW i \in Ids, NEW d \in Device, Claim(i, d) PROVE IInv'
    BY <2>4, RowActions
  <2>5. ASSUME NEW i \in Ids, Redeliver(i) \/ RequestStart(i) \/ Heartbeat(i)
                             \/ LeaseExpires(i) \/ SelectRuntime(i) \/ SendStop(i)
        PROVE  IInv'
    BY <2>5, RowActions, NetActions
  <2>. QED
    BY <1>4, <2>1, <2>2, <2>3, <2>4, <2>5, EnqueueStep, FinishStep DEF BackendStep
<1>5. CASE RuntimeStep
  <2>1. ASSUME NEW m \in net, Lose(m) PROVE IInv'
    <3>1. m.id \in Ids
      BY <1>2, CallTyped
    <3>. QED
      BY <2>1, <3>1, NetActions
  <2>. QED
    BY <1>5, <2>1, CreateActions, TurnActions, NetActions DEF RuntimeStep, StopLive, Terminal
<1>. QED
  BY <1>3, <1>4, <1>5 DEF Next

\* Every variable keeps its kind, for any number of rows, devices, scopes,
\* retries and concurrently open handlers.
THEOREM TypeCorrect == Spec => []TypeOK
<1>1. Init => IInv
  BY QueueAssumption, InitIInv
<1>2. IInv /\ [Next]_vars => IInv'
  BY QueueAssumption, NextIInv
<1>3. IInv => TypeOK
  BY DEF IInv
<1>. QED
  BY <1>1, <1>2, <1>3, PTL DEF Spec

(***************************************************************************)
(* Safety: at most one attempt of a scope holds capacity, an Issue stays   *)
(* on one device, and a terminal status is the last one.  The first and    *)
(* the last hold when approve, reject and snapshot reconciliation, which   *)
(* write without a compare-and-swap, do not overlap other writers          *)
(* (NoBlindOverlap).                                                       *)
(***************************************************************************)
NoBlindOverlap == Overlapping \cap {"approve", "reject", "snapshot"} = {}

\* A handler without a compare-and-swap decides on the row it has just read.
Fresh(c, r) ==
  c.op \in {"approve", "reject", "snapshot"} => r = row[c.id] /\ Applies(c, r)

\* What a step may do to an allocated row.
RowMoves(i) ==
  /\ row'[i].scope = row[i].scope
  /\ NoBlindOverlap =>
       /\ row[i].status \in Terminal => row'[i].status = row[i].status
       /\ row'[i].status \in Capacity =>
            row[i].status \in Capacity \/ (\E d \in Device : Claim(i, d))
  /\ row'[i].device = row[i].device \/ (\E d \in Device : Claim(i, d))

\* What a step may do to the table.
TableMoves ==
  /\ count' \in Nat /\ count <= count' /\ count' <= MaxRows
  /\ \A i \in Ids : i <= count => RowMoves(i)
  /\ \A i \in Ids : i > count /\ i <= count' =>
       row'[i].status \in Pending /\ row'[i].device = None

-----------------------------------------------------------------------------
\* The statuses partition the rows a handler may meet.
LEMMA StatusesDisjoint ==
  /\ \A s \in Terminal : s \notin Active /\ s \notin Capacity /\ s \notin Pending
  /\ \A s \in Pending : s \notin Capacity
  /\ Capacity \subseteq Active /\ Pending \subseteq Active
  BY DEF Terminal, Active, Capacity, Pending

\* What a handler permits respects terminal outcomes and gains no capacity.
LEMMA PermitsSafe ==
  ASSUME NEW c, NEW r, NEW s, Fresh(c, r), Permits(c, r, row[c.id], s)
  PROVE  /\ row[c.id].status \in Terminal => s = row[c.id].status
         /\ s \in Capacity => row[c.id].status \in Capacity
<1>1. c.op = "snapshot" => row[c.id].status \in Capacity
  BY DEF Fresh, Applies
<1>2. c.op \in {"approve", "reject"} => row[c.id].status = "pending_approval"
  BY DEF Fresh, Applies, ApprovalApplies
<1>3. row[c.id].status \in Terminal => s = row[c.id].status
  BY <1>1, <1>2 DEF Permits, Terminal, Active, Capacity, Pending
<1>4. s \in Capacity => row[c.id].status \in Capacity
  BY <1>1, <1>2 DEF Permits, Terminal, Active, Capacity, Pending
<1>. QED
  BY <1>3, <1>4

\* A handler's effect on the table.
LEMMA HandlerMoves ==
  ASSUME QueueAssumption, IInv, NEW c \in Call, NEW r, NEW s,
         NoBlindOverlap => Fresh(c, r), KeepsTo(c.id, s), Permits(c, r, row[c.id], s)
  PROVE  TableMoves
<1>1. count' \in count..MaxRows /\ count \in Nat /\ MaxRows \in Nat /\ c.id \in Ids
  BY CallTyped DEF KeepsTo, Keeps, IInv, TypeOK, QueueAssumption
<1>2. ASSUME NEW i \in Ids, i <= count PROVE RowMoves(i)
  <2>1. row'[i].scope = row[i].scope /\ row'[i].device = row[i].device
    BY <1>2 DEF KeepsTo, Keeps
  <2>2. CASE i = c.id
    BY <2>1, <2>2, PermitsSafe DEF RowMoves, KeepsTo
  <2>3. CASE i # c.id
    BY <1>2, <2>1, <2>3 DEF RowMoves, KeepsTo
  <2>. QED
    BY <2>2, <2>3
<1>3. \A i \in Ids : i > count /\ i <= count' =>
        row'[i].status \in Pending /\ row'[i].device = None
  BY DEF KeepsTo, Keeps, Pending
<1>. QED
  BY <1>1, <1>2, <1>3 DEF TableMoves

\* A handler that reads and writes in one step.
LEMMA ServeMoves ==
  ASSUME QueueAssumption, IInv, NEW c \in Call, c.op \in ServiceOps, Serve(c)
  PROVE  TableMoves
<1>1. c.id \in Ids /\ row[c.id] \in Row /\ c.id <= count /\ row[c.id].status \in Active
  BY CallTyped, AppliesAllocated DEF IInv, TypeOK, Serve
<1>2. \E s : KeepsTo(c.id, s) /\ Permits(c, row[c.id], row[c.id], s)
  BY <1>1, HandleKeeps DEF IInv, Serve, Room
<1>3. Fresh(c, row[c.id])
  BY DEF Fresh, Serve
<1>. QED
  BY <1>2, <1>3, HandlerMoves

\* A handler that writes what it decided on an earlier read.
LEMMA FinishMoves ==
  ASSUME QueueAssumption, IInv, NEW o \in open, Finish(o)
  PROVE  TableMoves
<1>1. /\ o.call \in Call /\ o.read \in Row /\ o.call.id <= count
      /\ o.call.op \in ServiceOps /\ o.read.version < MaxVersion
      /\ o.call.op = "snapshot" => o.read.retry = row[o.call.id].retry
      /\ o.call.op # "finish" /\ o.read.status \in Active
  BY DEF IInv, TypeOK, ReadsFit, Open, QueueAssumption, ServiceOps, CasHandlers, BlindHandlers
<1>2. \E s : KeepsTo(o.call.id, s) /\ Permits(o.call, o.read, row[o.call.id], s)
  BY <1>1, HandleKeeps DEF IInv, Finish
<1>3. NoBlindOverlap => Fresh(o.call, o.read)
  BY DEF Fresh, NoBlindOverlap, IInv, ReadsFit
<1>. QED
  BY <1>1, <1>2, <1>3, HandlerMoves

\* A step that leaves the table alone.
LEMMA NothingMoves ==
  ASSUME QueueAssumption, IInv, UNCHANGED <<count, row>>
  PROVE  TableMoves
  BY DEF TableMoves, RowMoves, IInv, TypeOK, Ids, QueueAssumption

\* A step of the backend on one row.
LEMMA RowActionMoves ==
  ASSUME QueueAssumption, IInv, NEW i \in Ids, count' = count,
         NEW new, row' = [row EXCEPT ![i] = new],
         new.scope = row[i].scope,
         row[i].status \in Terminal => new.status = row[i].status,
         new.status \in Capacity =>
           row[i].status \in Capacity \/ (\E d \in Device : Claim(i, d)),
         new.device = row[i].device \/ (\E d \in Device : Claim(i, d))
  PROVE  TableMoves
<1>1. \A j \in Ids : row'[j] = IF j = i THEN new ELSE row[j]
  BY DEF IInv, TypeOK
<1>2. ASSUME NEW j \in Ids PROVE RowMoves(j)
  BY <1>1 DEF RowMoves
<1>. QED
  BY <1>2 DEF TableMoves, IInv, TypeOK, Ids, QueueAssumption

\* The backend's own writes of one row.
LEMMA RowActionsMove ==
  ASSUME QueueAssumption, IInv, NEW i \in Ids
  PROVE  /\ SelectRuntime(i) => TableMoves
         /\ \A d \in Device : Claim(i, d) => TableMoves
         /\ Redeliver(i) \/ Heartbeat(i) \/ LeaseExpires(i) => TableMoves
         /\ RequestStart(i) => TableMoves
<1>. DEFINE q == row[i]
<1>0. q \in Row
  BY DEF IInv, TypeOK
<1>1. SelectRuntime(i) => TableMoves
  <2>. HAVE SelectRuntime(i)
  <2>. DEFINE s   == IF q.approval THEN "pending_approval" ELSE "queued"
              set == [q EXCEPT !.status = s]
  <2>1. set \in Row /\ set.version < MaxVersion /\ set.scope = q.scope
        /\ set.device = q.device /\ set.status = s
    BY <1>0 DEF SelectRuntime, Room, Row, Active, Pending
  <2>2. row' = [row EXCEPT ![i] = Bumped(i, set)] /\ count' = count
        /\ q.status \in {"waiting_runtime", "queued"}
    BY DEF SelectRuntime
  <2>3. s \notin Capacity /\ q.status \notin Terminal
    BY <2>2 DEF Capacity, Terminal
  <2>. HIDE DEF set, s
  <2>4. Bumped(i, set).scope = q.scope /\ Bumped(i, set).device = q.device
        /\ Bumped(i, set).status = s
    BY <2>1, BumpedTyped
  <2>. QED
    BY <2>2, <2>3, <2>4, RowActionMoves
<1>2. ASSUME NEW d \in Device, Claim(i, d) PROVE TableMoves
  <2>. DEFINE set == [q EXCEPT !.status = "claimed", !.device = d, !.lease = "live"]
  <2>1. set \in Row
    BY <1>0 DEF Row, Active, Capacity
  <2>2. set.version < MaxVersion /\ set.scope = q.scope
    BY <1>0, <1>2 DEF Claim, Room, Row
  <2>3. row' = [row EXCEPT ![i] = Bumped(i, set)] /\ count' = count /\ q.status \notin Terminal
    BY <1>2 DEF Claim, Terminal
  <2>. HIDE DEF set
  <2>4. Bumped(i, set).scope = q.scope
    BY <2>1, <2>2, BumpedTyped
  <2>. QED
    BY <1>2, <2>3, <2>4, RowActionMoves
<1>3. RequestStart(i) => TableMoves
  <2>. HAVE RequestStart(i)
  <2>. DEFINE set == [q EXCEPT !.fenced = TRUE, !.lease = "live"]
  <2>1. set \in Row
    BY <1>0 DEF Row
  <2>2. set.version < MaxVersion /\ set.scope = q.scope /\ set.device = q.device
        /\ set.status = q.status
    BY <1>0 DEF RequestStart, Room, Row
  <2>3. row' = [row EXCEPT ![i] = Bumped(i, set)] /\ count' = count
    BY DEF RequestStart
  <2>. HIDE DEF set
  <2>4. Bumped(i, set).scope = q.scope /\ Bumped(i, set).device = q.device
        /\ Bumped(i, set).status = q.status
    BY <2>1, <2>2, BumpedTyped
  <2>. QED
    BY <2>3, <2>4, RowActionMoves
<1>4. ASSUME NEW lease, row' = [row EXCEPT ![i].lease = lease], count' = count
      PROVE  TableMoves
  <2>. DEFINE new == [q EXCEPT !.lease = lease]
  <2>1. new.scope = q.scope /\ new.device = q.device /\ new.status = q.status
    BY <1>0 DEF Row
  <2>2. row' = [row EXCEPT ![i] = new]
    BY <1>4
  <2>. HIDE DEF new
  <2>. QED
    BY <1>4, <2>1, <2>2, RowActionMoves
<1>5. Redeliver(i) \/ Heartbeat(i) \/ LeaseExpires(i) => TableMoves
  BY <1>4 DEF Redeliver, Heartbeat, LeaseExpires
<1>. QED
  BY <1>1, <1>2, <1>3, <1>5

\* A new row waits, and has no device yet.
LEMMA EnqueueMoves ==
  ASSUME QueueAssumption, IInv, NEW s \in Scope, NEW status \in Admissions,
         NEW approval \in BOOLEAN, Enqueue(s, status, approval)
  PROVE  TableMoves
<1>1. PICK prev \in 0..count :
        row' = [row EXCEPT ![count + 1] = NewRow(status, s, approval, prev, count + 1)]
  BY DEF Enqueue
<1>. DEFINE new == NewRow(status, s, approval, prev, count + 1)
<1>2. /\ count \in Nat /\ MaxRows \in Nat /\ count < MaxRows /\ count' = count + 1
      /\ count + 1 \in Ids /\ status \in Pending
  BY DEF Enqueue, IInv, TypeOK, QueueAssumption, Ids
<1>3. new.status \in Pending /\ new.device = None
  BY <1>2 DEF NewRow
<1>. HIDE DEF new
<1>4. \A j \in Ids : row'[j] = IF j = count + 1 THEN new ELSE row[j]
  BY <1>1, <1>2 DEF IInv, TypeOK, new
<1>5. \A j \in Ids : j <= count => RowMoves(j)
  BY <1>2, <1>4 DEF RowMoves, Ids
<1>6. \A j \in Ids : j > count /\ j <= count' => row'[j] = new
  BY <1>2, <1>4 DEF Ids
<1>. QED
  BY <1>2, <1>3, <1>5, <1>6 DEF TableMoves

\* No step does more to the table than TableMoves says.
LEMMA NextMoves ==
  ASSUME QueueAssumption, IInv, [Next]_vars
  PROVE  TableMoves
<1>0. net \subseteq Call
  BY DEF IInv, TypeOK
<1>1. ASSUME NEW c \in Call, c.op \in ServiceOps, Perform(c) PROVE TableMoves
  BY <1>1, ServeMoves, NothingMoves DEF Perform, Begin
<1>2. CASE UNCHANGED vars
  BY <1>2, NothingMoves DEF vars
<1>3. CASE BackendStep
  <2>1. ASSUME NEW i \in Ids, NEW op \in RequestOps, Ask(op, i) PROVE TableMoves
    <3>1. op \in ServiceOps /\ op \notin {"snapshot", "finish"}
      BY DEF RequestOps, ServiceOps, CasHandlers, BlindHandlers
    <3>. QED
      BY <1>1, <2>1, <3>1, MessageTyped DEF Ask
  <2>2. ASSUME NEW m \in net, m.op \in ServiceOps, Perform(m) PROVE TableMoves
    BY <1>0, <1>1, <2>2
  <2>3. ASSUME NEW m \in net, Discard(m) PROVE TableMoves
    BY <2>3, NothingMoves DEF Discard
  <2>4. ASSUME NEW i \in Ids, SendStop(i) PROVE TableMoves
    BY <2>4, NothingMoves DEF SendStop
  <2>5. ASSUME NEW i \in Ids, Redeliver(i) \/ RequestStart(i) \/ Heartbeat(i)
                             \/ LeaseExpires(i) \/ SelectRuntime(i)
                             \/ (\E d \in Device : Claim(i, d))
        PROVE  TableMoves
    BY <2>5, RowActionsMove
  <2>. QED
    BY <1>3, <2>1, <2>2, <2>3, <2>4, <2>5, EnqueueMoves, FinishMoves DEF BackendStep
<1>4. CASE RuntimeStep
  BY <1>4, NothingMoves DEF RuntimeStep, Create, RefuseCreate, StartTurn, EndTurn,
     StopQueued, StopLive, TakeSnapshot, Lose
<1>. QED
  BY <1>2, <1>3, <1>4 DEF Next

-----------------------------------------------------------------------------
\* The inductive invariant holds in every reachable state.
LEMMA InvariantHolds == Spec => []IInv
<1>1. Init => IInv
  BY QueueAssumption, InitIInv
<1>2. IInv /\ [Next]_vars => IInv'
  BY QueueAssumption, NextIInv
<1>. QED
  BY <1>1, <1>2, PTL DEF Spec

\* At most one attempt of an execution scope holds capacity, for any number
\* of devices, requests, retries and open handlers.
THEOREM OneHolder ==
  ASSUME NoBlindOverlap
  PROVE  Spec => []OneHolderPerScope
<1>1. Init => OneHolderPerScope
  BY DEF Init, OneHolderPerScope, Allocated
<1>2. IInv /\ OneHolderPerScope /\ [Next]_vars => OneHolderPerScope'
  <2>. SUFFICES ASSUME IInv, OneHolderPerScope, [Next]_vars,
                       NEW i \in 1..count', NEW j \in 1..count',
                       row'[i].scope = row'[j].scope,
                       row'[i].status \in Capacity, row'[j].status \in Capacity
                PROVE  i = j
    BY DEF OneHolderPerScope, Allocated
  <2>1. TableMoves
    BY QueueAssumption, NextMoves
  <2>2. /\ count \in Nat /\ count' \in Nat /\ count' <= MaxRows /\ MaxRows \in Nat
        /\ i \in Ids /\ j \in Ids
    BY <2>1, QueueAssumption DEF TableMoves, IInv, TypeOK, QueueAssumption, Ids
  <2>3. i <= count /\ j <= count
    BY <2>1, <2>2, StatusesDisjoint DEF TableMoves, Ids
  <2>4. i \in Allocated /\ j \in Allocated
    BY <2>2, <2>3 DEF Allocated, Ids
  <2>5. row[i].scope = row[j].scope
    BY <2>1, <2>2, <2>3 DEF TableMoves, RowMoves
  <2>6. \/ row[i].status \in Capacity /\ row[j].status \in Capacity
        \/ \E d \in Device : Claim(i, d)
        \/ \E d \in Device : Claim(j, d)
    BY <2>1, <2>2, <2>3 DEF TableMoves, RowMoves
  <2>7. ASSUME NEW k \in Ids, NEW l \in Allocated, NEW d \in Device, Claim(k, d), l # k,
               l \in Ids, row[k].scope = row[l].scope
        PROVE  row'[l].status \notin Capacity
    BY <2>7 DEF Claim, Occupied, IInv, TypeOK
  <2>. QED
    BY <2>2, <2>4, <2>5, <2>6, <2>7 DEF OneHolderPerScope
<1>. QED
  BY <1>1, <1>2, InvariantHolds, PTL DEF Spec

\* A device that was recorded in an attempt is the one its Issue is bound to.
BindingAgrees ==
  \A i \in Allocated : row[i].device # None => row[i].device = binding[IssueOf(i)]

\* Only a claim touches a binding, and it binds what is unbound.
LEMMA BindingMoves ==
  ASSUME IInv, [Next]_vars
  PROVE  \/ binding' = binding
         \/ \E i \in Ids, d \in Device : Claim(i, d)
  BY DEF Next, BackendStep, RuntimeStep, vars, Enqueue, SelectRuntime, Redeliver,
     RequestStart, Heartbeat, LeaseExpires, SendStop, Ask, Perform, Serve, Begin,
     Discard, Finish, Create, RefuseCreate, StartTurn, EndTurn, StopQueued,
     StopLive, TakeSnapshot, Lose

\* All attempts of an Issue that reached a device reached the same one, also
\* when handlers that write without a compare-and-swap overlap others.
THEOREM OneDevice == Spec => []OneDevicePerIssue
<1>1. Init => BindingAgrees
  BY DEF Init, BindingAgrees, Allocated
<1>2. IInv /\ BindingAgrees /\ [Next]_vars => BindingAgrees'
  <2>. SUFFICES ASSUME IInv, BindingAgrees, [Next]_vars, NEW i \in 1..count',
                       row'[i].device # None
                PROVE  row'[i].device = binding'[row'[i].scope[1]]
    BY DEF BindingAgrees, Allocated, IssueOf
  <2>1. TableMoves
    BY QueueAssumption, NextMoves
  <2>2. count \in Nat /\ i \in Ids /\ i <= count /\ i \in Allocated
    BY <2>1, QueueAssumption DEF TableMoves, IInv, TypeOK, QueueAssumption, Ids, Allocated
  <2>3. /\ row'[i].scope = row[i].scope /\ row[i].scope[1] \in Issue
        /\ row'[i].device = row[i].device \/ (\E d \in Device : Claim(i, d))
    BY <2>1, <2>2 DEF TableMoves, RowMoves, IInv, TypeOK, Row, Scope
  <2>4. ASSUME NEW d \in Device, Claim(i, d) PROVE row'[i].device = binding'[row[i].scope[1]]
    <3>. DEFINE set == [row[i] EXCEPT !.status = "claimed", !.device = d, !.lease = "live"]
    <3>1. row'[i] = Bumped(i, set) /\ binding'[row[i].scope[1]] = d
      BY <2>2, <2>3, <2>4 DEF Claim, IssueOf, IInv, TypeOK
    <3>2. row[i] \in Row /\ row[i].version < MaxVersion
      BY <2>2, <2>4 DEF IInv, TypeOK, Claim, Room
    <3>3. set \in Row
      BY <3>2 DEF Row, Active, Capacity
    <3>4. set.device = d /\ set.version < MaxVersion
      BY <3>2 DEF Row
    <3>. HIDE DEF set
    <3>. QED
      BY <2>2, <3>1, <3>3, <3>4, BumpedTyped, QueueAssumption
  <2>5. CASE row'[i].device = row[i].device
    <3>1. row[i].device # None /\ row[i].device = binding[row[i].scope[1]]
      BY <2>2, <2>5 DEF BindingAgrees, IssueOf
    <3>2. ASSUME NEW k \in Ids, NEW d \in Device, Claim(k, d)
          PROVE  binding'[row[i].scope[1]] = binding[row[i].scope[1]]
      BY <2>3, <3>1, <3>2 DEF Claim, IssueOf, IInv, TypeOK
    <3>. QED
      BY <2>3, <2>5, <3>1, <3>2, BindingMoves
  <2>. QED
    BY <2>3, <2>4, <2>5
<1>3. BindingAgrees => OneDevicePerIssue
  BY DEF BindingAgrees, OneDevicePerIssue
<1>. QED
  BY <1>1, <1>2, <1>3, InvariantHolds, PTL DEF Spec

\* An attempt never leaves the terminal status it reached.
THEOREM TerminalStays ==
  ASSUME NoBlindOverlap
  PROVE  Spec => TerminalIrreversible
<1>1. IInv /\ [Next]_vars =>
        [\A i \in Ids : row[i].status \in Terminal => row'[i].status = row[i].status]_vars
  <2>. SUFFICES ASSUME IInv, [Next]_vars, NEW i \in Ids, row[i].status \in Terminal
                PROVE  row'[i].status = row[i].status
    OBVIOUS
  <2>1. TableMoves
    BY QueueAssumption, NextMoves
  <2>2. i <= count
    BY QueueAssumption, AllocatedRow DEF IInv, Terminal
  <2>. QED
    BY <2>1, <2>2 DEF TableMoves, RowMoves
<1>. QED
  BY <1>1, InvariantHolds, PTL DEF Spec, TerminalIrreversible
=============================================================================

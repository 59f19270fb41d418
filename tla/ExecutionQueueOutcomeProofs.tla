--------------------- MODULE ExecutionQueueOutcomeProofs ---------------------
(***************************************************************************)
(* What the execution queue shows of an attempt, for every value of its    *)
(* constants: a failure is retried once, the run shows the outcome of its  *)
(* newest attempt, a cancellation stays requested, a started attempt is    *)
(* requeued on evidence only, an outcome has an end of its task behind it  *)
(* and is the one the Runtime had, and nothing runs for an attempt that is *)
(* over.  Each theorem names the overlaps and delays it assumes away.      *)
(*                                                                         *)
(* The proofs go over the effects of a handler (Effect), a table of what   *)
(* each call may do to the row it is called for, and why.                  *)
(***************************************************************************)
EXTENDS ExecutionQueueProofs

\* The table is left alone.
Stays == UNCHANGED <<count, row, run>>

\* Allocated rows other than i are left alone, and i remains the same attempt.
OneRow(i) ==
  /\ \A j \in Ids : j # i /\ (j <= count \/ j > count') => row'[j] = row[j]
  /\ row'[i].prev = row[i].prev
  /\ row'[i].run = row[i].run
  /\ row'[i].retry = row[i].retry

\* The row is written, and neither ends nor changes its run.
Sets(i, status, fenced) ==
  /\ count' = count /\ run' = run /\ OneRow(i)
  /\ row'[i].status = status /\ row'[i].fenced = fenced

\* The attempt ends, and its run shows the outcome.
Ends(i, outcome) ==
  /\ count' = count /\ OneRow(i)
  /\ run' = [run EXCEPT ![row[i].run] = RunOutcome[outcome]]
  /\ row'[i].status = outcome /\ row'[i].fenced = row[i].fenced

\* The attempt ends as failed, and the next row retries it.
Retries(i) ==
  /\ count < MaxRows /\ count' = count + 1 /\ OneRow(i)
  /\ run' = [run EXCEPT ![row[i].run] = "failed"]
  /\ row'[i].status = "failed" /\ row'[i].fenced = row[i].fenced
  /\ row'[count + 1].status = "queued" /\ ~row'[count + 1].fenced
  /\ row'[count + 1].retry > 0
  /\ row'[count + 1].prev = i /\ row'[count + 1].run = row[i].run

\* The version a write leaves behind, having started from v.
Advanced(i, v) == IF Watched(i) THEN v + 1 ELSE 0

\* What a call c may do to its row, having read r of it, and on what ground.
Effect(c, r) ==
  LET i   == c.id
      now == row[i]
  IN \/ Stays
     \/ c.op \in {"unknown", "recover", "snapshot"} /\ Sets(i, now.status, now.fenced)
     \/ c.op = "cancel" /\ now.status \in {"claimed", "running"}
          /\ Sets(i, "cancel_requested", now.fenced)
     \/ c.op = "cancel" /\ SameRead(i, r)
          /\ (r.status \in Pending \/ (r.status = "claimed" /\ ~r.fenced))
          /\ Ends(i, "cancelled")
     \/ c.op = "approve" /\ (\E s \in {"waiting_runtime", "queued"} : Sets(i, s, now.fenced))
     \/ c.op = "reject" /\ Ends(i, "cancelled")
     \/ c.op = "preflight" /\ SameRead(i, r) /\ Ends(i, "failed")
     \/ c.op = "recover" /\ now.status \in Active /\ r.status = "claimed" /\ ~r.fenced
          /\ Sets(i, "queued", FALSE)
     \/ c.op = "ack_ok" /\ (\E f \in {now.fenced, TRUE} : Sets(i, now.status, f))
     \/ c.op = "ack_rejected" /\ SameRead(i, r) /\ Ends(i, "failed")
     \/ c.op = "observe" /\ now.status \in Capacity /\ now.version = r.version
          /\ Sets(i, StillRunning(r), now.fenced)
     \/ c.op = "finish" /\ (\/ c.arg # "failed" /\ Ends(i, c.arg)
                            \/ c.arg = "failed" /\ now.status = "cancel_requested"
                                 /\ Ends(i, "cancelled")
                            \/ c.arg = "failed" /\ Ends(i, "failed")
                            \/ c.arg = "failed" /\ Retries(i))
     \/ c.op = "snapshot" /\ (\/ c.arg = "missing" /\ now.status = "cancel_requested"
                                   /\ Ends(i, "cancelled")
                              \/ c.arg = "missing" /\ now.status = "claimed"
                                   /\ now.timedOut /\ now.fenced /\ Sets(i, "queued", FALSE)
                              \/ c.arg = "running" /\ Sets(i, StillRunning(now), now.fenced)
                              \/ c.arg \in Terminal /\ Ends(i, c.arg)
                              \/ c.arg = "failed" /\ Retries(i))

\* Its write advances the version it found; that of an acknowledgement, which
\* goes through the ORM, the one it read; approve and reject leave it alone.
Versions(c, r) ==
  \/ Stays
  \/ row'[c.id].version =
       Advanced(c.id, IF c.op = "ack_ok" THEN r.version ELSE row[c.id].version)
  \/ c.op \in {"approve", "reject"} /\ row'[c.id].version = row[c.id].version

-----------------------------------------------------------------------------
\* Bumped changes the version, and nothing else.
LEMMA BumpedFields ==
  ASSUME NEW i, NEW new \in Row
  PROVE  /\ Bumped(i, new).status = new.status
         /\ Bumped(i, new).fenced = new.fenced
         /\ Bumped(i, new).prev = new.prev
         /\ Bumped(i, new).run = new.run
         /\ Bumped(i, new).retry = new.retry
         /\ Bumped(i, new).version = Advanced(i, new.version)
  BY DEF Bumped, Row, Advanced

\* A conditional write of one row.
LEMMA WriteSets ==
  ASSUME QueueAssumption, TypeOK, NEW i \in Ids, NEW won \in BOOLEAN, NEW new \in Row,
         new.prev = row[i].prev, new.run = row[i].run, new.retry = row[i].retry,
         Write(i, won, new)
  PROVE  \/ Stays
         \/ /\ won /\ Sets(i, new.status, new.fenced)
            /\ row'[i].version = Advanced(i, new.version)
<1>1. CASE ~won
  BY <1>1 DEF Write, Stays
<1>2. CASE won
  <2>1. count' = count /\ run' = run /\ row' = [row EXCEPT ![i] = Bumped(i, new)]
    BY <1>2 DEF Write
  <2>2. row'[i] = Bumped(i, new) /\ \A j \in Ids : j # i => row'[j] = row[j]
    BY <2>1 DEF TypeOK
  <2>. QED
    BY <1>2, <2>1, <2>2, BumpedFields DEF Sets, OneRow
<1>. QED
  BY <1>1, <1>2

\* The terminal columns leave an attempt its identity, fence and version.
LEMMA EndedFields ==
  ASSUME NEW r \in Row, NEW outcome \in Terminal, NEW seq \in 0..MaxSeq
  PROVE  /\ Ended(r, outcome, seq) \in Row
         /\ Ended(r, outcome, seq).status = outcome
         /\ Ended(r, outcome, seq).fenced = r.fenced
         /\ Ended(r, outcome, seq).prev = r.prev
         /\ Ended(r, outcome, seq).run = r.run
         /\ Ended(r, outcome, seq).retry = r.retry
         /\ Ended(r, outcome, seq).version = r.version
  BY DEF Ended, Row

\* One writer ends the attempt.
LEMMA TerminateEnds ==
  ASSUME QueueAssumption, TypeOK, NEW i \in Ids, NEW won \in BOOLEAN,
         NEW outcome \in Terminal, NEW seq \in 0..MaxSeq, Terminate(i, won, outcome, seq)
  PROVE  \/ Stays
         \/ /\ won /\ Ends(i, outcome)
            /\ row'[i].version = Advanced(i, row[i].version)
<1>1. CASE ~won
  BY <1>1 DEF Terminate, Stays
<1>2. CASE won
  <2>. DEFINE new == Ended(row[i], outcome, seq)
  <2>1. /\ count' = count /\ row' = [row EXCEPT ![i] = Bumped(i, new)]
        /\ run' = [run EXCEPT ![row[i].run] = RunOutcome[outcome]]
    BY <1>2 DEF Terminate, TypeOK
  <2>2. row'[i] = Bumped(i, new) /\ \A j \in Ids : j # i => row'[j] = row[j]
    BY <2>1 DEF TypeOK
  <2>3. /\ new \in Row /\ new.status = outcome /\ new.fenced = row[i].fenced
        /\ new.prev = row[i].prev /\ new.run = row[i].run /\ new.retry = row[i].retry
        /\ new.version = row[i].version
    BY EndedFields DEF TypeOK
  <2>. HIDE DEF new
  <2>. QED
    BY <1>2, <2>1, <2>2, <2>3, BumpedFields DEF Ends, OneRow
<1>. QED
  BY <1>1, <1>2

\* The winner of a failure ends the attempt, with or without a retry.
LEMMA FailEnds ==
  ASSUME QueueAssumption, TypeOK, NEW i \in Ids, i <= count, NEW r,
         NEW seq \in 0..MaxSeq, Fail(i, r, TRUE, seq)
  PROVE  \/ Stays
         \/ /\ Ends(i, "failed") \/ Retries(i)
            /\ row'[i].version = Advanced(i, row[i].version)
<1>1. CASE Terminate(i, TRUE, "failed", seq)
  BY <1>1, TerminateEnds DEF Terminal
<1>2. CASE FailAndRetry(i, TRUE, seq)
  <2>. DEFINE new   == Ended(row[i], "failed", seq)
              retry == RetryOf(row[i], i)
  <2>1. /\ count < MaxRows /\ count' = count + 1
        /\ row' = [row EXCEPT ![i] = Bumped(i, new), ![count + 1] = retry]
        /\ run' = [run EXCEPT ![row[i].run] = "failed"]
    BY <1>2 DEF FailAndRetry, TypeOK
  <2>2. count \in Nat /\ MaxRows \in Nat /\ count + 1 \in Ids /\ i # count + 1
    BY <2>1 DEF TypeOK, QueueAssumption, Ids
  <2>3. /\ row'[i] = Bumped(i, new) /\ row'[count + 1] = retry
        /\ \A j \in Ids : j # i /\ j # count + 1 => row'[j] = row[j]
    BY <2>1, <2>2 DEF TypeOK
  <2>4. /\ new \in Row /\ new.status = "failed" /\ new.fenced = row[i].fenced
        /\ new.prev = row[i].prev /\ new.run = row[i].run /\ new.retry = row[i].retry
        /\ new.version = row[i].version
    BY EndedFields DEF TypeOK, Terminal
  <2>5. /\ retry.status = "queued" /\ retry.fenced = FALSE /\ retry.retry = row[i].retry + 1
        /\ retry.prev = i /\ retry.run = row[i].run
    BY DEF RetryOf, NewRow
  <2>6. row[i].retry \in Nat
    BY DEF TypeOK, Row, QueueAssumption
  <2>. HIDE DEF new, retry
  <2>7. OneRow(i)
    <3>1. \A j \in Ids : j <= count \/ j > count' => j # count + 1
      BY <2>1, <2>2 DEF Ids
    <3>. QED
      BY <2>3, <2>4, <3>1, BumpedFields DEF OneRow
  <2>8. row'[i].status = "failed" /\ row'[i].fenced = row[i].fenced
        /\ row'[i].version = Advanced(i, row[i].version)
    BY <2>3, <2>4, BumpedFields
  <2>9. row'[count + 1].retry > 0
    BY <2>3, <2>5, <2>6
  <2>. QED
    BY <2>1, <2>3, <2>5, <2>7, <2>8, <2>9 DEF Retries
<1>. QED
  BY <1>1, <1>2 DEF Fail

\* The columns of an attempt that a conditional write leaves alone.
LEMMA ColumnFields ==
  ASSUME NEW r \in Row
  PROVE  /\ CancelRequested(r) \in Row /\ StartUnknown(r) \in Row /\ Requeued(r) \in Row
         /\ CancelRequested(r).prev = r.prev /\ CancelRequested(r).run = r.run
         /\ CancelRequested(r).retry = r.retry /\ CancelRequested(r).version = r.version
         /\ CancelRequested(r).status = "cancel_requested"
         /\ CancelRequested(r).fenced = r.fenced
         /\ StartUnknown(r).prev = r.prev /\ StartUnknown(r).run = r.run
         /\ StartUnknown(r).retry = r.retry /\ StartUnknown(r).version = r.version
         /\ StartUnknown(r).status = r.status /\ StartUnknown(r).fenced = r.fenced
         /\ Requeued(r).prev = r.prev /\ Requeued(r).run = r.run
         /\ Requeued(r).retry = r.retry /\ Requeued(r).version = r.version
         /\ Requeued(r).status = "queued" /\ Requeued(r).fenced = FALSE
<1>1. CancelRequested(r) \in Row /\ StartUnknown(r) \in Row /\ Requeued(r) \in Row
  BY ZenonT(30) DEF CancelRequested, StartUnknown, Requeued, Row, Active, Capacity, Pending
<1>2. /\ CancelRequested(r).prev = r.prev /\ CancelRequested(r).run = r.run
      /\ CancelRequested(r).retry = r.retry /\ CancelRequested(r).version = r.version
      /\ CancelRequested(r).status = "cancel_requested" /\ CancelRequested(r).fenced = r.fenced
  BY DEF CancelRequested, Row
<1>3. /\ StartUnknown(r).prev = r.prev /\ StartUnknown(r).run = r.run
      /\ StartUnknown(r).retry = r.retry /\ StartUnknown(r).version = r.version
      /\ StartUnknown(r).status = r.status /\ StartUnknown(r).fenced = r.fenced
  BY DEF StartUnknown, Row
<1>4. /\ Requeued(r).prev = r.prev /\ Requeued(r).run = r.run /\ Requeued(r).retry = r.retry
      /\ Requeued(r).version = r.version
      /\ Requeued(r).status = "queued" /\ Requeued(r).fenced = FALSE
  BY DEF Requeued, Row
<1>. QED
  BY <1>1, <1>2, <1>3, <1>4

\* So does a progress event.
LEMMA ProgressedFields ==
  ASSUME NEW r \in Row, NEW seq \in 0..MaxSeq, NEW status \in {"cancel_requested", "running"}
  PROVE  LET new == Progressed(r, status, seq)
         IN  /\ new \in Row /\ new.prev = r.prev /\ new.run = r.run /\ new.retry = r.retry
             /\ new.version = r.version /\ new.status = status /\ new.fenced = r.fenced
<1>1. Progressed(r, status, seq) \in Row
  BY DEF Progressed, Row, Active, Capacity
<1>. QED
  BY <1>1 DEF Progressed, Row

\* So does a flush that records what the Runtime was seen to do.
LEMMA ObservedFields ==
  ASSUME TypeOK, NEW i \in Ids, NEW r \in Row, NEW state \in {"accepted", "running"}
  PROVE  /\ Observed(i, r, state) \in Row
         /\ Observed(i, r, state).status = row[i].status
         /\ Observed(i, r, state).fenced = row[i].fenced
         /\ Observed(i, r, state).prev = row[i].prev
         /\ Observed(i, r, state).run = row[i].run
         /\ Observed(i, r, state).retry = row[i].retry
         /\ Observed(i, r, state).version = r.version
<1>1. Observed(i, r, state) \in Row /\ row[i] \in Row
  BY ObservedTyped DEF TypeOK
<1>. QED
  BY <1>1 DEF Observed, Row

\* approve and reject write one row.
LEMMA ApprovalEffect ==
  ASSUME QueueAssumption, TypeOK, NEW i \in Ids
  PROVE  /\ Approve(i) => /\ \E s \in {"waiting_runtime", "queued"} : Sets(i, s, row[i].fenced)
                          /\ row'[i].version = row[i].version
         /\ Reject(i) => Ends(i, "cancelled") /\ row'[i].version = row[i].version
<1>0. row[i] \in Row
  BY DEF TypeOK
<1>1. ASSUME Approve(i)
      PROVE  /\ \E s \in {"waiting_runtime", "queued"} : Sets(i, s, row[i].fenced)
             /\ row'[i].version = row[i].version
  <2>1. PICK s \in {"waiting_runtime", "queued"} :
          row' = [row EXCEPT ![i] = [row[i] EXCEPT !.approval = FALSE, !.status = s]]
    BY <1>1 DEF Approve, TypeOK
  <2>. DEFINE new == [row[i] EXCEPT !.approval = FALSE, !.status = s]
  <2>2. row'[i] = new /\ \A j \in Ids : j # i => row'[j] = row[j]
    BY <2>1 DEF TypeOK
  <2>3. /\ new.status = s /\ new.fenced = row[i].fenced /\ new.prev = row[i].prev
        /\ new.run = row[i].run /\ new.retry = row[i].retry /\ new.version = row[i].version
    BY <1>0 DEF Row
  <2>4. count' = count /\ run' = run
    BY <1>1 DEF Approve
  <2>. HIDE DEF new
  <2>5. Sets(i, s, row[i].fenced)
    BY <2>2, <2>3, <2>4 DEF Sets, OneRow
  <2>. QED
    BY <2>2, <2>3, <2>5
<1>2. ASSUME Reject(i)
      PROVE  Ends(i, "cancelled") /\ row'[i].version = row[i].version
  <2>. DEFINE new == [row[i] EXCEPT !.status = "cancelled", !.approval = FALSE,
                                    !.observed = "cancelled", !.sync = "in_sync"]
  <2>1. row'[i] = new /\ \A j \in Ids : j # i => row'[j] = row[j]
    BY <1>2 DEF Reject, TypeOK
  <2>2. /\ new.status = "cancelled" /\ new.fenced = row[i].fenced /\ new.prev = row[i].prev
        /\ new.run = row[i].run /\ new.retry = row[i].retry /\ new.version = row[i].version
    BY <1>0 DEF Row
  <2>3. count' = count /\ run' = [run EXCEPT ![row[i].run] = "cancelled"]
    BY <1>2 DEF Reject
  <2>4. RunOutcome["cancelled"] = "cancelled"
    BY DEF RunOutcome, Terminal
  <2>. HIDE DEF new
  <2>. QED
    BY <2>1, <2>2, <2>3, <2>4 DEF Ends, OneRow
<1>. QED
  BY <1>1, <1>2

\* A compare-and-swap handler, and the recovery scan, do what the table says.
LEMMA GuardedEffect ==
  ASSUME QueueAssumption, TypeOK, NEW c \in Call,
         c.op \in CasHandlers \cup {"recover"}, NEW r \in Row, Handle(c, r)
  PROVE  Effect(c, r) /\ Versions(c, r)
<1>. DEFINE i == c.id
<1>0. /\ i \in Ids /\ row[i] \in Row /\ 0 \in 0..MaxSeq /\ c.seq \in 0..MaxSeq
      /\ SameRead(i, r) \in BOOLEAN /\ "cancelled" \in Terminal /\ "failed" \in Terminal
  BY CallTyped DEF TypeOK, SameRead, Terminal
<1>a. ASSUME NEW outcome \in Terminal, Terminate(i, SameRead(i, r), outcome, 0)
      PROVE  /\ Stays \/ (SameRead(i, r) /\ Ends(i, outcome))
             /\ Stays \/ row'[i].version = Advanced(i, row[i].version)
  BY <1>0, <1>a, TerminateEnds
<1>b. ASSUME NEW new \in Row, NEW won \in BOOLEAN, Write(i, won, new),
             new.prev = row[i].prev, new.run = row[i].run, new.retry = row[i].retry,
             new.version = row[i].version
      PROVE  /\ Stays \/ (won /\ Sets(i, new.status, new.fenced))
             /\ Stays \/ row'[i].version = Advanced(i, row[i].version)
  BY <1>0, <1>b, WriteSets
<1>1. CASE c.op = "cancel"
  <2>1. Cancel(i, r)
    BY <1>1 DEF Handle
  <2>2. CASE r.status \in Pending \/ (r.status = "claimed" /\ ~r.fenced)
    BY <1>0, <1>1, <1>a, <2>1, <2>2 DEF Cancel, Effect, Versions
  <2>3. CASE ~(r.status \in Pending \/ (r.status = "claimed" /\ ~r.fenced))
    <3>. DEFINE won == row[i].status \in {"claimed", "running"} /\ row[i].version = r.version
    <3>. DEFINE new == CancelRequested(row[i])
    <3>1. Write(i, won, new) /\ won \in BOOLEAN
      BY <2>1, <2>3 DEF Cancel
    <3>2. /\ new \in Row /\ new.prev = row[i].prev /\ new.run = row[i].run
          /\ new.retry = row[i].retry /\ new.version = row[i].version
          /\ new.status = "cancel_requested" /\ new.fenced = row[i].fenced
      BY <1>0, ColumnFields
    <3>. HIDE DEF new
    <3>3. /\ Stays \/ (won /\ Sets(i, new.status, new.fenced))
          /\ Stays \/ row'[i].version = Advanced(i, row[i].version)
      BY <1>b, <3>1, <3>2
    <3>. QED
      BY <1>1, <3>2, <3>3 DEF Effect, Versions
  <2>. QED
    BY <2>2, <2>3
<1>2. CASE c.op \in {"preflight", "ack_rejected"}
  BY <1>0, <1>2, <1>a DEF Handle, Refuse, Effect, Versions
<1>u. ASSUME MarkUnknown(i, r)
      PROVE  /\ Stays \/ Sets(i, row[i].status, row[i].fenced)
             /\ Stays \/ row'[i].version = Advanced(i, row[i].version)
  <2>. DEFINE won == row[i].version = r.version /\ row[i].status \in Capacity
              new == StartUnknown(row[i])
  <2>1. Write(i, won, new) /\ won \in BOOLEAN
    BY <1>u DEF MarkUnknown
  <2>2. /\ new \in Row /\ new.prev = row[i].prev /\ new.run = row[i].run
        /\ new.retry = row[i].retry /\ new.version = row[i].version
        /\ new.status = row[i].status /\ new.fenced = row[i].fenced
    BY <1>0, ColumnFields
  <2>. HIDE DEF new
  <2>3. /\ Stays \/ (won /\ Sets(i, new.status, new.fenced))
        /\ Stays \/ row'[i].version = Advanced(i, row[i].version)
    BY <1>b, <2>1, <2>2
  <2>. QED
    BY <2>2, <2>3
<1>3. CASE c.op = "unknown"
  BY <1>3, <1>u DEF Handle, Effect, Versions
<1>4. CASE c.op = "recover"
  <2>1. Recover(i, r)
    BY <1>4 DEF Handle
  <2>2. CASE r.status = "claimed" /\ ~r.fenced
    <3>. DEFINE won == row[i].status \in Active
                new == Requeued(row[i])
    <3>1. Write(i, won, new) /\ won \in BOOLEAN
      BY <2>1, <2>2 DEF Recover
    <3>2. /\ new \in Row /\ new.prev = row[i].prev /\ new.run = row[i].run
          /\ new.retry = row[i].retry /\ new.version = row[i].version
          /\ new.status = "queued" /\ new.fenced = FALSE
      BY <1>0, ColumnFields
    <3>. HIDE DEF new
    <3>3. /\ Stays \/ (won /\ Sets(i, new.status, new.fenced))
          /\ Stays \/ row'[i].version = Advanced(i, row[i].version)
      BY <1>b, <3>1, <3>2
    <3>. QED
      BY <1>4, <2>2, <3>2, <3>3 DEF Effect, Versions
  <2>3. CASE ~(r.status = "claimed" /\ ~r.fenced)
    BY <1>4, <1>u, <2>1, <2>3 DEF Recover, Effect, Versions
  <2>. QED
    BY <2>2, <2>3
<1>5. CASE c.op = "observe"
  <2>. DEFINE won == row[i].version = r.version /\ row[i].status \in Capacity
                     /\ row[i].seq < c.seq
              new == Progressed(row[i], StillRunning(r), c.seq)
  <2>1. Write(i, won, new) /\ won \in BOOLEAN
    BY <1>5 DEF Handle, Observe
  <2>2. /\ new \in Row /\ new.prev = row[i].prev /\ new.run = row[i].run
        /\ new.retry = row[i].retry /\ new.version = row[i].version
        /\ new.status = StillRunning(r) /\ new.fenced = row[i].fenced
    BY <1>0, ProgressedFields DEF StillRunning
  <2>. HIDE DEF new
  <2>3. /\ Stays \/ (won /\ Sets(i, new.status, new.fenced))
        /\ Stays \/ row'[i].version = Advanced(i, row[i].version)
    BY <1>b, <2>1, <2>2
  <2>. QED
    BY <1>5, <2>2, <2>3 DEF Effect, Versions
<1>. QED
  BY <1>1, <1>2, <1>3, <1>4, <1>5 DEF CasHandlers

\* An acknowledgement that was accepted writes through the ORM.
LEMMA AcceptEffect ==
  ASSUME QueueAssumption, TypeOK, NEW c \in Call, c.op = "ack_ok", NEW r \in Row, Handle(c, r)
  PROVE  Effect(c, r) /\ Versions(c, r)
<1>. DEFINE i   == c.id
            q   == Observed(i, r, "accepted")
            f   == Column(r.fenced, q.fenced, TRUE)
            new == [q EXCEPT !.fenced = f, !.lease = "live"]
<1>1. i \in Ids /\ Write(i, TRUE, new)
  BY CallTyped DEF Handle, Accept
<1>2. /\ q \in Row /\ q.status = row[i].status /\ q.fenced = row[i].fenced
      /\ q.prev = row[i].prev /\ q.run = row[i].run /\ q.retry = row[i].retry
      /\ q.version = r.version
  BY <1>1, ObservedFields
<1>3. f \in {row[i].fenced, TRUE} /\ f \in BOOLEAN
  BY <1>2 DEF Column, Row
<1>. HIDE DEF q, f
<1>4. new \in Row
  BY ZenonT(30), <1>2, <1>3 DEF Row
<1>6. /\ new.status = q.status /\ new.fenced = f /\ new.prev = q.prev
      /\ new.run = q.run /\ new.retry = q.retry /\ new.version = q.version
  BY <1>2 DEF Row
<1>. HIDE DEF new
<1>7. /\ new.status = row[i].status /\ new.version = r.version
      /\ new.prev = row[i].prev /\ new.run = row[i].run /\ new.retry = row[i].retry
  BY <1>2, <1>6
<1>8. \/ Stays
      \/ Sets(i, new.status, new.fenced) /\ row'[i].version = Advanced(i, new.version)
  BY <1>1, <1>4, <1>7, WriteSets
<1>5. \/ Stays
      \/ Sets(i, row[i].status, f) /\ row'[i].version = Advanced(i, r.version)
  BY <1>6, <1>7, <1>8
<1>. QED
  BY <1>3, <1>5 DEF Effect, Versions

\* A snapshot that is applied to the row it has just read.
LEMMA SnapshotEffect ==
  ASSUME QueueAssumption, TypeOK, NEW c \in Call, c.op = "snapshot", c.id <= count,
         Handle(c, row[c.id])
  PROVE  Effect(c, row[c.id]) /\ Versions(c, row[c.id])
<1>. DEFINE i == c.id
            r == row[i]
<1>0. /\ i \in Ids /\ r \in Row /\ 0 \in 0..MaxSeq /\ c.arg \in Reports
      /\ SameRead(i, r) = TRUE /\ "cancelled" \in Terminal
      /\ Reconcile(i, r, c.arg)
  BY CallTyped DEF TypeOK, SameRead, Terminal, Handle
<1>a. ASSUME NEW won \in BOOLEAN, NEW outcome \in Terminal, Terminate(i, won, outcome, 0)
      PROVE  /\ Stays \/ (won /\ Ends(i, outcome))
             /\ Stays \/ row'[i].version = Advanced(i, r.version)
  BY <1>0, <1>a, TerminateEnds
<1>b. ASSUME NEW new \in Row, NEW won \in BOOLEAN, Write(i, won, new),
             new.prev = r.prev, new.run = r.run, new.retry = r.retry, new.version = r.version
      PROVE  /\ Stays \/ (won /\ Sets(i, new.status, new.fenced))
             /\ Stays \/ row'[i].version = Advanced(i, r.version)
  BY <1>0, <1>b, WriteSets
<1>1. CASE c.arg = "missing"
  <2>0. ReconcileMissing(i, r)
    BY <1>0, <1>1 DEF Reconcile
  <2>1. CASE r.status = "cancel_requested"
    <3>1. Terminate(i, r.status = "cancel_requested", "cancelled", 0)
      BY <2>0, <2>1 DEF ReconcileMissing
    <3>. QED
      BY <1>0, <1>1, <1>a, <3>1 DEF Effect, Versions
  <2>2. CASE r.status = "claimed" /\ r.observed = "unconfirmed" /\ r.timedOut /\ r.fenced
    <3>. DEFINE new == Requeued(r)
    <3>1. Write(i, TRUE, new)
      BY <1>0, <2>0, <2>2 DEF ReconcileMissing
    <3>2. /\ new \in Row /\ new.prev = r.prev /\ new.run = r.run /\ new.retry = r.retry
          /\ new.version = r.version /\ new.status = "queued" /\ new.fenced = FALSE
      BY <1>0, ColumnFields
    <3>. HIDE DEF new
    <3>3. /\ Stays \/ Sets(i, new.status, new.fenced)
          /\ Stays \/ row'[i].version = Advanced(i, r.version)
      BY <1>b, <3>1, <3>2
    <3>. QED
      BY <1>1, <2>2, <3>2, <3>3 DEF Effect, Versions
  <2>3. CASE Write(i, TRUE, Diverged(i, r))
    <3>1. /\ Diverged(i, r) \in Row /\ Diverged(i, r).status = r.status
          /\ Diverged(i, r).fenced = r.fenced /\ Diverged(i, r).prev = r.prev
          /\ Diverged(i, r).run = r.run /\ Diverged(i, r).retry = r.retry
          /\ Diverged(i, r).version = r.version
      BY <1>0 DEF Diverged, Column, Row
    <3>2. /\ Stays \/ Sets(i, r.status, r.fenced)
          /\ Stays \/ row'[i].version = Advanced(i, r.version)
      BY <1>b, <2>3, <3>1
    <3>. QED
      BY <3>2 DEF Effect, Versions
  <2>. QED
    BY <2>0, <2>1, <2>2, <2>3 DEF ReconcileMissing
<1>2. CASE c.arg = "running"
  <2>. DEFINE q   == Observed(i, r, "running")
              s   == Column(r.status, q.status, StillRunning(r))
              new == [q EXCEPT !.status = s]
  <2>1. Write(i, TRUE, new)
    BY <1>0, <1>2 DEF Reconcile, ReconcileRunning
  <2>2. /\ q \in Row /\ q.status = r.status /\ q.fenced = r.fenced
        /\ q.prev = r.prev /\ q.run = r.run /\ q.retry = r.retry /\ q.version = r.version
    BY <1>0, ObservedFields
  <2>3. s = StillRunning(r) /\ s \in {"none"} \cup Active \cup Terminal
    BY <2>2 DEF Column, StillRunning, Active, Capacity
  <2>. HIDE DEF q, s
  <2>4. /\ new \in Row /\ new.status = s /\ new.fenced = q.fenced /\ new.prev = q.prev
        /\ new.run = q.run /\ new.retry = q.retry /\ new.version = q.version
    BY <2>2, <2>3 DEF Row
  <2>. HIDE DEF new
  <2>5. /\ Stays \/ Sets(i, StillRunning(r), r.fenced)
        /\ Stays \/ row'[i].version = Advanced(i, r.version)
    BY <1>b, <2>1, <2>2, <2>3, <2>4
  <2>. QED
    BY <1>2, <2>5 DEF Effect, Versions
<1>3. CASE c.arg = "accepted"
  <2>. DEFINE q   == Observed(i, r, "accepted")
              new == [q EXCEPT !.lease = "live"]
  <2>1. Write(i, TRUE, new)
    BY <1>0, <1>3 DEF Reconcile, ReconcileAccepted
  <2>2. /\ q \in Row /\ q.status = r.status /\ q.fenced = r.fenced
        /\ q.prev = r.prev /\ q.run = r.run /\ q.retry = r.retry /\ q.version = r.version
    BY <1>0, ObservedFields
  <2>. HIDE DEF q
  <2>3. /\ new \in Row /\ new.status = q.status /\ new.fenced = q.fenced /\ new.prev = q.prev
        /\ new.run = q.run /\ new.retry = q.retry /\ new.version = q.version
    BY <2>2 DEF Row
  <2>. HIDE DEF new
  <2>4. /\ Stays \/ Sets(i, r.status, r.fenced)
        /\ Stays \/ row'[i].version = Advanced(i, r.version)
    BY <1>b, <2>1, <2>2, <2>3
  <2>. QED
    BY <2>4 DEF Effect, Versions
<1>4. CASE c.arg = "failed"
  <2>1. Fail(i, r, TRUE, 0)
    BY <1>0, <1>4 DEF Reconcile
  <2>2. \/ Stays
        \/ /\ Ends(i, "failed") \/ Retries(i)
           /\ row'[i].version = Advanced(i, r.version)
    BY <1>0, <2>1, FailEnds
  <2>. QED
    BY <1>4, <2>2 DEF Effect, Versions, Terminal
<1>5. CASE c.arg \in {"completed", "cancelled"}
  <2>1. Terminate(i, TRUE, c.arg, 0)
    BY <1>0, <1>5 DEF Reconcile
  <2>. QED
    BY <1>5, <1>a, <2>1 DEF Effect, Versions, Terminal
<1>. QED
  BY <1>0, <1>1, <1>2, <1>3, <1>4, <1>5 DEF Reports, Terminal

\* Whatever a handler decides is in the table.
LEMMA HandleEffect ==
  ASSUME QueueAssumption, TypeOK, NEW c \in Call, c.op \in ServiceOps, c.id <= count,
         NEW r \in Row, Fresh(c, r), Handle(c, r)
  PROVE  Effect(c, r) /\ Versions(c, r)
<1>0. c.id \in Ids /\ c.seq \in 0..MaxSeq /\ (c.op = "finish" => c.arg \in Terminal)
  BY CallTyped
<1>1. CASE c.op \in {"approve", "reject"}
  <2>1. CASE c.op = "approve"
    <3>1. Approve(c.id)
      BY <2>1 DEF Handle
    <3>. QED
      BY <1>0, <2>1, <3>1, ApprovalEffect DEF Effect, Versions
  <2>2. CASE c.op = "reject"
    <3>1. Reject(c.id)
      BY <2>2 DEF Handle
    <3>. QED
      BY <1>0, <2>2, <3>1, ApprovalEffect DEF Effect, Versions
  <2>. QED
    BY <1>1, <2>1, <2>2
<1>2. CASE c.op = "finish"
  <2>1. Settle(c.id, c.arg, c.seq)
    BY <1>2 DEF Handle
  <2>2. CASE c.arg # "failed"
    <3>1. Terminate(c.id, TRUE, c.arg, c.seq)
      BY <1>0, <1>2, <2>1, <2>2 DEF Settle, Terminal
    <3>. QED
      BY <1>0, <1>2, <2>2, <3>1, TerminateEnds DEF Effect, Versions
  <2>3. CASE c.arg = "failed" /\ row[c.id].status = "cancel_requested"
    <3>1. Terminate(c.id, TRUE, "cancelled", c.seq)
      BY <2>1, <2>3 DEF Settle
    <3>. QED
      BY <1>0, <1>2, <2>3, <3>1, TerminateEnds DEF Effect, Versions, Terminal
  <2>4. CASE c.arg = "failed" /\ row[c.id].status # "cancel_requested"
    <3>1. Fail(c.id, row[c.id], TRUE, c.seq)
      BY <2>1, <2>4 DEF Settle
    <3>. QED
      BY <1>0, <1>2, <2>4, <3>1, FailEnds DEF Effect, Versions
  <2>. QED
    BY <2>2, <2>3, <2>4
<1>. QED
  BY <1>1, <1>2, GuardedEffect, AcceptEffect, SnapshotEffect
     DEF Fresh, ServiceOps, CasHandlers, BlindHandlers

-----------------------------------------------------------------------------
\* The backend's own writes of a row end no attempt.
LEMMA OwnWrites ==
  ASSUME QueueAssumption, TypeOK, NEW i \in Ids
  PROVE  /\ SelectRuntime(i) =>
              /\ row[i].status \in {"waiting_runtime", "queued"}
              /\ \E s \in {"pending_approval", "queued"} : Sets(i, s, row[i].fenced)
              /\ row'[i].version = Advanced(i, row[i].version)
         /\ \A d \in Device : Claim(i, d) =>
              /\ row[i].status = "queued" /\ Sets(i, "claimed", row[i].fenced)
              /\ row'[i].version = Advanced(i, row[i].version)
         /\ RequestStart(i) =>
              /\ row[i].status = "claimed" /\ ~row[i].fenced /\ Sets(i, "claimed", TRUE)
              /\ row'[i].version = Advanced(i, row[i].version)
         /\ Redeliver(i) \/ Heartbeat(i) \/ LeaseExpires(i) =>
              /\ Sets(i, row[i].status, row[i].fenced)
              /\ row'[i].version = row[i].version
<1>. DEFINE q == row[i]
<1>0. q \in Row
  BY DEF TypeOK
<1>a. ASSUME NEW new, row' = [row EXCEPT ![i] = new], count' = count, run' = run,
             new.prev = q.prev, new.run = q.run, new.retry = q.retry
      PROVE  Sets(i, new.status, new.fenced) /\ row'[i] = new
  BY <1>a DEF Sets, OneRow, TypeOK
<1>1. SelectRuntime(i) =>
              /\ row[i].status \in {"waiting_runtime", "queued"}
              /\ \E s \in {"pending_approval", "queued"} : Sets(i, s, row[i].fenced)
              /\ row'[i].version = Advanced(i, row[i].version)
  <2>. HAVE SelectRuntime(i)
  <2>. DEFINE s   == IF q.approval THEN "pending_approval" ELSE "queued"
              set == [q EXCEPT !.status = s]
              new == Bumped(i, set)
  <2>1. set \in Row
    BY <1>0 DEF Row, Active, Pending
  <2>2. /\ set.status = s /\ set.fenced = q.fenced /\ set.prev = q.prev /\ set.run = q.run
        /\ set.retry = q.retry /\ set.version = q.version
    BY <1>0 DEF Row
  <2>3. row' = [row EXCEPT ![i] = new] /\ count' = count /\ run' = run
        /\ q.status \in {"waiting_runtime", "queued"}
    BY DEF SelectRuntime
  <2>. HIDE DEF set
  <2>4. /\ new.status = s /\ new.fenced = q.fenced /\ new.prev = q.prev /\ new.run = q.run
        /\ new.retry = q.retry /\ new.version = Advanced(i, q.version)
    BY <2>1, <2>2, BumpedFields
  <2>. HIDE DEF new
  <2>5. Sets(i, new.status, new.fenced) /\ row'[i] = new
    BY <1>a, <2>3, <2>4
  <2>. QED
    BY <2>3, <2>4, <2>5
<1>2. ASSUME NEW d \in Device, Claim(i, d)
      PROVE  /\ row[i].status = "queued" /\ Sets(i, "claimed", row[i].fenced)
             /\ row'[i].version = Advanced(i, row[i].version)
  <2>. DEFINE set == [q EXCEPT !.status = "claimed", !.device = d, !.lease = "live"]
              new == Bumped(i, set)
  <2>1. set \in Row
    BY <1>0 DEF Row, Active, Capacity
  <2>2. /\ set.status = "claimed" /\ set.fenced = q.fenced /\ set.prev = q.prev
        /\ set.run = q.run /\ set.retry = q.retry /\ set.version = q.version
    BY <1>0 DEF Row
  <2>3. row' = [row EXCEPT ![i] = new] /\ count' = count /\ run' = run /\ q.status = "queued"
    BY <1>2 DEF Claim
  <2>. HIDE DEF set
  <2>4. /\ new.status = "claimed" /\ new.fenced = q.fenced /\ new.prev = q.prev
        /\ new.run = q.run /\ new.retry = q.retry /\ new.version = Advanced(i, q.version)
    BY <2>1, <2>2, BumpedFields
  <2>. HIDE DEF new
  <2>5. Sets(i, new.status, new.fenced) /\ row'[i] = new
    BY <1>a, <2>3, <2>4
  <2>. QED
    BY <2>3, <2>4, <2>5
<1>3. RequestStart(i) =>
              /\ row[i].status = "claimed" /\ ~row[i].fenced /\ Sets(i, "claimed", TRUE)
              /\ row'[i].version = Advanced(i, row[i].version)
  <2>. HAVE RequestStart(i)
  <2>. DEFINE set == [q EXCEPT !.fenced = TRUE, !.lease = "live"]
              new == Bumped(i, set)
  <2>1. set \in Row
    BY <1>0 DEF Row
  <2>2. /\ set.status = q.status /\ set.fenced = TRUE /\ set.prev = q.prev
        /\ set.run = q.run /\ set.retry = q.retry /\ set.version = q.version
    BY <1>0 DEF Row
  <2>3. /\ row' = [row EXCEPT ![i] = new] /\ count' = count /\ run' = run
        /\ q.status = "claimed" /\ ~q.fenced
    BY DEF RequestStart
  <2>. HIDE DEF set
  <2>4. /\ new.status = "claimed" /\ new.fenced = TRUE /\ new.prev = q.prev
        /\ new.run = q.run /\ new.retry = q.retry /\ new.version = Advanced(i, q.version)
    BY <2>1, <2>2, <2>3, BumpedFields
  <2>. HIDE DEF new
  <2>5. Sets(i, new.status, new.fenced) /\ row'[i] = new
    BY <1>a, <2>3, <2>4
  <2>. QED
    BY <2>3, <2>4, <2>5
<1>4. ASSUME NEW lease, row' = [row EXCEPT ![i].lease = lease], count' = count, run' = run
      PROVE  Sets(i, q.status, q.fenced) /\ row'[i].version = q.version
  <2>. DEFINE new == [q EXCEPT !.lease = lease]
  <2>1. /\ new.status = q.status /\ new.fenced = q.fenced /\ new.prev = q.prev
        /\ new.run = q.run /\ new.retry = q.retry /\ new.version = q.version
    BY <1>0 DEF Row
  <2>2. row' = [row EXCEPT ![i] = new]
    BY <1>4
  <2>. HIDE DEF new
  <2>3. Sets(i, new.status, new.fenced) /\ row'[i] = new
    BY <1>4, <1>a, <2>1, <2>2
  <2>. QED
    BY <2>1, <2>3
<1>5. Redeliver(i) \/ Heartbeat(i) \/ LeaseExpires(i) =>
              /\ Sets(i, row[i].status, row[i].fenced)
              /\ row'[i].version = row[i].version
  BY <1>4 DEF Redeliver, Heartbeat, LeaseExpires
<1>. QED
  BY <1>1, <1>2, <1>3, <1>5

\* A handler that reads and writes in one step.
LEMMA ServeEffect ==
  ASSUME QueueAssumption, IInv, NEW c \in Call, c.op \in ServiceOps, Serve(c)
  PROVE  /\ c.id \in Ids /\ c.id <= count /\ row[c.id] \in Row /\ row[c.id].status \in Active
         /\ Applies(c, row[c.id]) /\ Fresh(c, row[c.id])
         /\ Effect(c, row[c.id]) /\ Versions(c, row[c.id])
<1>1. c.id \in Ids /\ row[c.id] \in Row /\ c.id <= count /\ row[c.id].status \in Active
  BY CallTyped, AppliesAllocated DEF IInv, TypeOK, Serve
<1>2. Fresh(c, row[c.id])
  BY DEF Fresh, Serve
<1>3. Effect(c, row[c.id]) /\ Versions(c, row[c.id])
  BY <1>1, <1>2, HandleEffect DEF IInv, Serve
<1>. QED
  BY <1>1, <1>2, <1>3 DEF Serve

\* A handler that writes what it decided on an earlier read.
LEMMA FinishEffect ==
  ASSUME QueueAssumption, IInv, NoBlindOverlap, NEW o \in open, Finish(o)
  PROVE  /\ o.call \in Call /\ o.call.op \in Overlapping \cap ServiceOps
         /\ o.call.op # "finish"
         /\ o.call.id \in Ids /\ o.call.id <= count /\ o.read \in Row
         /\ o.read.status \in Active /\ Fresh(o.call, o.read)
         /\ Effect(o.call, o.read) /\ Versions(o.call, o.read)
<1>1. /\ o.call \in Call /\ o.read \in Row /\ o.call.id <= count /\ o.call.op \in Overlapping
      /\ o.call.op \in ServiceOps /\ o.call.op # "finish" /\ o.read.status \in Active
  BY DEF IInv, TypeOK, ReadsFit, Open, QueueAssumption, ServiceOps, CasHandlers, BlindHandlers
<1>2. Fresh(o.call, o.read)
  BY DEF Fresh, NoBlindOverlap, IInv, ReadsFit
<1>3. o.call.id \in Ids
  BY <1>1, CallTyped
<1>4. Effect(o.call, o.read) /\ Versions(o.call, o.read)
  BY <1>1, <1>2, HandleEffect DEF IInv, Finish
<1>. QED
  BY <1>1, <1>2, <1>3, <1>4

\* The backend's own writes of a row.
OwnWrite(i) ==
  \/ SelectRuntime(i) \/ (\E d \in Device : Claim(i, d)) \/ RequestStart(i)
  \/ Redeliver(i) \/ Heartbeat(i) \/ LeaseExpires(i)

\* A call that reaches the backend: a message in flight or a request.
Arrives(c) == c \in net \/ (\E i \in Ids, op \in RequestOps : c = Message(op, i))

\* A step leaves the table alone, enqueues, writes a row of its own accord, or
\* runs a handler.
LEMMA StepKinds ==
  ASSUME QueueAssumption, IInv, [Next]_vars
  PROVE  \/ Stays
         \/ \E s \in Scope, status \in Admissions, approval \in BOOLEAN :
              Enqueue(s, status, approval)
         \/ \E i \in Ids : OwnWrite(i)
         \/ \E c \in Call : c.op \in ServiceOps /\ Arrives(c) /\ Serve(c)
         \/ \E o \in open : Finish(o)
<1>. DEFINE Served == \E c \in Call : c.op \in ServiceOps /\ Arrives(c) /\ Serve(c)
<1>0. net \subseteq Call
  BY DEF IInv, TypeOK
<1>1. ASSUME NEW c \in Call, c.op \in ServiceOps, Arrives(c), Perform(c)
      PROVE  Stays \/ Served
  BY <1>1 DEF Perform, Begin, Stays
<1>2. CASE UNCHANGED vars
  BY <1>2 DEF vars, Stays
<1>3. CASE BackendStep
  <2>1. ASSUME NEW i \in Ids, NEW op \in RequestOps, Ask(op, i) PROVE Stays \/ Served
    <3>1. op \in ServiceOps /\ op \notin {"snapshot", "finish"}
      BY DEF RequestOps, ServiceOps, CasHandlers, BlindHandlers
    <3>2. Message(op, i) \in Call /\ Message(op, i).op = op
      BY <3>1, MessageTyped DEF Message
    <3>. QED
      BY <1>1, <2>1, <3>1, <3>2 DEF Ask, Arrives
  <2>2. ASSUME NEW m \in net, m.op \in ServiceOps, Perform(m) PROVE Stays \/ Served
    BY <1>0, <1>1, <2>2 DEF Arrives
  <2>3. ASSUME NEW m \in net, Discard(m) PROVE Stays
    BY <2>3 DEF Discard, Stays
  <2>4. ASSUME NEW i \in Ids, SendStop(i) PROVE Stays
    BY <2>4 DEF SendStop, Stays
  <2>. QED
    BY <1>3, <2>1, <2>2, <2>3, <2>4 DEF BackendStep, OwnWrite
<1>4. CASE RuntimeStep
  BY <1>4 DEF RuntimeStep, Create, RefuseCreate, StartTurn, EndTurn, StopQueued, StopLive,
              TakeSnapshot, Lose, Stays
<1>. QED
  BY <1>2, <1>3, <1>4 DEF Next

\* A new row waits, retries nothing, and opens a run of its own.
LEMMA EnqueueWrites ==
  ASSUME QueueAssumption, IInv, NEW s \in Scope, NEW status \in Admissions,
         NEW approval \in BOOLEAN, Enqueue(s, status, approval)
  PROVE  /\ count \in Nat /\ count' = count + 1 /\ count + 1 \in Ids /\ run' = run
         /\ \A j \in Ids : j # count + 1 => row'[j] = row[j]
         /\ row'[count + 1].status \in Pending /\ row'[count + 1].retry = 0
         /\ row'[count + 1].run = count + 1 /\ ~row'[count + 1].fenced
<1>1. PICK prev \in 0..count :
        row' = [row EXCEPT ![count + 1] = NewRow(status, s, approval, prev, count + 1)]
  BY DEF Enqueue
<1>. DEFINE new == NewRow(status, s, approval, prev, count + 1)
<1>2. /\ count \in Nat /\ count' = count + 1 /\ count + 1 \in Ids /\ run' = run
      /\ status \in Pending
  BY DEF Enqueue, IInv, TypeOK, QueueAssumption, Ids
<1>3. /\ new.status = status /\ new.retry = 0 /\ new.run = count + 1 /\ new.fenced = FALSE
  BY DEF NewRow
<1>. HIDE DEF new
<1>4. \A j \in Ids : row'[j] = IF j = count + 1 THEN new ELSE row[j]
  BY <1>1, <1>2 DEF IInv, TypeOK, new
<1>. QED
  BY <1>2, <1>3, <1>4

-----------------------------------------------------------------------------
(***************************************************************************)
(* Attempts and runs.  A step carries every attempt and run along, ends    *)
(* one attempt, ends one and retries it, or enqueues a new execution.      *)
(***************************************************************************)
SameAttempt(j) ==
  row'[j].prev = row[j].prev /\ row'[j].run = row[j].run /\ row'[j].retry = row[j].retry

Carries ==
  /\ count' = count /\ run' = run
  /\ \A j \in Ids : j <= count =>
       /\ SameAttempt(j)
       /\ row[j].status \in Terminal \/ row'[j].status \in Terminal =>
            row'[j].status = row[j].status

\* A handler tells one of these stories of its row.
LEMMA EffectStory ==
  ASSUME QueueAssumption, IInv, NEW c \in Call, c.op \in ServiceOps, c.id <= count, c.id \in Ids,
         NEW r \in Row, r.status \in Active, Fresh(c, r), c.op = "finish" => r = row[c.id],
         Effect(c, r)
  PROVE  \/ Carries
         \/ \E outcome \in Terminal : row[c.id].status \in Active /\ Ends(c.id, outcome)
         \/ row[c.id].status \in Active /\ Retries(c.id)
<1>. DEFINE i   == c.id
            now == row[i]
<1>a. ASSUME Stays PROVE Carries
  BY <1>a DEF Stays, Carries, SameAttempt
<1>b. ASSUME NEW s, NEW f, Sets(i, s, f),
             s = now.status \/ (s \notin Terminal /\ now.status \notin Terminal)
      PROVE  Carries
  BY <1>b DEF Sets, OneRow, Carries, SameAttempt
<1>0. /\ SameRead(i, r) => now.status \in Active
      /\ c.op \in {"approve", "reject"} => now.status = "pending_approval"
      /\ c.op = "snapshot" => now.status \in Capacity /\ r = now
      /\ c.op = "finish" => now.status \in Active
      /\ c.op = "finish" => c.arg \in Terminal
  BY CallTyped DEF SameRead, Fresh, Applies, ApprovalApplies
<1>1. /\ Terminal \cap Active = {} /\ Capacity \subseteq Active /\ Pending \subseteq Active
      /\ "queued" \notin Terminal /\ "waiting_runtime" \notin Terminal
      /\ "cancel_requested" \notin Terminal /\ "claimed" \notin Terminal
      /\ "running" \notin Terminal /\ "pending_approval" \in Active
      /\ {"cancelled", "failed", "completed"} \subseteq Terminal
      /\ StillRunning(r) \notin Terminal
  BY DEF Terminal, Active, Capacity, Pending, StillRunning
<1>2. CASE c.op \in {"cancel", "preflight", "ack_rejected", "reject"}
  BY <1>0, <1>1, <1>2, <1>a, <1>b DEF Effect
<1>3. CASE c.op \in {"unknown", "recover", "ack_ok", "observe", "approve"}
  BY <1>0, <1>1, <1>3, <1>a, <1>b DEF Effect
<1>4. CASE c.op = "finish"
  BY <1>0, <1>1, <1>4, <1>a DEF Effect
<1>5. CASE c.op = "snapshot"
  BY <1>0, <1>1, <1>5, <1>a, <1>b DEF Effect
<1>. QED
  BY <1>2, <1>3, <1>4, <1>5 DEF ServiceOps, CasHandlers, BlindHandlers

\* So does every step.
LEMMA NextStory ==
  ASSUME QueueAssumption, NoBlindOverlap, IInv, [Next]_vars
  PROVE  \/ Carries
         \/ \E i \in Ids, outcome \in Terminal :
              i <= count /\ row[i].status \in Active /\ Ends(i, outcome)
         \/ \E i \in Ids : i <= count /\ row[i].status \in Active /\ Retries(i)
         \/ \E s \in Scope, status \in Admissions, approval \in BOOLEAN :
              Enqueue(s, status, approval)
<1>1. CASE Stays
  BY <1>1 DEF Stays, Carries, SameAttempt
<1>2. ASSUME NEW i \in Ids, OwnWrite(i) PROVE Carries
  <2>1. \E s, f : Sets(i, s, f)
          /\ (s = row[i].status \/ (s \notin Terminal /\ row[i].status \notin Terminal))
    <3>1. TypeOK
      BY DEF IInv
    <3>2. CASE SelectRuntime(i)
      <4>1. PICK s \in {"pending_approval", "queued"} : Sets(i, s, row[i].fenced)
        BY <3>1, <3>2, OwnWrites
      <4>2. row[i].status \in {"waiting_runtime", "queued"}
        BY <3>1, <3>2, OwnWrites
      <4>. QED
        BY <4>1, <4>2 DEF Terminal
    <3>3. CASE \E d \in Device : Claim(i, d)
      <4>1. row[i].status = "queued" /\ Sets(i, "claimed", row[i].fenced)
        BY <3>1, <3>3, OwnWrites
      <4>. QED
        BY <4>1 DEF Terminal
    <3>4. CASE RequestStart(i)
      BY <3>1, <3>4, OwnWrites
    <3>5. CASE Redeliver(i) \/ Heartbeat(i) \/ LeaseExpires(i)
      BY <3>1, <3>5, OwnWrites
    <3>. QED
      BY <1>2, <3>2, <3>3, <3>4, <3>5 DEF OwnWrite
  <2>. QED
    BY <2>1 DEF Sets, OneRow, Carries, SameAttempt
<1>3. ASSUME NEW c \in Call, c.op \in ServiceOps, Serve(c)
      PROVE  \/ Carries
             \/ \E i \in Ids, outcome \in Terminal :
                  i <= count /\ row[i].status \in Active /\ Ends(i, outcome)
             \/ \E i \in Ids : i <= count /\ row[i].status \in Active /\ Retries(i)
  BY <1>3, ServeEffect, EffectStory
<1>4. ASSUME NEW o \in open, Finish(o)
      PROVE  \/ Carries
             \/ \E i \in Ids, outcome \in Terminal :
                  i <= count /\ row[i].status \in Active /\ Ends(i, outcome)
             \/ \E i \in Ids : i <= count /\ row[i].status \in Active /\ Retries(i)
  BY <1>4, FinishEffect, EffectStory
<1>. QED
  BY <1>1, <1>2, <1>3, <1>4, StepKinds

\* The attempts of a run form a chain: a retry follows an attempt that failed,
\* and only the newest attempt of a run is not over.
RetriesFollow ==
  \A i \in Allocated :
    /\ row[i].run <= i
    /\ row[i].retry > 0 => row[i].prev \in Allocated /\ row[row[i].prev].status = "failed"

OlderAreOver ==
  \A i, j \in Allocated : row[i].run = row[j].run /\ i < j => row[i].status \in Terminal

Chained == RetriesFollow /\ OlderAreOver /\ OneRetryPerAttempt /\ RunShowsOutcome

\* Ids and the runs of rows are numbers.
LEMMA RunsTyped ==
  ASSUME QueueAssumption, IInv, NEW i \in Ids
  PROVE  i \in Nat /\ row[i].run \in Ids /\ row[i].run \in Nat
  BY SMTT(20) DEF IInv, TypeOK, Row, Ids, QueueAssumption

\* Attempts that are carried along keep their chain.
LEMMA CarriesChain ==
  ASSUME QueueAssumption, IInv, Chained, Carries
  PROVE  Chained'
<1>0. Allocated' = Allocated /\ Allocated \subseteq Ids /\ \A j \in Allocated : j <= count
  BY DEF Carries, Allocated, IInv, TypeOK, QueueAssumption, Ids
<1>1. RetriesFollow'
  BY <1>0 DEF Carries, SameAttempt, Chained, RetriesFollow, Terminal
<1>2. OlderAreOver'
  BY <1>0 DEF Carries, SameAttempt, Chained, OlderAreOver
<1>3. OneRetryPerAttempt'
  BY <1>0 DEF Carries, SameAttempt, Chained, OneRetryPerAttempt
<1>4. RunShowsOutcome'
  BY <1>0 DEF Carries, SameAttempt, Chained, RunShowsOutcome, IsNewestAttempt
<1>. QED
  BY <1>1, <1>2, <1>3, <1>4 DEF Chained

\* An attempt that was not over was the newest of its run: its run shows its
\* outcome from then on.
LEMMA EndsChain ==
  ASSUME QueueAssumption, IInv, Chained, NEW i \in Ids, i <= count,
         row[i].status \in Active, NEW outcome \in Terminal, Ends(i, outcome)
  PROVE  Chained'
<1>0. /\ Allocated' = Allocated /\ Allocated \subseteq Ids /\ i \in Allocated
      /\ \A j \in Allocated : j <= count
  BY DEF Ends, Allocated, IInv, TypeOK, QueueAssumption, Ids
<1>1. \A j \in Allocated : /\ row'[j].prev = row[j].prev /\ row'[j].run = row[j].run
                           /\ row'[j].retry = row[j].retry
                           /\ j # i => row'[j].status = row[j].status
  BY <1>0 DEF Ends, OneRow
<1>2. row[i].status \notin Terminal /\ row'[i].status = outcome
  BY DEF Ends, Active, Terminal, Pending, Capacity
<1>3. RetriesFollow'
  BY <1>0, <1>1, <1>2 DEF Chained, RetriesFollow, Terminal
<1>4. OlderAreOver'
  BY <1>0, <1>1, <1>2 DEF Chained, OlderAreOver
<1>5. OneRetryPerAttempt'
  BY <1>0, <1>1 DEF Chained, OneRetryPerAttempt
<1>6. \A j \in Allocated : row[j].run = row[i].run => j <= i
  BY <1>0, <1>2 DEF Chained, OlderAreOver, Allocated, Ids, IInv, TypeOK, QueueAssumption
<1>7. RunShowsOutcome'
  <2>. SUFFICES ASSUME NEW j \in Allocated, \A k \in Allocated : row[k].run = row[j].run => k <= j,
                       row'[j].status \in Terminal
                PROVE  run'[row[j].run] = RunOutcome[row'[j].status]
    BY <1>0, <1>1 DEF RunShowsOutcome, IsNewestAttempt
  <2>1. /\ row[i].run \in Ids /\ row[j].run \in Ids
        /\ run \in [Ids -> {"open", "succeeded", "failed", "cancelled"}]
    BY <1>0 DEF IInv, TypeOK, Row
  <2>2. run' = [run EXCEPT ![row[i].run] = RunOutcome[outcome]]
    BY DEF Ends
  <2>3. CASE row[j].run = row[i].run
    <3>1. j = i
      BY <1>0, <1>6, <2>3 DEF Ids
    <3>. QED
      BY <1>2, <2>1, <2>2, <3>1
  <2>4. CASE row[j].run # row[i].run
    <3>1. j # i /\ run'[row[j].run] = run[row[j].run] /\ row'[j].status = row[j].status
      BY <1>1, <2>1, <2>2, <2>4
    <3>. QED
      BY <3>1 DEF Chained, RunShowsOutcome, IsNewestAttempt
  <2>. QED
    BY <2>3, <2>4
<1>. QED
  BY <1>3, <1>4, <1>5, <1>7 DEF Chained

\* An attempt that was not over had no retry: the new one is the only one.
LEMMA RetriesChain ==
  ASSUME QueueAssumption, IInv, Chained, NEW i \in Ids, i <= count,
         row[i].status \in Active, Retries(i)
  PROVE  Chained'
<1>. DEFINE n == count + 1
<1>n. count \in Nat /\ MaxRows \in Nat /\ count < MaxRows /\ count' = n
  BY DEF Retries, IInv, TypeOK, QueueAssumption
<1>0. /\ count \in Nat /\ Allocated' = Allocated \cup {n} /\ n \in Ids /\ n \notin Allocated
      /\ Allocated \subseteq Ids /\ i \in Allocated /\ \A j \in Allocated : j <= count
      /\ n \in Nat /\ \A j \in Allocated : j \in Nat /\ j < n
  BY <1>n DEF Allocated, Ids
<1>1. \A j \in Allocated : /\ row'[j].prev = row[j].prev /\ row'[j].run = row[j].run
                           /\ row'[j].retry = row[j].retry
                           /\ j # i => row'[j].status = row[j].status
  BY <1>0 DEF Retries, OneRow
<1>2. row[i].status \notin Terminal /\ row'[i].status = "failed"
  BY DEF Retries, Active, Terminal, Pending, Capacity
<1>3. row'[n].prev = i /\ row'[n].run = row[i].run /\ row'[n].status \notin Terminal
  BY DEF Retries, Terminal
<1>. HIDE DEF n
<1>4. RetriesFollow'
  <2>. SUFFICES ASSUME NEW j \in Allocated'
                PROVE  /\ row'[j].run <= j
                       /\ row'[j].retry > 0 => /\ row'[j].prev \in Allocated'
                                               /\ row'[row'[j].prev].status = "failed"
    BY DEF RetriesFollow
  <2>1. CASE j \in Allocated
    <3>1. /\ row'[j].prev = row[j].prev /\ row'[j].run = row[j].run
          /\ row'[j].retry = row[j].retry
      BY <1>1, <2>1
    <3>2. /\ row[j].run <= j
          /\ row[j].retry > 0 => row[j].prev \in Allocated /\ row[row[j].prev].status = "failed"
      BY <2>1 DEF Chained, RetriesFollow
    <3>3. row[j].retry > 0 => row'[row[j].prev].status = "failed"
      BY <1>1, <1>2, <3>2
    <3>4. row[j].retry > 0 => row[j].prev \in Allocated'
      BY <1>0, <3>2
    <3>. QED
      BY <3>1, <3>2, <3>3, <3>4
  <2>2. CASE j = n
    <3>1. row[i].run \in Nat /\ row[i].run <= i
      BY <1>0, RunsTyped DEF Chained, RetriesFollow
    <3>. QED
      BY <1>0, <1>2, <1>3, <2>2, <3>1
  <2>. QED
    BY <1>0, <2>1, <2>2
<1>5. \A j \in Allocated : row[j].run = row[i].run => j <= i
  BY <1>0, <1>2 DEF Chained, OlderAreOver
<1>6. OlderAreOver'
  <2>. SUFFICES ASSUME NEW j \in Allocated', NEW k \in Allocated',
                       row'[j].run = row'[k].run, j < k
                PROVE  row'[j].status \in Terminal
    BY DEF OlderAreOver
  <2>1. j \in Allocated
    BY <1>0
  <2>2. CASE k \in Allocated
    BY <1>1, <1>2, <2>1, <2>2 DEF Chained, OlderAreOver, Terminal
  <2>3. CASE k = n
    <3>1. row[j].run = row[i].run
      BY <1>1, <1>3, <2>1, <2>3
    <3>2. j = i \/ j < i
      BY <1>0, <1>5, <2>1, <3>1
    <3>. QED
      BY <1>0, <1>1, <1>2, <2>1, <3>1, <3>2 DEF Chained, OlderAreOver, Terminal
  <2>. QED
    BY <1>0, <2>2, <2>3
<1>7. OneRetryPerAttempt'
  <2>1. \A j \in Allocated : row[j].retry > 0 => row[j].prev # i
    BY <1>2 DEF Chained, RetriesFollow, Terminal
  <2>. QED
    BY <1>0, <1>1, <1>3, <2>1 DEF Chained, OneRetryPerAttempt
<1>8. RunShowsOutcome'
  <2>. SUFFICES ASSUME NEW j \in Allocated',
                       \A k \in Allocated' : row'[k].run = row'[j].run => k <= j,
                       row'[j].status \in Terminal
                PROVE  run'[row'[j].run] = RunOutcome[row'[j].status]
    BY DEF RunShowsOutcome, IsNewestAttempt
  <2>1. j \in Allocated
    BY <1>0, <1>3
  <2>2. row[j].run # row[i].run
    BY <1>0, <1>1, <1>3, <2>1
  <2>3. row[i].run \in Ids /\ row[j].run \in Ids
    BY <1>0, <2>1 DEF IInv, TypeOK, Row
  <2>4. run'[row[j].run] = run[row[j].run]
    BY <2>2, <2>3 DEF Retries, IInv, TypeOK
  <2>5. \A k \in Allocated : row[k].run = row[j].run => k <= j
    BY <1>0, <1>1, <2>1
  <2>6. row'[j].status = row[j].status
    BY <1>1, <2>1, <2>2
  <2>7. row'[j].run = row[j].run
    BY <1>1, <2>1
  <2>. QED
    BY <2>1, <2>4, <2>5, <2>6, <2>7 DEF Chained, RunShowsOutcome, IsNewestAttempt
<1>. QED
  BY <1>4, <1>6, <1>7, <1>8 DEF Chained

\* A new execution starts a run that no attempt is part of.
LEMMA EnqueueChain ==
  ASSUME QueueAssumption, IInv, Chained, NEW s \in Scope, NEW status \in Admissions,
         NEW approval \in BOOLEAN, Enqueue(s, status, approval)
  PROVE  Chained'
<1>. DEFINE n == count + 1
<1>0. /\ count \in Nat /\ Allocated' = Allocated \cup {n} /\ n \in Ids /\ n \notin Allocated
      /\ Allocated \subseteq Ids /\ n \in Nat /\ \A j \in Allocated : j \in Nat /\ j < n
  BY EnqueueWrites DEF Allocated, IInv, TypeOK, QueueAssumption, Ids
<1>1. /\ run' = run /\ \A j \in Allocated : row'[j] = row[j]
      /\ row'[n].status \notin Terminal /\ row'[n].retry = 0 /\ row'[n].run = n
  BY <1>0, EnqueueWrites, StatusesDisjoint DEF Terminal, Pending
<1>2. \A j \in Allocated : row[j].run \in Nat /\ row[j].run < n
  <2>. TAKE j \in Allocated
  <2>1. row[j].run \in Nat /\ row[j].run <= j
    BY <1>0, RunsTyped DEF Chained, RetriesFollow
  <2>2. j \in Nat /\ j < n
    BY <1>0
  <2>. HIDE DEF n
  <2>. QED
    BY <1>0, <2>1, <2>2
<1>. HIDE DEF n
<1>3. RetriesFollow'
  <2>. SUFFICES ASSUME NEW j \in Allocated'
                PROVE  /\ row'[j].run <= j
                       /\ row'[j].retry > 0 => /\ row'[j].prev \in Allocated'
                                               /\ row'[row'[j].prev].status = "failed"
    BY DEF RetriesFollow
  <2>1. CASE j \in Allocated
    BY <1>0, <1>1, <2>1 DEF Chained, RetriesFollow
  <2>2. CASE j = n
    BY <1>0, <1>1, <2>2
  <2>. QED
    BY <1>0, <2>1, <2>2
<1>4. OlderAreOver'
  <2>. SUFFICES ASSUME NEW j \in Allocated', NEW k \in Allocated',
                       row'[j].run = row'[k].run, j < k
                PROVE  row'[j].status \in Terminal
    BY DEF OlderAreOver
  <2>1. j \in Allocated
    BY <1>0
  <2>2. k \in Allocated
    BY <1>0, <1>1, <1>2, <2>1
  <2>. QED
    BY <1>1, <2>1, <2>2 DEF Chained, OlderAreOver
<1>5. OneRetryPerAttempt'
  BY <1>0, <1>1 DEF Chained, OneRetryPerAttempt
<1>6. RunShowsOutcome'
  BY <1>0, <1>1, <1>2 DEF Chained, RunShowsOutcome, IsNewestAttempt
<1>. QED
  BY <1>3, <1>4, <1>5, <1>6 DEF Chained

\* The chains hold in every reachable state.
LEMMA ChainHolds ==
  ASSUME NoBlindOverlap
  PROVE  Spec => []Chained
<1>1. Init => Chained
  BY DEF Init, Chained, RetriesFollow, OlderAreOver, OneRetryPerAttempt, RunShowsOutcome,
         Allocated
<1>2. IInv /\ Chained /\ [Next]_vars => Chained'
  BY QueueAssumption, NextStory, CarriesChain, EndsChain, RetriesChain, EnqueueChain
<1>. QED
  BY <1>1, <1>2, InvariantHolds, PTL DEF Spec

\* A failed attempt has one retry at most, however many reports of the failure
\* arrive, in whatever order and however often, while other handlers overlap.
THEOREM RetriedOnce ==
  ASSUME NoBlindOverlap
  PROVE  Spec => []OneRetryPerAttempt
<1>1. Chained => OneRetryPerAttempt
  BY DEF Chained
<1>. QED
  BY <1>1, ChainHolds, PTL

\* When the newest attempt of an automation run is over, the run shows its
\* outcome: no late end of an older attempt overwrites it.
THEOREM RunFollowsAttempts ==
  ASSUME NoBlindOverlap
  PROVE  Spec => []RunShowsOutcome
<1>1. Chained => RunShowsOutcome
  BY DEF Chained
<1>. QED
  BY <1>1, ChainHolds, PTL

-----------------------------------------------------------------------------
(***************************************************************************)
(* The start fence.  Two handlers may still requeue a started attempt:     *)
(* recovery_scan, which expects only that the row is active, and approve,  *)
(* which expects nothing, when the fence falls between their read and      *)
(* their write.                                                            *)
(***************************************************************************)
\* A snapshot is the message its fields say.
LEMMA SnapshotMessage ==
  ASSUME NEW c \in Call, c.op = "snapshot"
  PROVE  c = [op |-> "snapshot", id |-> c.id, arg |-> c.arg, seq |-> 0]
  BY DEF Call

\* A step that writes one other row, or the status of no row, requeues nothing.
LEMMA SetsElsewhere ==
  ASSUME QueueAssumption, IInv, NEW i \in Ids, i <= count, NEW j \in Ids, i # j,
         NEW s, NEW f, Sets(j, s, f) \/ Ends(j, s) \/ Retries(j) \/ Stays
  PROVE  row'[i] = row[i]
  BY DEF Sets, Ends, Retries, OneRow, Stays

\* An open handler writes what it decided before the attempt was fenced.
DecidedBeforeFence(i) ==
  \E o \in open \ open' :
    /\ o.call.id = i
    /\ \/ o.call.op = "approve" /\ o.read.status = "pending_approval"
       \/ o.call.op = "recover" /\ o.read.status = "claimed" /\ ~o.read.fenced

\* Whatever overlaps, a started attempt returns to the queue on a task list that
\* shows that it never arrived, or by recovery_scan or approve when the fence
\* fell between their read and their write.
RequeueIsKnown ==
  [][\A i \in Ids : Requeues(i) => FoundMissing(i) \/ DecidedBeforeFence(i)]_vars

\* Nothing, a fence above all, falls between the read and the write of these two
\* handlers.
NoFenceBetween == Overlapping \cap {"approve", "recover"} = {}

\* What a handler that requeues a started attempt has read.
LEMMA RequeueReads ==
  ASSUME QueueAssumption, NEW c \in Call, NEW r, NEW s, NEW i \in Ids, i <= count,
         KeepsTo(c.id, s), Permits(c, r, row[c.id], s), Requeues(i)
  PROVE  /\ c.id = i
         /\ \/ c.op = "approve"
            \/ c.op = "recover" /\ r.status = "claimed" /\ ~r.fenced
            \/ /\ c = MissingList(i) /\ r.status = "claimed" /\ r.timedOut
               /\ row[i].status = "claimed"
<1>0. "queued" \notin Capacity /\ "queued" \notin Terminal /\ StillRunning(r) # "queued"
  BY DEF Capacity, Terminal, StillRunning
<1>1. c.id = i /\ s = "queued"
  BY <1>0 DEF KeepsTo, Requeues
<1>2. c.op = "snapshot" /\ c.arg = "missing" => c = MissingList(i)
  BY <1>1, SnapshotMessage DEF MissingList
<1>. QED
  BY <1>0, <1>1, <1>2 DEF Permits, Requeues

\* Every way back to the queue, for any step.
LEMMA RequeueStep ==
  ASSUME QueueAssumption, IInv, [Next]_vars, NEW i \in Ids, Requeues(i)
  PROVE  FoundMissing(i) \/ DecidedBeforeFence(i)
<1>0. /\ TypeOK /\ i <= count /\ row[i].status # "queued" /\ row[i].status \notin Pending
  BY AllocatedRow, StatusesDisjoint DEF IInv, Requeues, Capacity
<1>1. CASE Stays
  BY <1>0, <1>1 DEF Stays, Requeues
<1>2. ASSUME NEW s \in Scope, NEW status \in Admissions, NEW approval \in BOOLEAN,
             Enqueue(s, status, approval)
      PROVE  FALSE
  <2>1. i # count + 1 /\ row'[i] = row[i]
    BY <1>0, <1>2, EnqueueWrites DEF Ids, QueueAssumption
  <2>. QED
    BY <1>0, <2>1 DEF Requeues
<1>3. ASSUME NEW j \in Ids, OwnWrite(j) PROVE FALSE
  <2>1. CASE j # i
    <3>1. \E s, f : Sets(j, s, f)
      BY <1>0, <1>3, OwnWrites DEF OwnWrite
    <3>. QED
      BY <1>0, <2>1, <3>1, SetsElsewhere DEF Requeues
  <2>2. CASE j = i
    <3>1. ~SelectRuntime(i) /\ ~(\E d \in Device : Claim(i, d))
      BY <1>0 DEF SelectRuntime, Claim, Pending
    <3>2. \E f : Sets(i, row[i].status, f)
      BY <1>0, <1>3, <2>2, <3>1, OwnWrites DEF OwnWrite
    <3>. QED
      BY <1>0, <3>2 DEF Sets, Requeues
  <2>. QED
    BY <2>1, <2>2
<1>4. ASSUME NEW c \in Call, c.op \in ServiceOps, Arrives(c), Serve(c) PROVE FoundMissing(i)
  <2>1. /\ c.id \in Ids /\ c.id <= count /\ row[c.id] \in Row /\ row[c.id].status \in Active
        /\ Applies(c, row[c.id])
    BY <1>4, ServeEffect
  <2>2. PICK s : KeepsTo(c.id, s) /\ Permits(c, row[c.id], row[c.id], s)
    BY <1>4, <2>1, HandleKeeps DEF IInv, Serve, Room
  <2>3. /\ c.id = i
        /\ \/ c.op = "approve"
           \/ c.op = "recover" /\ ~row[i].fenced
           \/ c = MissingList(i) /\ row[i].status = "claimed" /\ row[i].timedOut
    BY <1>0, <2>2, RequeueReads
  <2>4. c = MissingList(i) /\ row[i].status = "claimed" /\ row[i].timedOut
    BY <1>0, <2>1, <2>3 DEF Requeues, Applies, ApprovalApplies, Pending
  <2>5. c.op = "snapshot" /\ c \in net /\ c \notin net'
    BY <1>4, <2>4 DEF MissingList, Arrives, Message, RequestOps, Serve, Taken
  <2>. QED
    BY <2>4, <2>5 DEF FoundMissing
<1>5. ASSUME NEW o \in open, Finish(o) PROVE FoundMissing(i) \/ DecidedBeforeFence(i)
  <2>1. /\ o.call \in Call /\ o.read \in Row /\ o.call.id <= count
        /\ o.call.op \in ServiceOps /\ o.read.version < MaxVersion
        /\ o.call.op = "snapshot" => o.read.retry = row[o.call.id].retry
        /\ o.call.op # "finish" /\ o.read.status \in Active
        /\ o.call.op = "approve" => o.read.status = "pending_approval"
    BY DEF IInv, TypeOK, ReadsFit, Open, QueueAssumption, ServiceOps, CasHandlers,
           BlindHandlers
  <2>2. PICK s : KeepsTo(o.call.id, s) /\ Permits(o.call, o.read, row[o.call.id], s)
    BY <1>5, <2>1, HandleKeeps DEF IInv, Finish
  <2>3. o \in open \ open'
    BY <1>5 DEF Finish
  <2>4. /\ o.call.id = i
        /\ \/ o.call.op = "approve"
           \/ o.call.op = "recover" /\ o.read.status = "claimed" /\ ~o.read.fenced
           \/ o.call = MissingList(i) /\ o.read.status = "claimed" /\ o.read.timedOut
    <3>1. ASSUME NEW c \in Call, NEW r, c = o.call, r = o.read
          PROVE  /\ c.id = i
                 /\ \/ c.op = "approve"
                    \/ c.op = "recover" /\ r.status = "claimed" /\ ~r.fenced
                    \/ c = MissingList(i) /\ r.status = "claimed" /\ r.timedOut
      <4>1. KeepsTo(c.id, s) /\ Permits(c, r, row[c.id], s)
        BY <2>2, <3>1
      <4>. QED
        BY <1>0, <4>1, RequeueReads
    <3>. QED
      BY <2>1, <3>1
  <2>. QED
    BY <2>1, <2>3, <2>4 DEF FoundMissing, DecidedBeforeFence
<1>. QED
  BY <1>1, <1>2, <1>3, <1>4, <1>5, StepKinds

\* Whatever overlaps, a fenced attempt returns to the queue in two ways only: a
\* task list shows that its start, which had timed out, never arrived, or
\* recovery_scan or approve had read its row before the fence.
THEOREM RequeuesAreKnown == Spec => RequeueIsKnown
<1>. DEFINE Known == \A i \in Ids : Requeues(i) => FoundMissing(i) \/ DecidedBeforeFence(i)
<1>1. IInv /\ [Next]_vars => [Known]_vars
  BY QueueAssumption, RequeueStep
<1>. QED
  BY <1>1, InvariantHolds, PTL DEF Spec, RequeueIsKnown

\* Past the start fence an attempt returns to the queue only on a task list
\* that shows that its start, which had timed out, never arrived: provided
\* that no step, a fence above all, falls between the read and the write of
\* recovery_scan or approve.  The code does not exclude it, and it breaks the
\* property; every other handler, the snapshot included, may overlap.
THEOREM FenceHolds ==
  ASSUME NoFenceBetween
  PROVE  Spec => StartedIsNotRequeued
<1>. DEFINE Held == \A i \in Ids : Requeues(i) => FoundMissing(i)
<1>1. IInv /\ [Next]_vars => [Held]_vars
  <2>. SUFFICES ASSUME IInv, [Next]_vars, NEW i \in Ids, Requeues(i)
                PROVE  FoundMissing(i)
    OBVIOUS
  <2>1. ~DecidedBeforeFence(i)
    BY DEF DecidedBeforeFence, NoFenceBetween, IInv, ReadsFit
  <2>. QED
    BY <2>1, QueueAssumption, RequeueStep
<1>. QED
  BY <1>1, InvariantHolds, PTL DEF Spec, StartedIsNotRequeued

-----------------------------------------------------------------------------
(***************************************************************************)
(* Ends.  An end of a task is never taken back, so a message that tells of *)
(* one stays true however late it is, on either channel.                   *)
(***************************************************************************)
HasEnd(i) == task[i].last \in Terminal

\* A message that tells of an end.
Tells(m) == m.op = "finish" \/ (m.op = "snapshot" /\ m.arg \in Terminal)

\* The attempt that a retry follows came to an end.
RetryHasAnEnd ==
  \A i \in Allocated :
    row[i].retry > 0 => row[i].prev \in Ids /\ HasEnd(row[i].prev)

EndsStand ==
  \A j \in Allocated :
    /\ row[j].status = "completed" => HasEnd(j)
    /\ row[j].retry > 0 => row[j].prev \in Ids /\ HasEnd(row[j].prev)

Ending == (\A m \in net : Tells(m) => HasEnd(m.id)) /\ EndsStand

\* A call changes no end, completes a row or retries it on a message that tells
\* of an end.
LEMMA EffectEnds ==
  ASSUME QueueAssumption, NEW c \in Call, c.op \in ServiceOps, NEW r, Effect(c, r)
  PROVE  \/ Stays
         \/ \E s, f : Sets(c.id, s, f) /\ (s = row[c.id].status \/ s # "completed")
         \/ \E s : Ends(c.id, s) /\ (s # "completed" \/ Tells(c))
         \/ Retries(c.id) /\ Tells(c)
<1>. DEFINE Goal == \/ Stays
                    \/ \E s, f : Sets(c.id, s, f) /\ (s = row[c.id].status \/ s # "completed")
                    \/ \E s : Ends(c.id, s) /\ (s # "completed" \/ Tells(c))
                    \/ Retries(c.id) /\ Tells(c)
<1>a. ASSUME NEW s, NEW f, Sets(c.id, s, f), s = row[c.id].status \/ s # "completed"
      PROVE  Goal
  BY <1>a
<1>b. ASSUME NEW s, Ends(c.id, s), s # "completed" \/ Tells(c) PROVE Goal
  BY <1>b
<1>c. Stays \/ (Retries(c.id) /\ Tells(c)) => Goal
  OBVIOUS
<1>. SUFFICES Goal
  OBVIOUS
<1>. HIDE DEF Goal
<1>0. /\ StillRunning(r) # "completed" /\ StillRunning(row[c.id]) # "completed"
      /\ "failed" \in Terminal
  BY DEF StillRunning, Terminal
<1>1. CASE c.op \in {"cancel", "preflight", "ack_rejected", "reject"}
  BY <1>0, <1>1, <1>a, <1>b, <1>c DEF Effect
<1>2. CASE c.op \in {"unknown", "recover", "ack_ok", "observe", "approve"}
  BY <1>0, <1>2, <1>a, <1>b, <1>c DEF Effect
<1>3. CASE c.op = "finish"
  BY <1>0, <1>3, <1>a, <1>b, <1>c DEF Effect, Tells
<1>4. CASE c.op = "snapshot"
  BY <1>0, <1>4, <1>a, <1>b, <1>c DEF Effect, Tells
<1>. QED
  BY <1>1, <1>2, <1>3, <1>4 DEF ServiceOps, CasHandlers, BlindHandlers

\* So the outcomes that a write of row i leaves have an end behind them.
LEMMA WriteEnding ==
  ASSUME QueueAssumption, IInv, EndsStand, NEW i \in Ids, i <= count, task' = task,
         \/ Stays
         \/ \E s, f : Sets(i, s, f) /\ (s = row[i].status \/ s # "completed")
         \/ \E s : Ends(i, s) /\ (s # "completed" \/ HasEnd(i))
         \/ Retries(i) /\ HasEnd(i)
  PROVE  EndsStand'
<1>. DEFINE Good(j) ==
       /\ row'[j].status = "completed" => task[j].last \in Terminal
       /\ row'[j].retry > 0 => row'[j].prev \in Ids /\ task[row'[j].prev].last \in Terminal
<1>0. count \in Nat /\ Allocated \subseteq Ids /\ \A j \in Allocated : j <= count
  BY DEF IInv, TypeOK, Allocated, Ids, QueueAssumption
<1>1. ASSUME NEW j \in Allocated, row'[j].prev = row[j].prev, row'[j].retry = row[j].retry,
             row'[j].status \in {row[j].status} \/ row'[j].status # "completed" \/ HasEnd(j)
      PROVE  Good(j)
  BY <1>0, <1>1 DEF EndsStand, HasEnd
<1>2. CASE Stays
  BY <1>2 DEF Stays, EndsStand, HasEnd, Allocated
<1>3. ASSUME OneRow(i), row'[i].status \in {row[i].status} \/ row'[i].status # "completed"
                          \/ HasEnd(i)
      PROVE  \A j \in Allocated : Good(j)
  <2>. SUFFICES ASSUME NEW j \in Allocated PROVE Good(j)
    OBVIOUS
  <2>1. CASE j # i
    BY <1>0, <1>1, <1>3, <2>1 DEF OneRow
  <2>2. CASE j = i
    BY <1>0, <1>1, <1>3, <2>2 DEF OneRow
  <2>. QED
    BY <2>1, <2>2
<1>4. ASSUME NEW s, NEW f, Sets(i, s, f), s = row[i].status \/ s # "completed"
      PROVE  EndsStand'
  BY <1>3, <1>4 DEF Sets, EndsStand, HasEnd, Allocated
<1>5. ASSUME NEW s, Ends(i, s), s # "completed" \/ HasEnd(i) PROVE EndsStand'
  BY <1>3, <1>5 DEF Ends, EndsStand, HasEnd, Allocated
<1>6. CASE Retries(i) /\ HasEnd(i)
  <2>1. \A j \in Allocated : Good(j)
    BY <1>3, <1>6 DEF Retries
  <2>2. Good(count + 1)
    BY <1>6 DEF Retries, HasEnd
  <2>3. Allocated' = Allocated \cup {count + 1}
    BY <1>0, <1>6 DEF Retries, Allocated
  <2>. QED
    BY <2>1, <2>2, <2>3 DEF EndsStand, HasEnd
<1>. QED
  BY <1>2, <1>4, <1>5, <1>6

\* A new execution has no outcome.
LEMMA EnqueueEnding ==
  ASSUME QueueAssumption, IInv, EndsStand, NEW s \in Scope, NEW status \in Admissions,
         NEW approval \in BOOLEAN, Enqueue(s, status, approval)
  PROVE  EndsStand'
<1>1. task' = task /\ Allocated' = Allocated \cup {count + 1}
  <2>1. count \in Nat /\ count' = count + 1
    BY EnqueueWrites
  <2>2. task' = task
    BY DEF Enqueue
  <2>. QED
    BY <2>1, <2>2 DEF Allocated
<1>2. \A j \in Allocated : row'[j] = row[j]
  BY EnqueueWrites DEF IInv, TypeOK, Allocated, Ids, QueueAssumption
<1>3. row'[count + 1].status # "completed" /\ row'[count + 1].retry = 0
  BY EnqueueWrites DEF Pending
<1>. QED
  BY <1>1, <1>2, <1>3 DEF EndsStand, HasEnd

\* The backend's own writes end nothing.
LEMMA OwnWriteEnding ==
  ASSUME QueueAssumption, IInv, EndsStand, NEW i \in Ids, OwnWrite(i)
  PROVE  EndsStand'
<1>1. task' = task /\ i <= count
  <2>1. row[i].status # "none"
    BY DEF OwnWrite, SelectRuntime, Claim, RequestStart, Redeliver, Heartbeat, LeaseExpires,
           Capacity
  <2>. QED
    BY <2>1, AllocatedRow DEF IInv, OwnWrite, SelectRuntime, Claim, RequestStart, Redeliver,
                              Heartbeat, LeaseExpires
<1>2. \E s, f : Sets(i, s, f) /\ (s = row[i].status \/ s # "completed")
  <2>0. TypeOK
    BY DEF IInv
  <2>1. CASE SelectRuntime(i)
    <3>1. PICK s \in {"pending_approval", "queued"} : Sets(i, s, row[i].fenced)
      BY <2>0, <2>1, OwnWrites
    <3>2. s # "completed"
      OBVIOUS
    <3>. QED
      BY <3>1, <3>2, Zenon
  <2>2. CASE \E d \in Device : Claim(i, d)
    <3>1. Sets(i, "claimed", row[i].fenced)
      BY <2>0, <2>2, OwnWrites
    <3>. QED
      BY <3>1
  <2>3. CASE RequestStart(i)
    <3>1. Sets(i, "claimed", TRUE)
      BY <2>0, <2>3, OwnWrites
    <3>2. "claimed" # "completed"
      OBVIOUS
    <3>. QED
      BY <3>1, <3>2, Zenon
  <2>4. CASE Redeliver(i) \/ Heartbeat(i) \/ LeaseExpires(i)
    <3>1. Sets(i, row[i].status, row[i].fenced)
      BY <2>0, <2>4, OwnWrites
    <3>. QED
      BY <3>1
  <2>. QED
    BY <2>1, <2>2, <2>3, <2>4 DEF OwnWrite
<1>. QED
  BY <1>1, <1>2, WriteEnding

\* An end of a task stays, and only an end is told of.
LEMMA EndsStay ==
  ASSUME QueueAssumption, IInv, [Next]_vars
  PROVE  /\ \A i \in Ids : HasEnd(i) => HasEnd(i)'
         /\ \A m \in net' \ net : Tells(m) => m.id \in Ids /\ HasEnd(m.id)'
<1>. DEFINE Goal == /\ \A i \in Ids : HasEnd(i) => HasEnd(i)'
                    /\ \A m \in net' \ net : Tells(m) => m.id \in Ids /\ HasEnd(m.id)'
<1>0. /\ task \in [Ids -> Task] /\ net \subseteq Call /\ "failed" \in Terminal
      /\ {"completed", "cancelled"} \subseteq Terminal
      /\ \A m \in net : m.id \in Ids
  BY CallTyped DEF IInv, TypeOK, Terminal
<1>a. ASSUME task' = task, NEW i,
             net' \subseteq net \cup {Message(op, i) : op \in {"offer", "create", "stop"}}
      PROVE  Goal
  BY <1>a DEF HasEnd, Tells, Message
<1>1. CASE UNCHANGED vars
  BY <1>1, <1>a DEF vars
<1>2. ASSUME NEW c, Serve(c) \/ Begin(c) PROVE Goal
  <2>1. CASE Serve(c)
    BY <2>1, <1>a DEF Serve, Taken
  <2>2. CASE Begin(c)
    BY <2>2, <1>a DEF Begin, Taken
  <2>. QED
    BY <1>2, <2>1, <2>2
<1>3. ASSUME NEW i \in Ids, OwnWrite(i) \/ SendStop(i) PROVE Goal
  <2>1. task' = task
    BY <1>3 DEF OwnWrite, SelectRuntime, Claim, RequestStart, Redeliver, Heartbeat,
                LeaseExpires, SendStop
  <2>2. net' \subseteq net \cup {Message(op, i) : op \in {"offer", "create", "stop"}}
    BY <1>3 DEF OwnWrite, SelectRuntime, Claim, RequestStart, Redeliver, Heartbeat,
                LeaseExpires, SendStop
  <2>. QED
    BY <2>1, <2>2, <1>a
<1>4. CASE BackendStep
  <2>1. ASSUME NEW s \in Scope, NEW status \in Admissions, NEW approval \in BOOLEAN,
               Enqueue(s, status, approval)
        PROVE  Goal
    BY <2>1, <1>a DEF Enqueue
  <2>2. ASSUME NEW m \in net, Discard(m) PROVE Goal
    BY <2>2, <1>a DEF Discard
  <2>3. ASSUME NEW o \in open, Finish(o) PROVE Goal
    BY <2>3, <1>a DEF Finish
  <2>. QED
    BY <1>2, <1>3, <1>4, <2>1, <2>2, <2>3 DEF BackendStep, OwnWrite, Ask, Perform
<1>5. ASSUME NEW i \in Ids, NEW outcome \in Terminal, EndTurn(i, outcome) PROVE Goal
  <2>1. /\ task' = [task EXCEPT ![i].live = FALSE, ![i].last = outcome, ![i].seq = @ + 1]
        /\ net' = net \cup {[op |-> "finish", id |-> i, arg |-> outcome,
                             seq |-> task[i].seq + 1]}
    BY <1>5 DEF EndTurn
  <2>2. /\ task'[i].last = outcome
        /\ \A j \in Ids : j # i => task'[j] = task[j]
    BY <1>0, <2>1 DEF Task
  <2>3. \A j \in Ids : HasEnd(j) => HasEnd(j)'
    BY <1>5, <2>2 DEF HasEnd
  <2>4. \A m \in net' \ net : m.id = i
    BY <2>1
  <2>. QED
    BY <1>5, <2>2, <2>3, <2>4 DEF HasEnd
<1>6. ASSUME NEW i \in Ids, TakeSnapshot(i) PROVE Goal
  <2>1. /\ task' = task
        /\ net' = net \cup {[op |-> "snapshot", id |-> i, arg |-> Report(task[i]), seq |-> 0]}
    BY <1>6 DEF TakeSnapshot
  <2>2. Report(task[i]) \in Terminal => HasEnd(i)
    BY <1>0 DEF Report, Task, Terminal, HasEnd
  <2>3. \A m \in net' \ net : m.id = i /\ m.op = "snapshot" /\ m.arg = Report(task[i])
    BY <2>1
  <2>. QED
    BY <2>1, <2>2, <2>3 DEF Tells, HasEnd
<1>7. ASSUME NEW m \in net, Create(m) \/ RefuseCreate(m) PROVE Goal
  <2>1. m.id \in Ids
    BY <1>0
  <2>2. net' \subseteq net \cup {Message(op, m.id) : op \in {"ack_ok", "ack_rejected"}}
    BY <1>7 DEF Create, RefuseCreate
  <2>3. \A j \in Ids : HasEnd(j) => HasEnd(j)'
    BY <1>0, <1>7, <2>1 DEF Create, RefuseCreate, HasEnd, Task
  <2>. QED
    BY <2>2, <2>3 DEF Tells, Message
<1>8. ASSUME NEW i \in Ids, StartTurn(i) PROVE Goal
  <2>1. \A m \in net' \ net : m.op = "observe"
    BY <1>8 DEF StartTurn
  <2>2. \A j \in Ids : HasEnd(j) => HasEnd(j)'
    BY <1>0, <1>8 DEF StartTurn, HasEnd, Task
  <2>. QED
    BY <2>1, <2>2 DEF Tells
<1>9. ASSUME NEW i \in Ids, StopQueued(i) PROVE Goal
  BY <1>0, <1>9 DEF StopQueued, HasEnd, Task
<1>10. CASE RuntimeStep
  <2>1. ASSUME NEW m \in net, Lose(m) PROVE Goal
    BY <2>1, <1>a DEF Lose
  <2>. QED
    BY <1>0, <1>5, <1>6, <1>7, <1>8, <1>9, <1>10, <2>1 DEF RuntimeStep, StopLive
<1>. QED
  BY <1>1, <1>4, <1>10 DEF Next

\* Every step keeps the ends behind the outcomes.
LEMMA EndingStep ==
  ASSUME QueueAssumption, NoBlindOverlap, IInv, Ending, [Next]_vars
  PROVE  Ending'
<1>1. \A m \in net' : Tells(m) => HasEnd(m.id)'
  <2>1. \A m \in net : m.id \in Ids
    BY CallTyped DEF IInv, TypeOK
  <2>. QED
    BY <2>1, EndsStay DEF Ending, Tells
<1>2. EndsStand'
  <2>1. CASE Stays
    <3>1. Allocated' = Allocated /\ Allocated \subseteq Ids /\ row' = row
      BY <2>1 DEF Stays, Allocated, IInv, TypeOK, Ids, QueueAssumption
    <3>. QED
      BY <3>1, EndsStay DEF Ending, EndsStand, HasEnd
  <2>2. ASSUME NEW c \in Call, c.op \in ServiceOps, Arrives(c), Serve(c)
        PROVE  EndsStand'
    <3>1. /\ c.id \in Ids /\ c.id <= count /\ Effect(c, row[c.id]) /\ task' = task
      BY <2>2, ServeEffect DEF Serve
    <3>2. Tells(c) => HasEnd(c.id)
      BY <2>2 DEF Arrives, Tells, Message, RequestOps, Ending
    <3>. QED
      BY <2>2, <3>1, <3>2, EffectEnds, WriteEnding DEF Ending
  <2>3. ASSUME NEW o \in open, Finish(o) PROVE EndsStand'
    <3>1. /\ o.call \in Call /\ o.call.op \in ServiceOps /\ o.call.id \in Ids
          /\ o.call.id <= count /\ Effect(o.call, o.read) /\ task' = task
      BY <2>3, FinishEffect DEF Finish
    <3>2. ~Tells(o.call)
      BY <2>3, FinishEffect DEF Tells, NoBlindOverlap
    <3>. QED
      BY <3>1, <3>2, EffectEnds, WriteEnding DEF Ending
  <2>. QED
    BY <2>1, <2>2, <2>3, StepKinds, EnqueueEnding, OwnWriteEnding DEF Ending
<1>. QED
  BY <1>1, <1>2 DEF Ending

\* A completed attempt, and the one that a retry follows, has a Runtime task
\* that came to an end, on both channels and with Prompt as without it: however
\* late, lost or old a create, an answer or a list is, none of them stands for
\* an end.  The one proviso is that approve, reject and snapshot, which write
\* without a compare-and-swap, do not overlap another writer.
THEOREM OutcomesHaveAnEnd ==
  ASSUME NoBlindOverlap
  PROVE  Spec => [](OutcomeHasAnEnd /\ RetryHasAnEnd)
<1>1. Init => Ending
  BY DEF Init, Ending, EndsStand, Allocated
<1>2. IInv /\ Ending /\ [Next]_vars => Ending'
  BY QueueAssumption, EndingStep
<1>3. Ending => OutcomeHasAnEnd /\ RetryHasAnEnd
  BY DEF Ending, EndsStand, OutcomeHasAnEnd, RetryHasAnEnd, HasEnd
<1>. QED
  BY <1>1, <1>2, <1>3, InvariantHolds, PTL DEF Spec

-----------------------------------------------------------------------------
(***************************************************************************)
(* Compare-and-swap.  When only handlers that compare status and version   *)
(* overlap others, a row that still has the version they read is, while it *)
(* holds capacity, the row they read.                                      *)
(***************************************************************************)
OnlyCasOverlaps == Overlapping \subseteq CasHandlers

ReadsCurrent ==
  \A o \in open :
    /\ o.call.op = "observe" => o.read.status \in Capacity
    /\ o.call.op = "preflight" => o.read.status = "claimed" /\ ~o.read.fenced
    /\ o.read.version <= row[o.call.id].version
    /\ o.read.version = row[o.call.id].version /\ o.read.status \in Capacity =>
         /\ row[o.call.id].status = o.read.status
         /\ row[o.call.id].fenced = o.read.fenced

\* A step that changes the status or the fence of a row that somebody watches
\* advances its version; only an approval does not.
VersionMoves(i) ==
  \/ row'[i].version = Advanced(i, row[i].version)
  \/ /\ row'[i].version = row[i].version
     /\ \/ row'[i].status = row[i].status /\ row'[i].fenced = row[i].fenced
        \/ row[i].status = "pending_approval"

\* Only Begin opens a handler.
LEMMA OpenMoves ==
  ASSUME [Next]_vars
  PROVE  open' \subseteq open \/ (\E c : Begin(c))
<1>1. ASSUME NEW c, Serve(c) PROVE open' = open
  BY <1>1 DEF Serve
<1>2. ASSUME NEW c, Perform(c) PROVE open' = open \/ Begin(c)
  BY <1>1, <1>2 DEF Perform
<1>3. CASE BackendStep
  BY <1>2, <1>3 DEF BackendStep, Enqueue, SelectRuntime, Claim, Redeliver, RequestStart,
     Heartbeat, LeaseExpires, SendStop, Ask, Discard, Finish
<1>4. CASE RuntimeStep
  BY <1>4 DEF RuntimeStep, Create, RefuseCreate, StartTurn, EndTurn, StopQueued, StopLive,
     TakeSnapshot, Lose
<1>5. CASE UNCHANGED vars
  BY <1>5 DEF vars
<1>. QED
  BY <1>3, <1>4, <1>5 DEF Next

\* Versions move that way.
LEMMA NextVersions ==
  ASSUME QueueAssumption, OnlyCasOverlaps, IInv, [Next]_vars, NEW i \in Ids, i <= count
  PROVE  VersionMoves(i)
<1>0. TypeOK /\ NoBlindOverlap
  BY DEF IInv, NoBlindOverlap, OnlyCasOverlaps, CasHandlers
<1>a. row'[i] = row[i] => VersionMoves(i)
  BY DEF VersionMoves
<1>1. CASE Stays
  BY <1>1, <1>a DEF Stays
<1>2. ASSUME NEW s \in Scope, NEW status \in Admissions, NEW approval \in BOOLEAN,
             Enqueue(s, status, approval)
      PROVE  VersionMoves(i)
  <2>1. i # count + 1 /\ row'[i] = row[i]
    BY <1>2, EnqueueWrites DEF Ids, QueueAssumption
  <2>. QED
    BY <1>a, <2>1
<1>3. ASSUME NEW j \in Ids, OwnWrite(j) PROVE VersionMoves(i)
  <2>1. /\ \E s, f : Sets(j, s, f)
        /\ \/ row'[j].version = Advanced(j, row[j].version)
           \/ /\ row'[j].version = row[j].version
              /\ row'[j].status = row[j].status /\ row'[j].fenced = row[j].fenced
    <3>1. CASE SelectRuntime(j) \/ RequestStart(j) \/ (\E d \in Device : Claim(j, d))
      BY <1>0, <3>1, OwnWrites
    <3>2. CASE Redeliver(j) \/ Heartbeat(j) \/ LeaseExpires(j)
      <4>1. Sets(j, row[j].status, row[j].fenced) /\ row'[j].version = row[j].version
        BY <1>0, <3>2, OwnWrites
      <4>. QED
        BY <4>1 DEF Sets
    <3>. QED
      BY <1>3, <3>1, <3>2 DEF OwnWrite
  <2>2. CASE j = i
    BY <2>1, <2>2 DEF VersionMoves
  <2>3. CASE j # i
    BY <1>a, <2>1, <2>3, SetsElsewhere
  <2>. QED
    BY <2>2, <2>3
<1>4. ASSUME NEW c \in Call, c.op \in ServiceOps, c.id \in Ids, NEW r, Effect(c, r),
             Versions(c, r), c.op = "ack_ok" => r = row[c.id],
             c.op \in {"approve", "reject"} => row[c.id].status = "pending_approval"
      PROVE  VersionMoves(i)
  <2>1. CASE c.id = i
    BY <1>4, <1>a, <2>1 DEF Versions, VersionMoves, Stays
  <2>2. CASE c.id # i
    <3>1. \/ Stays \/ (\E s, f : Sets(c.id, s, f)) \/ (\E s : Ends(c.id, s)) \/ Retries(c.id)
      BY <1>4 DEF Effect
    <3>2. row'[i] = row[i]
      BY <1>4, <2>2, <3>1, SetsElsewhere
    <3>. QED
      BY <1>a, <3>2
  <2>. QED
    BY <2>1, <2>2
<1>5. ASSUME NEW c \in Call, c.op \in ServiceOps, Serve(c) PROVE VersionMoves(i)
  <2>1. /\ c.id \in Ids /\ Applies(c, row[c.id]) /\ Effect(c, row[c.id])
        /\ Versions(c, row[c.id])
    BY <1>5, ServeEffect
  <2>2. c.op \in {"approve", "reject"} => row[c.id].status = "pending_approval"
    BY <2>1 DEF Applies, ApprovalApplies
  <2>. QED
    BY <1>4, <1>5, <2>1, <2>2
<1>6. ASSUME NEW o \in open, Finish(o) PROVE VersionMoves(i)
  <2>1. /\ o.call \in Call /\ o.call.op \in Overlapping \cap ServiceOps /\ o.call.id \in Ids
        /\ Effect(o.call, o.read) /\ Versions(o.call, o.read)
    BY <1>0, <1>6, FinishEffect
  <2>2. o.call.op \notin {"approve", "reject", "ack_ok"}
    BY <2>1 DEF OnlyCasOverlaps, CasHandlers
  <2>. QED
    BY <1>4, <2>1, <2>2
<1>. QED
  BY <1>1, <1>2, <1>3, <1>5, <1>6, StepKinds

\* What a handler that compares has kept of its read.
LEMMA BeginReads ==
  ASSUME QueueAssumption, OnlyCasOverlaps, NEW c, Begin(c)
  PROVE  /\ UNCHANGED <<count, row>>
         /\ \A o \in open' \ open :
              /\ o.call = c /\ o.read.status = row[c.id].status
              /\ o.read.fenced = row[c.id].fenced /\ o.read.version = row[c.id].version
              /\ c.op = "observe" => row[c.id].status \in Capacity
              /\ c.op = "preflight" => row[c.id].status = "claimed" /\ ~row[c.id].fenced
<1>1. c.op \in CasHandlers /\ open' = open \cup {[call |-> c, read |-> Kept(c, row[c.id])]}
      /\ UNCHANGED <<count, row>> /\ Applies(c, row[c.id])
  BY DEF Begin, OnlyCasOverlaps
<1>2. /\ Kept(c, row[c.id]).status = row[c.id].status
      /\ Kept(c, row[c.id]).fenced = row[c.id].fenced
      /\ Kept(c, row[c.id]).version = row[c.id].version
  BY <1>1 DEF Kept, NoRow, NewRow
<1>3. /\ c.op = "observe" => row[c.id].status \in Capacity
      /\ c.op = "preflight" => row[c.id].status = "claimed" /\ ~row[c.id].fenced
  BY <1>1 DEF Applies, ObserveApplies, PreflightApplies
<1>. QED
  BY <1>1, <1>2, <1>3

\* Reads stay current.
LEMMA NextReads ==
  ASSUME QueueAssumption, OnlyCasOverlaps, IInv, ReadsCurrent, [Next]_vars
  PROVE  ReadsCurrent'
<1>. DEFINE Current(o, q) == /\ o.read.version <= q.version
                             /\ o.read.version = q.version /\ o.read.status \in Capacity =>
                                  q.status = o.read.status /\ q.fenced = o.read.fenced
<1>1. ASSUME NEW o \in open PROVE Current(o, row'[o.call.id])
  <2>1. o.call.id \in Ids /\ o.call.id <= count /\ Watched(o.call.id)
    BY CallTyped DEF IInv, TypeOK, ReadsFit, Open, Watched
  <2>2. Current(o, row[o.call.id])
    BY DEF ReadsCurrent
  <2>3. o.read.version \in Nat /\ row[o.call.id].version \in Nat
    BY <2>1 DEF IInv, TypeOK, Open, Row, QueueAssumption
  <2>4. VersionMoves(o.call.id)
    BY <2>1, NextVersions
  <2>5. CASE row'[o.call.id].version = row[o.call.id].version + 1
    BY <2>2, <2>3, <2>5
  <2>6. CASE /\ row'[o.call.id].version = row[o.call.id].version
             /\ row'[o.call.id].status = row[o.call.id].status
             /\ row'[o.call.id].fenced = row[o.call.id].fenced
    BY <2>2, <2>6
  <2>7. CASE /\ row'[o.call.id].version = row[o.call.id].version
             /\ row[o.call.id].status = "pending_approval"
    BY <2>2, <2>7 DEF Capacity
  <2>. QED
    BY <2>1, <2>4, <2>5, <2>6, <2>7 DEF VersionMoves, Advanced
<1>2. CASE open' \subseteq open
  BY <1>1, <1>2 DEF ReadsCurrent
<1>3. ASSUME NEW c, Begin(c) PROVE ReadsCurrent'
  <2>. SUFFICES ASSUME NEW o \in open'
                PROVE  /\ o.call.op = "observe" => o.read.status \in Capacity
                       /\ o.call.op = "preflight" => o.read.status = "claimed" /\ ~o.read.fenced
                       /\ Current(o, row'[o.call.id])
    BY DEF ReadsCurrent
  <2>1. CASE o \in open
    BY <1>1, <2>1 DEF ReadsCurrent
  <2>2. CASE o \notin open
    <3>0. c \in Call /\ row' = row
      <4>1. o \in Open
        BY <1>3, NextIInv DEF IInv, TypeOK
      <4>2. o.call = c
        BY <1>3, <2>2, BeginReads
      <4>. QED
        BY <1>3, <4>1, <4>2, BeginReads DEF Open
    <3>1. row[c.id].version \in Nat
      BY <3>0, CallTyped DEF IInv, TypeOK, Row, QueueAssumption
    <3>. QED
      BY <1>3, <2>2, <3>0, <3>1, BeginReads
  <2>. QED
    BY <2>1, <2>2
<1>. QED
  BY <1>2, <1>3, OpenMoves

\* The reads are current in every reachable state.
LEMMA ReadsHold ==
  ASSUME OnlyCasOverlaps
  PROVE  Spec => []ReadsCurrent
<1>1. Init => ReadsCurrent
  BY DEF Init, ReadsCurrent
<1>2. IInv /\ ReadsCurrent /\ [Next]_vars => ReadsCurrent'
  BY QueueAssumption, NextReads
<1>. QED
  BY <1>1, <1>2, InvariantHolds, PTL DEF Spec

\* Once requested, a cancellation stays requested until the attempt is over,
\* also when requests, events and timeouts overlap each other.
THEOREM CancellationSticks ==
  ASSUME OnlyCasOverlaps
  PROVE  Spec => CancelSticks
<1>. DEFINE Allowed == \A i \in Ids : row[i].status = "cancel_requested" =>
                         row'[i].status \in {"cancel_requested"} \cup Terminal
<1>1. IInv /\ ReadsCurrent /\ [Next]_vars => [Allowed]_vars
  <2>. SUFFICES ASSUME IInv, ReadsCurrent, [Next]_vars, NEW i \in Ids,
                       row[i].status = "cancel_requested"
                PROVE  row'[i].status \in {"cancel_requested"} \cup Terminal
    OBVIOUS
  <2>0. TypeOK /\ NoBlindOverlap /\ i <= count
    BY QueueAssumption, AllocatedRow DEF IInv, NoBlindOverlap, OnlyCasOverlaps, CasHandlers
  <2>1. CASE Stays
    BY <2>1 DEF Stays
  <2>2. ASSUME NEW s \in Scope, NEW status \in Admissions, NEW approval \in BOOLEAN,
               Enqueue(s, status, approval)
        PROVE  row'[i] = row[i]
    BY <2>0, <2>2, QueueAssumption, EnqueueWrites DEF Ids, QueueAssumption
  <2>3. ASSUME NEW j \in Ids, OwnWrite(j) PROVE row'[i].status = row[i].status
    <3>1. CASE j # i
      <4>1. \E s, f : Sets(j, s, f)
        BY <2>0, <2>3, QueueAssumption, OwnWrites DEF OwnWrite
      <4>2. row'[i] = row[i]
        BY <2>0, <3>1, <4>1, QueueAssumption, SetsElsewhere
      <4>. QED
        BY <4>2
    <3>2. CASE j = i
      <4>1. ~SelectRuntime(i) /\ ~(\E d \in Device : Claim(i, d)) /\ ~RequestStart(i)
        BY DEF SelectRuntime, Claim, RequestStart
      <4>2. Sets(i, row[i].status, row[i].fenced)
        BY <2>0, <2>3, <3>2, <4>1, QueueAssumption, OwnWrites DEF OwnWrite
      <4>. QED
        BY <4>2 DEF Sets
    <3>. QED
      BY <3>1, <3>2
  <2>4. ASSUME NEW c \in Call, c.op \in ServiceOps, c.id \in Ids, NEW r, Effect(c, r),
               c.op = "approve" => row[c.id].status = "pending_approval",
               c.op = "recover" => r = row[c.id],
               c.op = "observe" /\ row[c.id].version = r.version =>
                 r.status = row[c.id].status
        PROVE  row'[i].status \in {"cancel_requested"} \cup Terminal
    <3>1. CASE c.id # i
      <4>1. Stays \/ (\E s, f : Sets(c.id, s, f)) \/ (\E s : Ends(c.id, s)) \/ Retries(c.id)
        BY <2>4 DEF Effect
      <4>2. row'[i] = row[i]
        BY <2>0, <2>4, <3>1, <4>1, QueueAssumption, SetsElsewhere
      <4>. QED
        BY <4>2
    <3>2. CASE c.id = i
      <4>0. /\ c.op = "finish" => c.arg \in Terminal
            /\ {"cancelled", "failed"} \subseteq Terminal
            /\ \A s : s.status = "cancel_requested" => StillRunning(s) = "cancel_requested"
        BY QueueAssumption, CallTyped DEF Terminal, StillRunning
      <4>1. CASE c.op \in {"cancel", "preflight", "ack_rejected", "reject", "approve"}
        BY <2>4, <3>2, <4>0, <4>1 DEF Effect, Stays, Sets, Ends
      <4>2. CASE c.op \in {"unknown", "recover", "ack_ok", "observe"}
        BY <2>4, <3>2, <4>0, <4>2 DEF Effect, Stays, Sets
      <4>3. CASE c.op = "finish"
        BY <2>4, <3>2, <4>0, <4>3 DEF Effect, Stays, Ends, Retries
      <4>4. CASE c.op = "snapshot"
        BY <2>4, <3>2, <4>0, <4>4 DEF Effect, Stays, Sets, Ends, Retries
      <4>. QED
        BY <2>4, <4>1, <4>2, <4>3, <4>4 DEF ServiceOps, CasHandlers, BlindHandlers
    <3>. QED
      BY <3>1, <3>2
  <2>5. ASSUME NEW c \in Call, c.op \in ServiceOps, Serve(c)
        PROVE  row'[i].status \in {"cancel_requested"} \cup Terminal
    <3>1. c.id \in Ids /\ Applies(c, row[c.id]) /\ Effect(c, row[c.id])
      BY <2>5, QueueAssumption, ServeEffect
    <3>2. c.op = "approve" => row[c.id].status = "pending_approval"
      BY <3>1 DEF Applies, ApprovalApplies
    <3>. QED
      BY <2>4, <2>5, <3>1, <3>2
  <2>6. ASSUME NEW o \in open, Finish(o)
        PROVE  row'[i].status \in {"cancel_requested"} \cup Terminal
    <3>1. /\ o.call \in Call /\ o.call.op \in Overlapping \cap ServiceOps /\ o.call.id \in Ids
          /\ Effect(o.call, o.read)
      BY <2>0, <2>6, QueueAssumption, FinishEffect
    <3>2. o.call.op \notin {"approve", "recover"}
      BY <3>1 DEF OnlyCasOverlaps, CasHandlers
    <3>3. o.call.op = "observe" /\ row[o.call.id].version = o.read.version =>
            o.read.status = row[o.call.id].status
      BY DEF ReadsCurrent
    <3>. QED
      BY <2>4, <3>1, <3>2, <3>3
  <2>. QED
    BY <2>1, <2>2, <2>3, <2>5, <2>6, QueueAssumption, StepKinds
<1>. QED
  BY <1>1, InvariantHolds, ReadsHold, PTL DEF Spec, CancelSticks

-----------------------------------------------------------------------------
(***************************************************************************)
(* Evidence.  In the fenced channel, with timeouts that outlast the calls  *)
(* they guard and compare-and-swap writes only overlapping others, a task  *)
(* is created once, for an attempt that holds capacity, and what is said   *)
(* of a task that is over stays true of it.                                *)
(***************************************************************************)
Disciplined == Prompt /\ Channels \subseteq {"fenced"} /\ OnlyCasOverlaps

Idle(i)      == ~task[i].live /\ task[i].waiting = 0
Underway(i)  == InFlight("create", i) \/ ~Idle(i)
Startless(i) == task[i].created = 0 /\ task[i].last = "none"

\* The task of a row, and what the row shows of it.
StartedOnce ==
  \A i \in Ids :
    /\ task[i].created <= 1
    /\ task[i].created > 0 => ~Idle(i) \/ task[i].last # "none"
    /\ InFlight("create", i) => task[i].created = 0
    /\ Underway(i) => row[i].fenced /\ row[i].status \in Capacity
    /\ ~row[i].fenced => Startless(i)
    /\ i > count => ~row[i].fenced

\* What a message in flight says of its task.
Says(m) ==
  /\ m.op # "ack_rejected"
  /\ m.op = "create" => m = Message("create", m.id)
  /\ m.op = "finish" => Idle(m.id) /\ task[m.id].created = 1 /\ task[m.id].last = m.arg
  /\ m.op = "snapshot" =>
       /\ ~InFlight("create", m.id)
       /\ m.arg \in Terminal => Idle(m.id) /\ task[m.id].last = m.arg
       /\ m.arg = "missing" => Idle(m.id) /\ task[m.id].last = "none"

Evidence == (\A m \in net : Says(m)) /\ (\A o \in open : o.call.op # "ack_rejected")

Proven == StartedOnce /\ Evidence /\ OutcomeIsProven

\* What a step of the backend may do to a row, given its task.
RowJustified(i) ==
  /\ row'[i].fenced \/ ~row[i].fenced \/ Startless(i)
  /\ Underway(i) => row'[i].fenced /\ row'[i].status \in Capacity
  /\ row'[i].fenced /\ row'[i].status \in {"completed", "failed"} =>
       task[i].last = row'[i].status

Justified ==
  /\ \A i \in Ids : RowJustified(i)
  /\ \A i \in Ids : i <= count' /\ row'[i].retry > 0 => task[row'[i].prev].last = "failed"
  /\ \A i \in Ids : i > count' => ~row'[i].fenced

\* The grounds a call has when it writes.
Grounds(c, r) ==
  /\ c.op # "ack_rejected"
  /\ c.op \in {"approve", "reject"} => row[c.id].status = "pending_approval"
  /\ c.op = "recover" => r = row[c.id]
  /\ c.op = "ack_ok" => row[c.id].status = "claimed"
  /\ c.op = "preflight" => r.status = "claimed" /\ ~r.fenced
  /\ SameRead(c.id, r) /\ r.status \in Capacity => row[c.id].fenced = r.fenced
  /\ c.op \in {"finish", "snapshot"} => c \in net

\* A row that is left alone is justified as before.
LEMMA SameRowJustified ==
  ASSUME QueueAssumption, IInv, Proven, NEW i \in Ids,
         row'[i].status = row[i].status, row'[i].fenced = row[i].fenced
  PROVE  RowJustified(i)
<1>1. Underway(i) => row[i].fenced /\ row[i].status \in Capacity
  BY DEF Proven, StartedOnce
<1>2. row[i].status # "none" => i \in Allocated
  BY AllocatedRow DEF IInv
<1>3. row[i].fenced /\ row[i].status \in {"completed", "failed"} => task[i].last = row[i].status
  BY <1>2 DEF Proven, OutcomeIsProven
<1>. QED
  BY <1>1, <1>3 DEF RowJustified

\* When one row is written and none is added, only that row needs a ground.
LEMMA OneRowJustified ==
  ASSUME QueueAssumption, IInv, Proven, NEW i \in Ids, i <= count, count' = count, OneRow(i),
         RowJustified(i)
  PROVE  Justified
<1>0. count \in Nat
  BY DEF IInv, TypeOK, QueueAssumption
<1>1. \A j \in Ids : j # i => row'[j] = row[j]
  BY <1>0 DEF OneRow, Ids
<1>2. \A j \in Ids : RowJustified(j)
  BY <1>1, SameRowJustified
<1>3. \A j \in Ids : j <= count => row'[j].retry = row[j].retry /\ row'[j].prev = row[j].prev
  BY <1>1 DEF OneRow
<1>4. \A j \in Ids : j <= count /\ row[j].retry > 0 => task[row[j].prev].last = "failed"
  BY DEF Proven, OutcomeIsProven, Allocated, Ids, QueueAssumption, IInv, TypeOK
<1>5. \A j \in Ids : j > count' => ~row'[j].fenced
  BY <1>0, <1>1 DEF Proven, StartedOnce, Ids
<1>. QED
  BY <1>2, <1>3, <1>4, <1>5 DEF Justified

\* A retry is justified by the failure of the task it follows.
LEMMA RetryJustified ==
  ASSUME QueueAssumption, IInv, Proven, NEW i \in Ids, i <= count, Retries(i),
         task[i].last = "failed", ~Underway(i)
  PROVE  Justified
<1>0. count \in Nat /\ count' = count + 1 /\ count + 1 \in Ids /\ i # count + 1
  BY DEF Retries, IInv, TypeOK, QueueAssumption, Ids
<1>1. \A j \in Ids : j # i /\ j # count + 1 => row'[j] = row[j]
  BY <1>0 DEF Retries, OneRow, Ids
<1>2. RowJustified(i)
  BY DEF Retries, RowJustified
<1>3. RowJustified(count + 1)
  <2>1. ~row[count + 1].fenced
    BY <1>0 DEF Proven, StartedOnce
  <2>2. ~Underway(count + 1)
    BY <1>0, <2>1 DEF Proven, StartedOnce
  <2>. QED
    BY <2>1, <2>2 DEF RowJustified, Retries
<1>4. \A j \in Ids : RowJustified(j)
  BY <1>1, <1>2, <1>3, SameRowJustified
<1>5. \A j \in Ids : j <= count => row'[j].retry = row[j].retry /\ row'[j].prev = row[j].prev
  BY <1>0, <1>1 DEF Retries, OneRow, Ids
<1>6. \A j \in Ids : j <= count /\ row[j].retry > 0 => task[row[j].prev].last = "failed"
  BY DEF Proven, OutcomeIsProven, Allocated, Ids, QueueAssumption, IInv, TypeOK
<1>7. row'[count + 1].prev = i
  BY DEF Retries
<1>8. \A j \in Ids : j <= count' => j <= count \/ j = count + 1
  BY <1>0 DEF Ids
<1>9. \A j \in Ids : j > count' => ~row'[j].fenced
  <2>1. \A j \in Ids : j > count' => j > count /\ j # i /\ j # count + 1
    BY <1>0 DEF Ids
  <2>. QED
    BY <1>1, <2>1 DEF Proven, StartedOnce
<1>. QED
  BY <1>4, <1>5, <1>6, <1>7, <1>8, <1>9 DEF Justified

\* Whatever a handler does on these grounds is justified.
LEMMA EffectJustified ==
  ASSUME QueueAssumption, IInv, Proven, NEW c \in Call, c.op \in ServiceOps, c.id <= count,
         NEW r, Effect(c, r), Grounds(c, r)
  PROVE  Justified
<1>. DEFINE i   == c.id
            now == row[i]
<1>0. i \in Ids
  BY CallTyped
<1>a. CASE Stays
  BY <1>0, <1>a, OneRowJustified, SameRowJustified DEF Stays, OneRow
<1>b. ASSUME NEW s, NEW f, Sets(i, s, f), f \/ ~now.fenced \/ Startless(i),
             Underway(i) => f /\ s \in Capacity,
             f /\ s \in {"completed", "failed"} => task[i].last = s
      PROVE  Justified
  BY <1>0, <1>b, OneRowJustified DEF Sets, RowJustified
<1>c. ASSUME NEW s, Ends(i, s), ~Underway(i),
             now.fenced /\ s \in {"completed", "failed"} => task[i].last = s
      PROVE  Justified
  BY <1>0, <1>c, OneRowJustified DEF Ends, RowJustified
<1>1. Underway(i) => now.fenced /\ now.status \in Capacity
  BY <1>0 DEF Proven, StartedOnce
<1>2. CASE c.op = "cancel"
  <2>1. ASSUME SameRead(i, r), r.status \in Pending \/ (r.status = "claimed" /\ ~r.fenced)
        PROVE  ~Underway(i)
    BY <1>1, <1>2, <2>1 DEF SameRead, Grounds, Pending, Capacity
  <2>2. "cancel_requested" \in Capacity
    BY DEF Capacity
  <2>. QED
    BY <1>1, <1>2, <1>a, <1>b, <1>c, <2>1, <2>2 DEF Effect
<1>3. CASE c.op \in {"approve", "reject"}
  <2>1. ~Underway(i)
    BY <1>1, <1>3 DEF Grounds, Capacity
  <2>. QED
    BY <1>3, <1>a, <1>b, <1>c, <2>1 DEF Effect
<1>4. CASE c.op = "preflight"
  <2>1. SameRead(i, r) => ~now.fenced
    BY <1>4 DEF Grounds, Capacity
  <2>. QED
    BY <1>1, <1>4, <1>a, <1>c, <2>1 DEF Effect
<1>d. ASSUME Sets(i, now.status, now.fenced) PROVE Justified
  BY <1>0, <1>d, OneRowJustified, SameRowJustified DEF Sets
<1>5. CASE c.op \in {"unknown", "recover"}
  BY <1>1, <1>5, <1>a, <1>b, <1>d DEF Effect, Grounds
<1>6. CASE c.op = "ack_ok"
  <2>1. now.status = "claimed"
    BY <1>6 DEF Grounds
  <2>. QED
    BY <1>1, <1>6, <1>a, <1>b, <2>1 DEF Effect
<1>7. StillRunning(r) \in Capacity \ {"completed", "failed"}
      /\ StillRunning(now) \in Capacity \ {"completed", "failed"}
  BY DEF StillRunning, Capacity
<1>8. CASE c.op = "observe"
  BY <1>1, <1>7, <1>8, <1>a, <1>b DEF Effect
<1>9. CASE c.op = "finish"
  <2>1. Idle(i) /\ task[i].created = 1 /\ task[i].last = c.arg
    BY <1>9 DEF Grounds, Proven, Evidence, Says
  <2>2. ~Underway(i)
    BY <1>0, <2>1 DEF Underway, Proven, StartedOnce
  <2>. QED
    BY <1>0, <1>9, <1>a, <1>c, <2>1, <2>2, RetryJustified DEF Effect
<1>10. CASE c.op = "snapshot"
  <2>1. /\ ~InFlight("create", i)
        /\ c.arg \in Terminal => Idle(i) /\ task[i].last = c.arg
        /\ c.arg = "missing" => Idle(i) /\ task[i].last = "none"
    BY <1>10 DEF Grounds, Proven, Evidence, Says
  <2>2. c.arg \in Terminal \/ c.arg = "missing" => ~Underway(i)
    BY <2>1 DEF Underway
  <2>3. c.arg = "missing" => Startless(i)
    <3>1. task[i].created \in Nat
      BY <1>0 DEF IInv, TypeOK, Task, QueueAssumption
    <3>. QED
      BY <1>0, <2>1, <3>1 DEF Startless, Proven, StartedOnce
  <2>4. CASE c.arg = "failed"
    <3>1. "failed" \in Terminal
      BY DEF Terminal
    <3>. QED
      BY <1>0, <1>10, <1>a, <1>c, <1>d, <2>1, <2>2, <2>4, <3>1, RetryJustified DEF Effect
  <2>5. CASE c.arg # "failed"
    BY <1>1, <1>7, <1>10, <1>a, <1>b, <1>c, <1>d, <2>1, <2>2, <2>3, <2>5 DEF Effect
  <2>. QED
    BY <2>4, <2>5
<1>. QED
  BY <1>2, <1>3, <1>4, <1>5, <1>6, <1>8, <1>9, <1>10
     DEF ServiceOps, CasHandlers, BlindHandlers, Grounds

\* A step of the backend that is justified, and sends no create, keeps the
\* tasks' story.
LEMMA JustifiedKeeps ==
  ASSUME QueueAssumption, IInv, IInv', Proven, Chained', Justified, task' = task,
         \A i \in Ids : InFlight("create", i)' => InFlight("create", i)
  PROVE  StartedOnce' /\ OutcomeIsProven'
<1>1. \A i \in Ids : Idle(i)' = Idle(i) /\ Startless(i)' = Startless(i)
  BY DEF Idle, Startless
<1>2. StartedOnce'
  <2>. SUFFICES ASSUME NEW i \in Ids
                PROVE  /\ task'[i].created <= 1
                       /\ task'[i].created > 0 => ~Idle(i)' \/ task'[i].last # "none"
                       /\ InFlight("create", i)' => task'[i].created = 0
                       /\ Underway(i)' => row'[i].fenced /\ row'[i].status \in Capacity
                       /\ ~row'[i].fenced => Startless(i)'
                       /\ i > count' => ~row'[i].fenced
    BY DEF StartedOnce
  <2>1. RowJustified(i) /\ (i > count' => ~row'[i].fenced)
    BY DEF Justified
  <2>2. Underway(i)' => Underway(i)
    BY <1>1 DEF Underway
  <2>3. /\ task[i].created <= 1
        /\ task[i].created > 0 => ~Idle(i) \/ task[i].last # "none"
        /\ InFlight("create", i) => task[i].created = 0
        /\ ~row[i].fenced => Startless(i)
    BY DEF Proven, StartedOnce
  <2>4. task'[i] = task[i]
    OBVIOUS
  <2>. QED
    BY <1>1, <2>1, <2>2, <2>3, <2>4 DEF RowJustified
<1>3. OutcomeIsProven'
  <2>0. Allocated' \subseteq Ids /\ \A i \in Allocated' : i <= count'
    BY DEF IInv, TypeOK, Allocated, Ids, QueueAssumption
  <2>1. \A i \in Allocated' : row'[i].fenced /\ row'[i].status \in {"completed", "failed"}
                               => task'[i].last = row'[i].status
    BY <2>0 DEF Justified, RowJustified
  <2>2. \A i \in Allocated' : row'[i].retry > 0 =>
          row'[row'[i].prev].status = "failed" /\ task'[row'[i].prev].last = "failed"
    BY <2>0 DEF Justified, Chained, RetriesFollow
  <2>. QED
    BY <2>1, <2>2 DEF OutcomeIsProven
<1>. QED
  BY <1>2, <1>3

\* A table that is left alone is justified.
LEMMA StaysJustified ==
  ASSUME QueueAssumption, IInv, Proven, Stays
  PROVE  Justified
<1>1. \A i \in Ids : RowJustified(i)
  BY SameRowJustified DEF Stays
<1>2. \A i \in Ids : i <= count /\ row[i].retry > 0 => task[row[i].prev].last = "failed"
  BY DEF Proven, OutcomeIsProven, Allocated, Ids, QueueAssumption, IInv, TypeOK
<1>3. \A i \in Ids : i > count => ~row[i].fenced
  BY DEF Proven, StartedOnce
<1>. QED
  BY <1>1, <1>2, <1>3 DEF Justified, Stays

\* What a message says of a task stays true while the task is left alone and
\* no create is sent for it.
LEMMA SaysKept ==
  ASSUME NEW m, Says(m), task' = task, InFlight("create", m.id)' => InFlight("create", m.id)
  PROVE  Says(m)'
<1>1. Idle(m.id)' = Idle(m.id)
  BY DEF Idle
<1>. QED
  BY <1>1 DEF Says, Message

\* A step of the backend that sends neither a create nor a report.
LEMMA TableStep ==
  ASSUME QueueAssumption, IInv, IInv', Proven, Chained', Justified, task' = task,
         \A m \in net' : m \in net \/ m.op \in {"offer", "stop"},
         \A o \in open' : o.call.op # "ack_rejected"
  PROVE  Proven'
<1>1. \A i \in Ids : InFlight("create", i)' => InFlight("create", i)
  BY DEF InFlight
<1>2. StartedOnce' /\ OutcomeIsProven'
  BY <1>1, JustifiedKeeps
<1>3. ASSUME NEW m \in net' PROVE Says(m)'
  <2>1. CASE m \in net
    <3>1. Says(m) /\ m.id \in Ids
      BY <2>1, CallTyped DEF Proven, Evidence, IInv, TypeOK
    <3>. QED
      BY <1>1, <3>1, SaysKept
  <2>2. CASE m.op \in {"offer", "stop"}
    BY <2>2 DEF Says
  <2>. QED
    BY <2>1, <2>2
<1>. QED
  BY <1>2, <1>3 DEF Proven, Evidence

\* The App fences a claim that has no task, and sends its create.
LEMMA StartStep ==
  ASSUME QueueAssumption, IInv, IInv', Proven, Chained', Prompt, NEW i \in Ids, RequestStart(i)
  PROVE  Proven'
<1>0. /\ ~InFlight("create", i) /\ ~InFlight("snapshot", i) /\ task' = task /\ open' = open
      /\ net' = (net \ {Message("offer", i)}) \cup {Message("create", i)}
  BY DEF RequestStart, Quiet
<1>1. /\ row[i].status = "claimed" /\ ~row[i].fenced /\ Sets(i, "claimed", TRUE)
      /\ i <= count /\ "claimed" \in Capacity
  BY OwnWrites, AllocatedRow DEF IInv, Capacity
<1>2. Startless(i) /\ ~Underway(i)
  BY <1>1 DEF Proven, StartedOnce
<1>3. \A j \in Ids : j # i => (InFlight("create", j)' => InFlight("create", j))
  BY <1>0 DEF InFlight, Message
<1>4. RowJustified(i)
  BY <1>1, <1>2 DEF RowJustified, Sets
<1>5. Justified
  BY <1>1, <1>4, OneRowJustified DEF Sets
<1>6. \A j \in Ids : Idle(j)' = Idle(j) /\ Startless(j)' = Startless(j)
  BY <1>0 DEF Idle, Startless
<1>7. StartedOnce'
  <2>. SUFFICES ASSUME NEW j \in Ids
                PROVE  /\ task'[j].created <= 1
                       /\ task'[j].created > 0 => ~Idle(j)' \/ task'[j].last # "none"
                       /\ InFlight("create", j)' => task'[j].created = 0
                       /\ Underway(j)' => row'[j].fenced /\ row'[j].status \in Capacity
                       /\ ~row'[j].fenced => Startless(j)'
                       /\ j > count' => ~row'[j].fenced
    BY DEF StartedOnce
  <2>1. RowJustified(j) /\ (j > count' => ~row'[j].fenced)
    BY <1>5 DEF Justified
  <2>2. /\ task[j].created <= 1
        /\ task[j].created > 0 => ~Idle(j) \/ task[j].last # "none"
        /\ InFlight("create", j) => task[j].created = 0
        /\ ~row[j].fenced => Startless(j)
    BY DEF Proven, StartedOnce
  <2>3. CASE j = i
    <3>1. row'[i].fenced /\ row'[i].status \in Capacity
      BY <1>1 DEF Sets
    <3>. QED
      BY <1>0, <1>2, <2>1, <2>2, <2>3, <3>1 DEF Startless, Underway, Idle
  <2>4. CASE j # i
    <3>1. Underway(j)' => Underway(j)
      BY <1>3, <1>6, <2>4 DEF Underway
    <3>. QED
      BY <1>0, <1>3, <1>6, <2>1, <2>2, <2>4, <3>1 DEF RowJustified
  <2>. QED
    BY <2>3, <2>4
<1>8. OutcomeIsProven'
  <2>0. Allocated' \subseteq Ids /\ \A j \in Allocated' : j <= count'
    BY DEF IInv, TypeOK, Allocated, Ids, QueueAssumption
  <2>1. \A j \in Allocated' : row'[j].fenced /\ row'[j].status \in {"completed", "failed"}
                               => task'[j].last = row'[j].status
    BY <1>0, <1>5, <2>0 DEF Justified, RowJustified
  <2>2. \A j \in Allocated' : row'[j].retry > 0 =>
          row'[row'[j].prev].status = "failed" /\ task'[row'[j].prev].last = "failed"
    BY <1>0, <1>5, <2>0 DEF Justified, Chained, RetriesFollow
  <2>. QED
    BY <2>1, <2>2 DEF OutcomeIsProven
<1>9. ASSUME NEW m \in net' PROVE Says(m)'
  <2>1. CASE m = Message("create", i)
    BY <2>1 DEF Says, Message
  <2>2. CASE m \in net
    <3>1. Says(m) /\ m.id \in Ids /\ (m.id = i => m.op # "snapshot")
      BY <1>0, <2>2, CallTyped DEF Proven, Evidence, IInv, TypeOK, InFlight
    <3>2. CASE m.id # i
      BY <1>0, <1>3, <3>1, <3>2, SaysKept
    <3>3. CASE m.id = i
      BY <1>6, <3>1, <3>3, <1>0 DEF Says, Message
    <3>. QED
      BY <3>2, <3>3
  <2>. QED
    BY <1>0, <2>1, <2>2
<1>. QED
  BY <1>0, <1>7, <1>8, <1>9 DEF Proven, Evidence

\* A task list is taken while no create is under way, and says what is true.
LEMMA SnapshotStep ==
  ASSUME QueueAssumption, IInv, IInv', Proven, Chained', Prompt, NEW i \in Ids, TakeSnapshot(i)
  PROVE  Proven'
<1>. DEFINE s == [op |-> "snapshot", id |-> i, arg |-> Report(task[i]), seq |-> 0]
<1>0. /\ ~InFlight("create", i) /\ task' = task /\ open' = open /\ Stays
      /\ net' = net \cup {s}
  BY DEF TakeSnapshot, Quiet, Stays
<1>1. \A j \in Ids : InFlight("create", j)' => InFlight("create", j)
  BY <1>0 DEF InFlight
<1>2. StartedOnce' /\ OutcomeIsProven'
  BY <1>0, <1>1, StaysJustified, JustifiedKeeps
<1>3. ASSUME NEW m \in net' PROVE Says(m)'
  <2>1. CASE m \in net
    <3>1. Says(m) /\ m.id \in Ids
      BY <2>1, CallTyped DEF Proven, Evidence, IInv, TypeOK
    <3>. QED
      BY <1>0, <1>1, <3>1, SaysKept
  <2>2. CASE m = s
    <3>1. /\ Report(task[i]) \in Terminal => Idle(i) /\ task[i].last = Report(task[i])
          /\ Report(task[i]) = "missing" => Idle(i) /\ task[i].last = "none"
      <4>1. task[i].waiting \in Nat /\ task[i].live \in BOOLEAN
            /\ task[i].last \in {"none"} \cup Terminal
        BY TaskFields DEF Task
      <4>2. CASE task[i].live
        BY <4>2 DEF Report, Terminal
      <4>3. CASE ~task[i].live /\ task[i].waiting > 0
        BY <4>3 DEF Report, Terminal
      <4>4. CASE ~task[i].live /\ task[i].waiting = 0
        BY <4>1, <4>4 DEF Report, Terminal, Idle
      <4>. QED
        BY <4>1, <4>2, <4>3, <4>4
    <3>2. Says(s)
      BY <1>0, <3>1 DEF Says
    <3>3. s.id = i
      OBVIOUS
    <3>. HIDE DEF s
    <3>. QED
      BY <1>0, <1>1, <2>2, <3>2, <3>3, SaysKept
  <2>. QED
    BY <1>0, <2>1, <2>2
<1>. QED
  BY <1>0, <1>2, <1>3 DEF Proven, Evidence

\* A step of the Runtime on a task that is under way.
LEMMA TaskStep ==
  ASSUME QueueAssumption, IInv, IInv', Proven, Chained, NEW i \in Ids, Underway(i),
         \A j \in Ids : j # i => task'[j] = task[j], UNCHANGED <<count, row, open>>,
         task'[i].created <= 1,
         task'[i].created > 0 =>
           task'[i].live \/ task'[i].waiting > 0 \/ task'[i].last # "none",
         \A j \in Ids : InFlight("create", j)' =>
           InFlight("create", j) /\ (j = i => task'[i].created = 0),
         \A m \in net' : m \in net \/ Says(m)'
  PROVE  Proven'
<1>0. row[i].fenced /\ row[i].status \in Capacity /\ i <= count
  BY AllocatedRow DEF IInv, TypeOK, Proven, StartedOnce, Capacity
<1>1. \A j \in Ids : j # i => Idle(j)' = Idle(j) /\ Startless(j)' = Startless(j)
  BY <1>0 DEF Idle, Startless
<1>2. task'[i].waiting \in Nat
  BY DEF IInv, TypeOK, Task, QueueAssumption
<1>3. StartedOnce'
  <2>. SUFFICES ASSUME NEW j \in Ids
                PROVE  /\ task'[j].created <= 1
                       /\ task'[j].created > 0 => ~Idle(j)' \/ task'[j].last # "none"
                       /\ InFlight("create", j)' => task'[j].created = 0
                       /\ Underway(j)' => row'[j].fenced /\ row'[j].status \in Capacity
                       /\ ~row'[j].fenced => Startless(j)'
                       /\ j > count' => ~row'[j].fenced
    BY DEF StartedOnce
  <2>1. /\ task[j].created <= 1
        /\ task[j].created > 0 => ~Idle(j) \/ task[j].last # "none"
        /\ InFlight("create", j) => task[j].created = 0
        /\ Underway(j) => row[j].fenced /\ row[j].status \in Capacity
        /\ ~row[j].fenced => Startless(j)
        /\ j > count => ~row[j].fenced
    BY DEF Proven, StartedOnce
  <2>2. CASE j = i
    <3>1. task'[i].created > 0 => ~Idle(i)' \/ task'[i].last # "none"
      BY <1>0, <1>2 DEF Idle
    <3>. QED
      BY <1>0, <2>1, <2>2, <3>1
  <2>3. CASE j # i
    <3>1. Underway(j)' => Underway(j)
      BY <1>1, <2>3 DEF Underway
    <3>. QED
      BY <1>0, <1>1, <2>1, <2>3, <3>1
  <2>. QED
    BY <2>2, <2>3
<1>4. OutcomeIsProven'
  <2>1. i \notin {row[j].prev : j \in {k \in Allocated : row[k].retry > 0}}
        /\ row[i].status \notin {"completed", "failed"}
    BY <1>0 DEF Proven, OutcomeIsProven, Capacity
  <2>2. \A j \in Allocated : row[j].fenced /\ row[j].status \in {"completed", "failed"}
                              => task'[j].last = row[j].status
    BY <1>0, <2>1 DEF Proven, OutcomeIsProven, Allocated, IInv, TypeOK, QueueAssumption, Ids
  <2>3. \A j \in Allocated : row[j].retry > 0 =>
          row[row[j].prev].status = "failed" /\ task'[row[j].prev].last = "failed"
    <3>. SUFFICES ASSUME NEW j \in Allocated, row[j].retry > 0
                  PROVE  row[row[j].prev].status = "failed" /\ task'[row[j].prev].last = "failed"
      OBVIOUS
    <3>1. row[row[j].prev].status = "failed" /\ task[row[j].prev].last = "failed"
          /\ row[j].prev # i /\ row[j].prev \in Ids
      BY <2>1 DEF Proven, OutcomeIsProven, Chained, RetriesFollow, Allocated, Ids,
                  IInv, TypeOK, QueueAssumption
    <3>. QED
      BY <3>1
  <2>. QED
    BY <2>2, <2>3 DEF OutcomeIsProven, Allocated
<1>5. ASSUME NEW m \in net' PROVE Says(m)'
  <2>. SUFFICES ASSUME m \in net PROVE Says(m)'
    OBVIOUS
  <2>1. Says(m) /\ m.id \in Ids
    BY CallTyped DEF Proven, Evidence, IInv, TypeOK
  <2>2. CASE m.id # i
    <3>1. task'[m.id] = task[m.id] /\ (InFlight("create", m.id)' => InFlight("create", m.id))
      BY <1>0, <2>1, <2>2
    <3>2. Idle(m.id)' = Idle(m.id)
      BY <1>1, <2>1, <2>2
    <3>. QED
      BY <2>1, <3>1, <3>2 DEF Says, Message
  <2>3. CASE m.id = i
    <3>1. m.op # "finish"
      BY <2>1, <2>3 DEF Says, Underway, Proven, StartedOnce
    <3>2. m.op = "snapshot" => /\ ~InFlight("create", i) /\ m.arg \notin Terminal
                               /\ m.arg # "missing" /\ ~InFlight("create", i)'
      BY <2>1, <2>3 DEF Says, Underway
    <3>. QED
      BY <2>1, <2>3, <3>1, <3>2 DEF Says, Message
  <2>. QED
    BY <2>2, <2>3
<1>. QED
  BY <1>3, <1>4, <1>5 DEF Proven, Evidence

\* Only one create of a row is in flight: once taken, there is none.
LEMMA LastCreate ==
  ASSUME QueueAssumption, IInv, Proven, NEW m \in net, m.op = "create",
         NEW rest, rest = net \ {m}
  PROVE  /\ m.id \in Ids /\ Underway(m.id) /\ task[m.id].created = 0
         /\ \A c \in rest : ~(c.op = "create" /\ c.id = m.id)
<1>1. m.id \in Ids /\ InFlight("create", m.id)
  BY CallTyped DEF IInv, TypeOK, InFlight
<1>2. \A c \in net : c.op = "create" => c = Message("create", c.id)
  BY DEF Proven, Evidence, Says
<1>. QED
  BY <1>1, <1>2 DEF Underway, Proven, StartedOnce

\* The Runtime accepts the one create of a row.
LEMMA CreateStep ==
  ASSUME QueueAssumption, IInv, IInv', Proven, Chained, Channels \subseteq {"fenced"},
         NEW m \in net, Create(m)
  PROVE  Proven'
<1>. DEFINE i == m.id
            t == [task[i] EXCEPT !.created = @ + 1, !.waiting = @ + 1]
<1>1. /\ m.op = "create" /\ task' = [task EXCEPT ![i] = t] /\ UNCHANGED <<count, row, open>>
      /\ net' = (net \ {m}) \cup {Message("ack_ok", i)}
  BY DEF Create, Startable
<1>2. /\ i \in Ids /\ Underway(i) /\ task[i].created = 0
      /\ \A c \in net \ {m} : ~(c.op = "create" /\ c.id = i)
  BY <1>1, LastCreate
<1>3. t.created = 1 /\ t.waiting > 0
  BY <1>2, TaskFields DEF Task
<1>4. \A j \in Ids : InFlight("create", j)' => InFlight("create", j) /\ j # i
  BY <1>1, <1>2 DEF InFlight, Message
<1>5. \A c \in net' : c \in net \/ Says(c)'
  BY <1>1 DEF Says, Message
<1>. HIDE DEF t, i
<1>6. task'[i] = t /\ \A j \in Ids : j # i => task'[j] = task[j]
  BY <1>1, <1>2 DEF IInv, TypeOK
<1>. QED
  BY <1>1, <1>2, <1>3, <1>4, <1>5, <1>6, TaskStep

\* It refuses the one create of a row, which has no task then or one that failed.
LEMMA RefuseStep ==
  ASSUME QueueAssumption, IInv, IInv', Proven, Chained, Channels \subseteq {"fenced"},
         NEW m \in net, RefuseCreate(m)
  PROVE  Proven'
<1>. DEFINE i == m.id
<1>1. /\ m.op = "create" /\ UNCHANGED <<count, row, open>> /\ net' = net \ {m}
  BY DEF RefuseCreate, Startable
<1>2. PICK last \in {task[i].last, "failed"} : task' = [task EXCEPT ![i].last = last]
  BY DEF RefuseCreate
<1>. DEFINE t == [task[i] EXCEPT !.last = last]
<1>3. /\ i \in Ids /\ Underway(i) /\ task[i].created = 0
      /\ \A c \in net \ {m} : ~(c.op = "create" /\ c.id = i)
  BY <1>1, LastCreate
<1>4. t.created = 0
  BY <1>3, TaskFields DEF Task
<1>5. \A j \in Ids : InFlight("create", j)' => InFlight("create", j)
  BY <1>1 DEF InFlight
<1>6. task' = [task EXCEPT ![i] = t]
  BY <1>2
<1>. HIDE DEF t, i
<1>7. task'[i] = t /\ \A j \in Ids : j # i => task'[j] = task[j]
  BY <1>3, <1>6 DEF IInv, TypeOK
<1>. QED
  BY <1>1, <1>3, <1>4, <1>5, <1>7, TaskStep

\* What a task under way has left of its one turn.
LEMMA OneTurn ==
  ASSUME QueueAssumption, IInv, Proven, NEW i \in Ids, ~Idle(i)
  PROVE  /\ Underway(i) /\ ~InFlight("create", i) /\ task[i].created = 1
         /\ task[i].waiting \in Nat
         /\ task[i].live => task[i].waiting = 0
         /\ ~task[i].live => task[i].waiting = 1
<1>1. task[i].created \in Nat /\ task[i].waiting \in Nat /\ task[i].seq \in Nat
      /\ task[i].live \in BOOLEAN /\ task[i].created <= 1
  BY TaskFields DEF Proven, StartedOnce
<1>2. task[i].seq + 2 * task[i].waiting + (IF task[i].live THEN 1 ELSE 0) <= 2 * task[i].created
  BY DEF IInv, TurnBudget
<1>3. task[i].created = 1 /\ (task[i].live => task[i].waiting = 0)
      /\ (~task[i].live => task[i].waiting = 1)
  BY <1>1, <1>2 DEF Idle
<1>4. ~InFlight("create", i)
  BY <1>3 DEF Proven, StartedOnce
<1>. QED
  BY <1>1, <1>3, <1>4 DEF Underway

\* A turn starts, ends, or is taken from the queue.
LEMMA TurnTaken ==
  ASSUME QueueAssumption, IInv, IInv', Proven, Chained, NEW i \in Ids,
         \/ StartTurn(i) \/ StopQueued(i) \/ (\E outcome \in Terminal : EndTurn(i, outcome))
  PROVE  Proven'
<1>1. ~Idle(i) /\ UNCHANGED <<count, row, open>>
  <2>1. task[i].waiting \in Nat
    BY TaskFields
  <2>2. CASE StartTurn(i)
    BY <2>1, <2>2 DEF StartTurn, Idle
  <2>3. CASE StopQueued(i)
    BY <2>1, <2>3 DEF StopQueued, Idle
  <2>4. CASE \E outcome \in Terminal : EndTurn(i, outcome)
    BY <2>4 DEF EndTurn, Idle
  <2>. QED
    BY <2>2, <2>3, <2>4
<1>2. /\ Underway(i) /\ ~InFlight("create", i) /\ task[i].created = 1 /\ task[i].waiting \in Nat
      /\ task[i].live => task[i].waiting = 0
      /\ ~task[i].live => task[i].waiting = 1
  BY <1>1, OneTurn
<1>a. task[i] \in Task /\ task \in [Ids -> Task]
  BY TaskFields DEF IInv, TypeOK
<1>3. CASE StartTurn(i)
  <2>. DEFINE t == [task[i] EXCEPT !.waiting = @ - 1, !.live = TRUE, !.seq = @ + 1]
              m == [op |-> "observe", id |-> i, arg |-> "running", seq |-> task[i].seq + 1]
  <2>1. t.created = 1 /\ t.live
    BY <1>2, <1>a DEF Task
  <2>2. task' = [task EXCEPT ![i] = t] /\ net' = net \cup {m}
    BY <1>3, <1>a DEF StartTurn
  <2>3. m.op = "observe"
    OBVIOUS
  <2>. HIDE DEF t, m
  <2>4. \A j \in Ids : InFlight("create", j)' => InFlight("create", j) /\ j # i
    BY <1>2, <2>2, <2>3 DEF InFlight
  <2>5. \A c \in net' : c \in net \/ Says(c)'
    BY <2>2, <2>3 DEF Says
  <2>6. task'[i] = t /\ \A j \in Ids : j # i => task'[j] = task[j]
    BY <1>a, <2>2
  <2>. QED
    BY <1>1, <1>2, <2>1, <2>6, <2>4, <2>5, TaskStep
<1>4. CASE StopQueued(i)
  <2>. DEFINE t == [task[i] EXCEPT !.waiting = @ - 1,
                                   !.last = IF task[i].live THEN @ ELSE "cancelled"]
  <2>1. t.created = 1 /\ t.last # "none"
    BY <1>2, <1>4, <1>a DEF Task, StopQueued
  <2>2. task' = [task EXCEPT ![i] = t] /\ net' = net
    BY <1>4, <1>a DEF StopQueued
  <2>. HIDE DEF t
  <2>3. \A j \in Ids : InFlight("create", j)' => InFlight("create", j) /\ j # i
    BY <1>2, <2>2 DEF InFlight
  <2>4. task'[i] = t /\ \A j \in Ids : j # i => task'[j] = task[j]
    BY <1>a, <2>2
  <2>. QED
    BY <1>1, <1>2, <2>1, <2>2, <2>3, <2>4, TaskStep
<1>5. ASSUME NEW outcome \in Terminal, EndTurn(i, outcome) PROVE Proven'
  <2>. DEFINE t == [task[i] EXCEPT !.live = FALSE, !.last = outcome, !.seq = @ + 1]
              m == [op |-> "finish", id |-> i, arg |-> outcome, seq |-> task[i].seq + 1]
  <2>1. /\ t.created = 1 /\ ~t.live /\ t.waiting = 0 /\ t.last = outcome /\ outcome # "none"
    BY <1>2, <1>5, <1>a DEF Task, EndTurn, Terminal
  <2>2. task' = [task EXCEPT ![i] = t] /\ net' = net \cup {m}
    BY <1>5, <1>a DEF EndTurn
  <2>3. m.op = "finish" /\ m.id = i /\ m.arg = outcome
    OBVIOUS
  <2>. HIDE DEF t, m
  <2>4. \A j \in Ids : InFlight("create", j)' => InFlight("create", j) /\ j # i
    BY <1>2, <2>2, <2>3 DEF InFlight
  <2>5. task'[i] = t /\ \A j \in Ids : j # i => task'[j] = task[j]
    BY <1>a, <2>2
  <2>6. \A c \in net' : c \in net \/ Says(c)'
    BY <2>1, <2>2, <2>3, <2>5 DEF Says, Idle
  <2>. QED
    BY <1>1, <1>2, <2>1, <2>4, <2>5, <2>6, TaskStep
<1>. QED
  BY <1>3, <1>4, <1>5

\* A message in flight is no refusal of a pull.
LEMMA NoRefusal ==
  ASSUME Proven, NEW c, Arrives(c)
  PROVE  c.op # "ack_rejected" /\ (c.op \in {"finish", "snapshot"} => c \in net)
<1>1. CASE c \in net
  BY <1>1 DEF Proven, Evidence, Says
<1>2. CASE \E i \in Ids, op \in RequestOps : c = Message(op, i)
  BY <1>2 DEF Message, RequestOps
<1>. QED
  BY <1>1, <1>2 DEF Arrives

\* A handler that reads and writes in one step.
LEMMA ServeProven ==
  ASSUME QueueAssumption, IInv, IInv', Proven, Chained', NEW c \in Call, c.op \in ServiceOps,
         Arrives(c), Serve(c)
  PROVE  Proven'
<1>. DEFINE r == row[c.id]
<1>1. /\ c.id \in Ids /\ c.id <= count /\ r \in Row /\ r.status \in Active
      /\ Applies(c, r) /\ Fresh(c, r) /\ Effect(c, r)
  BY ServeEffect
<1>2. Grounds(c, r)
  BY <1>1, NoRefusal
     DEF Grounds, Applies, ApprovalApplies, AcceptApplies, PreflightApplies
<1>3. Justified
  BY <1>1, <1>2, EffectJustified
<1>4. task' = task /\ open' = open /\ net' \subseteq net
  BY DEF Serve, Taken
<1>. QED
  BY <1>3, <1>4, TableStep DEF Proven, Evidence

\* A handler that compares and writes what it decided on an earlier read.
LEMMA FinishProven ==
  ASSUME QueueAssumption, IInv, IInv', Proven, Chained', OnlyCasOverlaps, ReadsCurrent,
         NEW o \in open, Finish(o)
  PROVE  Proven'
<1>. DEFINE c == o.call
            r == o.read
<1>1. /\ c \in Call /\ c.op \in CasHandlers /\ c.op \in ServiceOps
      /\ c.id \in Ids /\ c.id <= count /\ r \in Row /\ r.status \in Active /\ Effect(c, r)
  BY FinishEffect DEF OnlyCasOverlaps, NoBlindOverlap, CasHandlers
<1>2. Grounds(c, r)
  <2>1. c.op # "ack_rejected"
    BY DEF Proven, Evidence
  <2>2. c.op = "preflight" => r.status = "claimed" /\ ~r.fenced
    BY DEF ReadsCurrent
  <2>3. SameRead(c.id, r) /\ r.status \in Capacity => row[c.id].fenced = r.fenced
    BY DEF ReadsCurrent, SameRead
  <2>. QED
    BY <1>1, <2>1, <2>2, <2>3 DEF Grounds, CasHandlers
<1>3. Justified
  BY <1>1, <1>2, EffectJustified
<1>4. task' = task /\ open' \subseteq open /\ net' = net
  BY DEF Finish
<1>. QED
  BY <1>3, <1>4, TableStep DEF Proven, Evidence

\* A new execution has no task.
LEMMA EnqueueProven ==
  ASSUME QueueAssumption, IInv, IInv', Proven, Chained', NEW s \in Scope,
         NEW status \in Admissions, NEW approval \in BOOLEAN, Enqueue(s, status, approval)
  PROVE  Proven'
<1>. DEFINE n == count + 1
<1>1. /\ count \in Nat /\ count' = n /\ n \in Ids /\ n \in Nat
      /\ \A j \in Ids : j # n => row'[j] = row[j]
      /\ row'[n].status \in Pending /\ row'[n].retry = 0 /\ ~row'[n].fenced
  BY EnqueueWrites
<1>2. ~row[n].fenced
  BY <1>1 DEF Proven, StartedOnce
<1>3. RowJustified(n)
  <2>1. ~Underway(n) /\ Startless(n)
    BY <1>1, <1>2 DEF Proven, StartedOnce
  <2>. QED
    BY <1>1, <2>1 DEF RowJustified
<1>4. \A j \in Ids : RowJustified(j)
  BY <1>1, <1>3, SameRowJustified
<1>5. \A j \in Ids : j <= count /\ row[j].retry > 0 => task[row[j].prev].last = "failed"
  BY DEF Proven, OutcomeIsProven, Allocated, Ids, QueueAssumption, IInv, TypeOK
<1>6. \A j \in Ids : j <= count' => j <= count \/ j = n
  BY <1>1 DEF Ids
<1>7. \A j \in Ids : j <= count' /\ row'[j].retry > 0 => task[row'[j].prev].last = "failed"
  <2>. SUFFICES ASSUME NEW j \in Ids, j <= count', row'[j].retry > 0
                PROVE  task[row'[j].prev].last = "failed"
    OBVIOUS
  <2>1. j # n
    BY <1>1
  <2>. QED
    BY <1>1, <1>5, <1>6, <2>1
<1>8. \A j \in Ids : j > count' => ~row'[j].fenced
  BY <1>1 DEF Proven, StartedOnce, Ids
<1>9. Justified
  BY <1>4, <1>7, <1>8 DEF Justified
<1>10. task' = task /\ open' = open /\ net' = net
  BY DEF Enqueue
<1>. QED
  BY <1>9, <1>10, TableStep DEF Proven, Evidence

\* Selecting, claiming and leasing leave the fence and the outcome alone.
LEMMA OwnWriteProven ==
  ASSUME QueueAssumption, IInv, IInv', Proven, Chained', Prompt, NEW i \in Ids, OwnWrite(i)
  PROVE  Proven'
<1>1. CASE RequestStart(i)
  BY <1>1, StartStep
<1>2. ASSUME ~RequestStart(i) PROVE Proven'
  <2>0. TypeOK
    BY DEF IInv
  <2>1. /\ row[i].status # "none"
        /\ \E s : /\ Sets(i, s, row[i].fenced)
                  /\ s = row[i].status \/ (s \in Active /\ row[i].status \in Pending)
                  /\ row[i].status \in Capacity => s \in Capacity
    <3>1. CASE SelectRuntime(i)
      <4>1. PICK s \in {"pending_approval", "queued"} : Sets(i, s, row[i].fenced)
        BY <2>0, <3>1, OwnWrites
      <4>2. row[i].status \in {"waiting_runtime", "queued"}
        BY <2>0, <3>1, OwnWrites
      <4>. QED
        BY <4>1, <4>2 DEF Active, Pending, Capacity
    <3>2. CASE \E d \in Device : Claim(i, d)
      <4>1. row[i].status = "queued" /\ Sets(i, "claimed", row[i].fenced)
        BY <2>0, <3>2, OwnWrites
      <4>. QED
        BY <4>1 DEF Active, Pending, Capacity
    <3>3. CASE Redeliver(i) \/ Heartbeat(i) \/ LeaseExpires(i)
      <4>1. Sets(i, row[i].status, row[i].fenced)
        BY <2>0, <3>3, OwnWrites
      <4>2. row[i].status \in Capacity
        BY <3>3 DEF Redeliver, Heartbeat, LeaseExpires, Capacity
      <4>. QED
        BY <4>1, <4>2 DEF Capacity
    <3>. QED
      BY <1>2, <3>1, <3>2, <3>3 DEF OwnWrite
  <2>2. PICK s : /\ Sets(i, s, row[i].fenced)
                 /\ s = row[i].status \/ (s \in Active /\ row[i].status \in Pending)
                 /\ row[i].status \in Capacity => s \in Capacity
    BY <2>1
  <2>3. i <= count
    BY <2>1, AllocatedRow DEF IInv
  <2>4. RowJustified(i)
    <3>1. CASE s = row[i].status
      BY <2>2, <3>1, SameRowJustified DEF Sets
    <3>2. CASE s \in Active
      <4>1. Underway(i) => row[i].fenced /\ row[i].status \in Capacity
        BY DEF Proven, StartedOnce
      <4>. QED
        BY <2>2, <3>2, <4>1 DEF Sets, RowJustified, Active, Pending, Capacity
    <3>. QED
      BY <2>2, <3>1, <3>2
  <2>5. Justified
    BY <2>2, <2>3, <2>4, OneRowJustified DEF Sets
  <2>6. task' = task /\ open' = open /\ \A m \in net' : m \in net \/ m.op = "offer"
    <3>1. Message("offer", i).op = "offer"
      BY DEF Message
    <3>2. CASE SelectRuntime(i) \/ Heartbeat(i) \/ LeaseExpires(i)
      BY <3>2 DEF SelectRuntime, Heartbeat, LeaseExpires
    <3>3. CASE \E d \in Device : Claim(i, d)
      BY <3>1, <3>3 DEF Claim
    <3>4. CASE Redeliver(i)
      BY <3>1, <3>4 DEF Redeliver
    <3>. QED
      BY <1>2, <3>2, <3>3, <3>4 DEF OwnWrite
  <2>. QED
    BY <2>5, <2>6, TableStep DEF Proven, Evidence
<1>. QED
  BY <1>1, <1>2

\* A step that only takes messages, opens a handler or sends a stop.
LEMMA QuietProven ==
  ASSUME QueueAssumption, IInv, IInv', Proven, Chained', Stays, task' = task,
         \A m \in net' : m \in net \/ m.op = "stop",
         \A o \in open' : o \in open \/ o.call.op # "ack_rejected"
  PROVE  Proven'
<1>1. Justified
  BY StaysJustified
<1>. QED
  BY <1>1, TableStep DEF Proven, Evidence

\* Every step of the backend keeps the evidence.
LEMMA BackendProven ==
  ASSUME QueueAssumption, Disciplined, IInv, IInv', Proven, Chained', ReadsCurrent, BackendStep
  PROVE  Proven'
<1>0. net \subseteq Call /\ Prompt /\ OnlyCasOverlaps
  BY DEF IInv, TypeOK, Disciplined
<1>a. ASSUME NEW c \in Call, c.op \in ServiceOps, Arrives(c), Perform(c) PROVE Proven'
  <2>1. CASE Serve(c)
    BY <1>a, <2>1, ServeProven
  <2>2. CASE Begin(c)
    <3>1. /\ Stays /\ task' = task /\ net' \subseteq net
          /\ open' = open \cup {[call |-> c, read |-> Kept(c, row[c.id])]}
      BY <2>2 DEF Begin, Taken, Stays
    <3>2. c.op # "ack_rejected"
      BY <1>a, NoRefusal
    <3>. QED
      BY <3>1, <3>2, QuietProven
  <2>. QED
    BY <1>a, <2>1, <2>2 DEF Perform
<1>1. ASSUME NEW s \in Scope, NEW status \in Admissions, NEW approval \in BOOLEAN,
             Enqueue(s, status, approval)
      PROVE  Proven'
  BY <1>1, EnqueueProven
<1>2. ASSUME NEW i \in Ids, OwnWrite(i) PROVE Proven'
  BY <1>0, <1>2, OwnWriteProven
<1>3. ASSUME NEW i \in Ids, SendStop(i) PROVE Proven'
  <2>1. Message("stop", i).op = "stop"
    BY DEF Message
  <2>. QED
    BY <1>3, <2>1, QuietProven DEF SendStop, Stays
<1>4. ASSUME NEW i \in Ids, NEW op \in RequestOps, Ask(op, i) PROVE Proven'
  <2>1. op \in ServiceOps /\ op \notin {"snapshot", "finish"}
    BY DEF RequestOps, ServiceOps, CasHandlers, BlindHandlers
  <2>2. Message(op, i) \in Call /\ Message(op, i).op = op
    BY <2>1, MessageTyped DEF Message
  <2>. QED
    BY <1>4, <1>a, <2>1, <2>2 DEF Ask, Arrives
<1>5. ASSUME NEW m \in net, m.op \in ServiceOps, Perform(m) PROVE Proven'
  BY <1>0, <1>5, <1>a DEF Arrives
<1>6. ASSUME NEW m \in net, Discard(m) PROVE Proven'
  BY <1>6, QuietProven DEF Discard, Stays
<1>7. ASSUME NEW o \in open, Finish(o) PROVE Proven'
  BY <1>0, <1>7, FinishProven
<1>. QED
  BY <1>1, <1>2, <1>3, <1>4, <1>5, <1>6, <1>7 DEF BackendStep, OwnWrite

\* So does every step of the Executor and its Runtime.
LEMMA RuntimeProven ==
  ASSUME QueueAssumption, Disciplined, IInv, IInv', Proven, Chained, Chained', RuntimeStep
  PROVE  Proven'
<1>0. Prompt /\ Channels \subseteq {"fenced"}
  BY DEF Disciplined
<1>1. ASSUME NEW m \in net, Create(m) PROVE Proven'
  BY <1>0, <1>1, CreateStep
<1>2. ASSUME NEW m \in net, RefuseCreate(m) PROVE Proven'
  BY <1>0, <1>2, RefuseStep
<1>3. ASSUME NEW i \in Ids, StartTurn(i) PROVE Proven'
  BY <1>3, TurnTaken
<1>4. ASSUME NEW i \in Ids, NEW outcome \in Terminal, EndTurn(i, outcome) PROVE Proven'
  BY <1>4, TurnTaken
<1>5. ASSUME NEW i \in Ids, StopQueued(i) PROVE Proven'
  BY <1>5, TurnTaken
<1>6. ASSUME NEW i \in Ids, StopLive(i) PROVE Proven'
  BY <1>4, <1>6 DEF StopLive, Terminal
<1>7. ASSUME NEW i \in Ids, TakeSnapshot(i) PROVE Proven'
  BY <1>0, <1>7, SnapshotStep
<1>8. ASSUME NEW m \in net, Lose(m) PROVE Proven'
  BY <1>8, QuietProven DEF Lose, Stays
<1>9. {"completed", "failed"} \subseteq Terminal
  BY DEF Terminal
<1>. QED
  BY <1>1, <1>2, <1>3, <1>4, <1>5, <1>6, <1>7, <1>8, <1>9 DEF RuntimeStep

\* The evidence holds in every reachable state.
LEMMA EvidenceHolds ==
  ASSUME Disciplined
  PROVE  Spec => []Proven
<1>0. OnlyCasOverlaps /\ NoBlindOverlap
  BY DEF Disciplined, OnlyCasOverlaps, NoBlindOverlap, CasHandlers
<1>1. Init => Proven
  <2>. SUFFICES ASSUME Init PROVE Proven
    OBVIOUS
  <2>1. /\ \A i \in Ids : Idle(i) /\ Startless(i) /\ task[i].created = 0 /\ ~row[i].fenced
        /\ net = {} /\ open = {} /\ Allocated = {}
    BY DEF Init, Idle, Startless, NoRow, NewRow, Allocated
  <2>2. \A i \in Ids : ~InFlight("create", i)
    BY <2>1 DEF InFlight
  <2>3. StartedOnce
    BY <2>1, <2>2 DEF StartedOnce, Underway
  <2>4. Evidence /\ OutcomeIsProven
    BY <2>1 DEF Evidence, OutcomeIsProven
  <2>. QED
    BY <2>3, <2>4 DEF Proven
<1>2. IInv /\ Chained /\ Chained' /\ ReadsCurrent /\ Proven /\ [Next]_vars => Proven'
  <2>. SUFFICES ASSUME IInv, Chained, Chained', ReadsCurrent, Proven, [Next]_vars
                PROVE  Proven'
    OBVIOUS
  <2>0. QueueAssumption /\ IInv'
    BY QueueAssumption, NextIInv
  <2>1. CASE BackendStep
    BY <2>0, <2>1, BackendProven
  <2>2. CASE RuntimeStep
    BY <2>0, <2>2, RuntimeProven
  <2>3. CASE UNCHANGED vars
    BY <2>0, <2>3, QuietProven DEF vars, Stays
  <2>. QED
    BY <2>1, <2>2, <2>3 DEF Next
<1>3. Spec => []Chained
  BY <1>0, ChainHolds
<1>4. Spec => []ReadsCurrent
  BY <1>0, ReadsHold
<1>. QED
  BY <1>1, <1>2, <1>3, <1>4, InvariantHolds, PTL DEF Spec

\* The outcome of a started attempt, and the failure that a retry follows, is
\* the one its Runtime task had, whatever is lost, repeated or out of order.
\* Assumed: the fenced channel alone, overlaps of compare-and-swap handlers
\* alone, and Prompt, by which a timeout outlasts the create and the list that
\* it guards.  The code gives no such order (service.py:4488), and without it
\* this fails; OutcomesHaveAnEnd is what holds then.
THEOREM OutcomesAreProven ==
  ASSUME Disciplined
  PROVE  Spec => []OutcomeIsProven
<1>1. Proven => OutcomeIsProven
  BY DEF Proven
<1>. QED
  BY <1>1, EvidenceHolds, PTL

\* A turn that the Runtime executes or has queued belongs to an attempt that
\* holds capacity: the start fence and the evidence asked of its end keep
\* every attempt whose task may still run from being over or claimed again.
\* Assumed as above: without Prompt a late create runs beside the requeued
\* attempt, and on the pull channel a turn runs for a cancelled one.
THEOREM NothingRunsUnheld ==
  ASSUME Disciplined
  PROVE  Spec => []TurnHoldsCapacity
<1>1. IInv /\ Proven => TurnHoldsCapacity
  <2>. SUFFICES ASSUME IInv, Proven, NEW i \in Ids, task[i].live \/ task[i].waiting > 0
                PROVE  row[i].status \in Capacity
    BY DEF TurnHoldsCapacity
  <2>1. task[i].waiting \in Nat
    BY QueueAssumption, TaskFields
  <2>2. ~Idle(i)
    BY <2>1 DEF Idle
  <2>. QED
    BY <2>2 DEF Proven, StartedOnce, Underway
<1>. QED
  BY <1>1, EvidenceHolds, InvariantHolds, PTL
=============================================================================

------------------------- MODULE TaskSessionTypeProofs -------------------------
(***************************************************************************)
(* What every variable of a tab that shows a task keeps, for every number  *)
(* of turns, every length of an answer and every bound.  The proof needs   *)
(* the kinds of what travels (events, calls, handlers, checks), and that   *)
(* the texts which a snapshot or a merge of chunks builds are texts.       *)
(***************************************************************************)
EXTENDS TaskSessionProofs, WellFoundedInduction

(***************************************************************************)
(* Numbers: least and greatest elements, and induction over an interval.   *)
(***************************************************************************)
LEMMA LeastNumber ==
  ASSUME NEW T, T \subseteq Nat, T # {}
  PROVE  \E n \in T : \A k \in T : n <= k
<1>. DEFINE below == OpToRel(<, Nat)
<1>1. IsWellFoundedOn(below, Nat)
  BY NatLessThanWellFounded
<1>2. \A x, y \in Nat : <<y, x>> \in below <=> y < x
  BY Zenon DEF OpToRel
<1>. HIDE DEF below
<1>3. PICK x \in T : \A y \in T : ~ (<<y, x>> \in below)
  BY <1>1, WFMin
<1>4. ASSUME NEW y \in T PROVE x <= y
  <2>1. x \in Nat /\ y \in Nat /\ ~ (<<y, x>> \in below)
    BY <1>3
  <2>2. ~ (y < x)
    BY <1>2, <2>1
  <2>. QED
    BY <2>1, <2>2
<1>. QED
  BY <1>4

LEMMA NumberInduction ==
  ASSUME NEW N \in Nat, NEW G, 0 \in G,
         \A n \in 0..N : n \in G /\ n < N => n + 1 \in G
  PROVE  \A n \in 0..N : n \in G
<1>. DEFINE T == {n \in 0..N : n \notin G}
<1>1. CASE T = {}
  BY <1>1
<1>2. CASE T # {}
  <2>0. T \subseteq Nat
    OBVIOUS
  <2>. HIDE DEF T
  <2>1. PICK n \in T : \A k \in T : n <= k
    BY <1>2, <2>0, LeastNumber
  <2>2. n \in 0..N /\ n \notin G /\ n # 0
    BY <2>1 DEF T
  <2>3. n - 1 \notin T
    BY <2>1, <2>2
  <2>4. n - 1 \in G
    BY <2>2, <2>3 DEF T
  <2>. QED
    BY <2>2, <2>4
<1>. QED
  BY <1>1, <1>2

LEMMA LeastOf ==
  ASSUME NEW T, T \subseteq Nat, T # {} PROVE Min(T) \in T /\ \A k \in T : Min(T) <= k
<1>1. PICK n \in T : \A k \in T : n <= k
  BY LeastNumber
<1>. QED
  BY <1>1 DEF Min

LEMMA GreatestOf ==
  ASSUME NEW N \in Nat, NEW T, T \subseteq 0..N, T # {}
  PROVE  Max(T) \in T /\ \A k \in T : k <= Max(T)
<1>. DEFINE U == {N - k : k \in T}
<1>1. U \subseteq Nat /\ U # {}
  <2>1. \A k \in T : k \in 0..N
    OBVIOUS
  <2>2. \A k \in T : N - k \in Nat
    BY <2>1
  <2>. QED
    BY <2>2
<1>. HIDE DEF U
<1>2. PICK u \in U : \A v \in U : u <= v
  BY <1>1, LeastNumber
<1>3. PICK n \in T : u = N - n
  BY DEF U
<1>4. \A k \in T : N - k \in U
  BY DEF U
<1>5. \A k \in T : k <= n
  <2>. TAKE k \in T
  <2>1. N - n <= N - k /\ k \in 0..N /\ n \in 0..N
    BY <1>2, <1>3, <1>4
  <2>. QED
    BY <2>1
<1>6. \A k \in T : n >= k
  BY <1>3, <1>5
<1>. QED
  BY <1>3, <1>6 DEF Max

(***************************************************************************)
(* Texts.                                                                  *)
(***************************************************************************)
Text == Seq(Position)

LEMMA MergeOne ==
  ASSUME NEW t \in Text, NEW p \in Position
  PROVE  /\ MergeChunk(t, p) \in Text
         /\ \/ MergeChunk(t, p) = t /\ p <= Len(t) /\ t[p] = p
            \/ \E k \in 0..Len(t) :
                 /\ ~(p <= Len(t) /\ t[p] = p)
                 /\ k <= p - 1 /\ (k = p - 1 \/ k = Len(t))
                 /\ Len(MergeChunk(t, p)) = k + 1
                 /\ \A i \in 1..k : MergeChunk(t, p)[i] = t[i]
                 /\ MergeChunk(t, p)[k + 1] = p
<1>0. p \in Nat /\ p >= 1 /\ Len(t) \in Nat
  BY MachineAssumption DEF Position, Text
<1>1. CASE p <= Len(t) /\ t[p] = p
  BY <1>1 DEF MergeChunk
<1>2. CASE ~(p <= Len(t) /\ t[p] = p)
  <2>. DEFINE k == IF p - 1 < Len(t) THEN p - 1 ELSE Len(t)
              c == SubSeq(t, 1, k)
  <2>1. k \in 0..Len(t) /\ k <= p - 1 /\ (k = p - 1 \/ k = Len(t))
    BY <1>0
  <2>2. MergeChunk(t, p) = Append(c, p)
    BY <1>2 DEF MergeChunk, Cut
  <2>. HIDE DEF k
  <2>3. c \in Text /\ Len(c) = k /\ \A i \in 1..k : c[i] = t[i]
    BY <2>1, <1>0 DEF Text
  <2>. HIDE DEF c
  <2>4. /\ Append(c, p) \in Text /\ Len(Append(c, p)) = k + 1
        /\ \A i \in 1..k : Append(c, p)[i] = c[i]
        /\ Append(c, p)[k + 1] = p
    BY <2>3, <2>1 DEF Text
  <2>. QED
    BY <1>2, <2>1, <2>2, <2>3, <2>4
<1>. QED
  BY <1>1, <1>2

Chunk == [s : Subtask, p : Position]

\* The text after n chunks.
Merges(f, t, chunks, s) ==
  /\ f[0] = t
  /\ \A n \in 1..Len(chunks) :
       f[n] = IF chunks[n].s = s THEN MergeChunk(f[n - 1], chunks[n].p) ELSE f[n - 1]

LEMMA MergesExist ==
  ASSUME NEW t \in Text, NEW chunks \in Seq(Chunk), NEW s
  PROVE  \E f \in [0..Len(chunks) -> Text] : Merges(f, t, chunks, s)
<1>. DEFINE N == Len(chunks)
            Rest(x, n) == IF chunks[n].s = s THEN MergeChunk(x, chunks[n].p) ELSE x
            Good(n) == \E f \in [0..n -> Text] :
                         f[0] = t /\ \A k \in 1..n : f[k] = Rest(f[k - 1], k)
            G == {n \in 0..N : Good(n)}
<1>0. N \in Nat /\ \A n \in 1..N : chunks[n].p \in Position
  <2>1. N \in Nat /\ \A n \in 1..N : chunks[n] \in Chunk
    OBVIOUS
  <2>. QED
    BY <2>1, Zenon DEF Chunk
<1>1. \A x \in Text, n \in 1..N : Rest(x, n) \in Text
  BY <1>0, MergeOne
<1>. HIDE DEF Rest
<1>2. Good(0)
  <2>. DEFINE f == [k \in 0..0 |-> t]
  <2>1. f \in [0..0 -> Text] /\ f[0] = t /\ \A k \in 1..0 : f[k] = Rest(f[k - 1], k)
    OBVIOUS
  <2>. QED
    BY <2>1
<1>3. ASSUME NEW n \in 0..N, n < N, Good(n) PROVE Good(n + 1)
  <2>1. PICK f \in [0..n -> Text] : f[0] = t /\ \A k \in 1..n : f[k] = Rest(f[k - 1], k)
    BY <1>3
  <2>. DEFINE last == Rest(f[n], n + 1)
              g == [k \in 0..(n + 1) |-> IF k <= n THEN f[k] ELSE last]
  <2>2. last \in Text
    BY <1>0, <1>1, <1>3
  <2>3. g \in [0..(n + 1) -> Text]
    <3>. SUFFICES ASSUME NEW k \in 0..(n + 1) PROVE (IF k <= n THEN f[k] ELSE last) \in Text
      OBVIOUS
    <3>1. k <= n => k \in 0..n
      OBVIOUS
    <3>. QED
      BY <2>2, <3>1
  <2>4. g[0] = t /\ g[n + 1] = last /\ \A k \in 0..n : g[k] = f[k]
    BY <2>1, <1>0
  <2>. HIDE DEF g
  <2>5. ASSUME NEW k \in 1..(n + 1) PROVE g[k] = Rest(g[k - 1], k)
    <3>1. k - 1 \in 0..n
      OBVIOUS
    <3>2. CASE k = n + 1
      BY <2>4, <3>1, <3>2
    <3>3. CASE k \in 1..n
      BY <2>1, <2>4, <3>1, <3>3
    <3>. QED
      BY <3>2, <3>3
  <2>. QED
    BY <2>3, <2>4, <2>5
<1>. HIDE DEF Good
<1>4. 0 \in G /\ \A n \in 0..N : n \in G /\ n < N => n + 1 \in G
  <2>1. 0 \in G
    BY <1>0, <1>2
  <2>2. ASSUME NEW n \in 0..N, n \in G, n < N PROVE n + 1 \in G
    <3>1. Good(n + 1) /\ n + 1 \in 0..N
      BY <1>0, <1>3, <2>2
    <3>. QED
      BY <3>1
  <2>. QED
    BY <2>1, <2>2
<1>. HIDE DEF G
<1>5. N \in G
  <2>1. \A n \in 0..N : n \in G
    <3>. HIDE DEF N
    <3>. QED
      BY <1>0, <1>4, NumberInduction
  <2>. QED
    BY <1>0, <2>1
<1>6. Good(N)
  BY <1>5 DEF G
<1>. QED
  BY <1>6 DEF Good, Rest, Merges

LEMMA MergedIs ==
  ASSUME NEW t \in Text, NEW chunks \in Seq(Chunk), NEW s
  PROVE  \E f \in [0..Len(chunks) -> Text] :
           Merges(f, t, chunks, s) /\ Merged(t, chunks, s) = f[Len(chunks)]
<1>. DEFINE N == Len(chunks)
            Rest(f, n) == IF chunks[n].s = s THEN MergeChunk(f[n - 1], chunks[n].p) ELSE f[n - 1]
            Is(f) == f = [n \in 0..N |-> IF n = 0 THEN t ELSE Rest(f, n)]
            g == CHOOSE f : Is(f)
<1>0. N \in Nat
  OBVIOUS
<1>1. Merged(t, chunks, s) = g[N]
  BY DEF Merged
<1>2. PICK f \in [0..N -> Text] : f[0] = t /\ \A n \in 1..N : f[n] = Rest(f, n)
  <2>1. PICK f \in [0..N -> Text] : Merges(f, t, chunks, s)
    BY MergesExist
  <2>2. f[0] = t /\ \A n \in 1..N : f[n] = Rest(f, n)
    BY <2>1 DEF Merges
  <2>. QED
    BY <2>2
<1>. HIDE DEF Rest
<1>3. Is(f)
  <2>1. \A n \in 0..N : f[n] = IF n = 0 THEN t ELSE Rest(f, n)
    BY <1>2, <1>0
  <2>2. f = [n \in 0..N |-> f[n]]
    OBVIOUS
  <2>. QED
    BY <2>1, <2>2
<1>4. Is(g)
  <2>. HIDE DEF Is
  <2>. QED
    BY <1>3
<1>. HIDE DEF g
<1>5. DOMAIN g = 0..N /\ \A n \in 0..N : g[n] = IF n = 0 THEN t ELSE Rest(g, n)
  BY <1>4
<1>6. g[0] = t /\ \A n \in 1..N : g[n] = Rest(g, n)
  BY <1>0, <1>5
<1>7. \A n \in 0..N : g[n] \in Text
  <2>. DEFINE G == {n \in 0..N : g[n] \in Text}
  <2>1. 0 \in G
    BY <1>0, <1>6
  <2>2. ASSUME NEW n \in 0..N, n \in G, n < N PROVE n + 1 \in G
    <3>1. n + 1 \in 1..N /\ (n + 1) - 1 = n /\ chunks[n + 1].p \in Position
      BY <1>0, <2>2 DEF Chunk
    <3>2. g[n + 1] \in Text
      BY <1>6, <2>2, <3>1, MergeOne DEF Rest
    <3>. QED
      BY <3>1, <3>2
  <2>. HIDE DEF G
  <2>3. \A n \in 0..N : n \in G
    BY <1>0, <2>1, <2>2, NumberInduction
  <2>. QED
    BY <2>3 DEF G
<1>8. g \in [0..N -> Text]
  BY <1>4, <1>7
<1>. QED
  BY <1>1, <1>6, <1>8 DEF Rest, Merges

(***************************************************************************)
(* What travels and what every variable keeps.                             *)
(***************************************************************************)
RowStatus == {"absent", "PENDING"} \cup Execution
Stream == {0} \cup Subtask

Joins == [type : {"join"}, v : Nat, after : Cursor, upd : Nat]
Calls == [type : {"leave"}] \cup Joins

TurnEvents   == [type : {"start", "done", "error", "cancelled", "reply"}, s : Subtask]
ChunkEvents  == [type : {"chunk"}, s : Subtask, p : Position]
StatusEvents == [type : {"status"}, task : Execution, upd : Nat]
Refusals     == [type : {"answer"}, v : Nat, upd : Nat, ok : {FALSE}]
Snapshots    == [type : {"answer"}, v : Nat, upd : Nat, ok : {TRUE}, snap : Snapshot]
Events == TurnEvents \cup ChunkEvents \cup StatusEvents \cup Refusals \cup Snapshots

Arrived == [at : {"received", "entered"}, v : Nat, after : Cursor, upd : Nat]
Looking == [at : {"stream"}, v : Nat, after : Cursor, upd : Nat, stream : Stream]
Loaded  == [at : {"rows"}, v : Nat, upd : Nat, stream : Stream,
            subs : [Subtask -> RowStatus], text : [Subtask -> Text]]
Handlers == Arrived \cup Looking \cup Loaded

ReadChecks == [at : {"read"}, reconnect : BOOLEAN, task : Execution, upd : Nat, stream : Stream]
Checks == [at : {"idle"}] \cup [at : {"asked"}, reconnect : BOOLEAN]
          \cup ReadChecks \cup [at : {"joining"}, v : Nat]

Details == [at : {"none", "asked", "loaded"}] \cup [at : {"read"}, task : Execution, upd : Nat]

Servers == [task : Execution, clock : Nat, upd : Nat, turn : Subtask, redis : Stream,
            told : 0..Turns, reply : BOOLEAN,
            sub : [Subtask -> RowStatus], out : [Subtask -> 0..Length]]

Counters == [checks : Nat, disconnects : Nat, refusals : Nat, selections : Nat, lost : Nat]

ServerTyped == srv \in Servers /\ srv.told <= srv.turn /\ srv.upd <= srv.clock

Typed ==
  /\ m \in Machine /\ ServerTyped
  /\ conn \in [on : BOOLEAN, room : BOOLEAN, joinedTask : BOOLEAN]
  /\ down \in Seq(Events) /\ up \in Seq(Calls) /\ joins \subseteq Handlers
  /\ check \in Checks /\ detail \in Details /\ used \in Counters

LEMMA EventKinds ==
  ASSUME NEW e \in Events
  PROVE  /\ e.type \in {"start", "done", "error", "cancelled", "reply"} => e.s \in Subtask
         /\ e.type = "chunk" => e.s \in Subtask /\ e.p \in Position
         /\ e.type = "status" => e.task \in Execution /\ e.upd \in Nat
         /\ e.type = "answer" => e.v \in Nat /\ e.upd \in Nat /\ e.ok \in BOOLEAN
         /\ e.type = "answer" /\ e.ok => e.snap \in Snapshot
<1>1. CASE e \in TurnEvents
  BY <1>1 DEF TurnEvents
<1>2. CASE e \in ChunkEvents
  BY <1>2 DEF ChunkEvents
<1>3. CASE e \in StatusEvents
  BY <1>3 DEF StatusEvents
<1>4. CASE e \in Refusals
  BY <1>4 DEF Refusals
<1>5. CASE e \in Snapshots
  BY <1>5 DEF Snapshots
<1>. QED
  BY <1>1, <1>2, <1>3, <1>4, <1>5 DEF Events

LEMMA TypedMeansTypeOK == ASSUME Typed PROVE TypeOK
BY DEF Typed, ServerTyped, Servers, TypeOK, Checks, ReadChecks, Details, Stream

(***************************************************************************)
(* Every reducer takes a machine to a machine.                             *)
(***************************************************************************)
LEMMA NoMessageTyped == NoMessage \in Message
<1>1. <<>> \in Seq(Position)
  OBVIOUS
<1>. QED
  BY <1>1 DEF NoMessage, Message, NoTask

LEMMA WholeText == Whole \in Text /\ Len(Whole) = Length
BY MachineAssumption DEF Whole, Text, Position

LEMMA FreshTyped ==
  ASSUME NEW v \in Nat, NEW c \in BOOLEAN PROVE Fresh(v, c) \in Machine
BY NoMessageTyped, MachineAssumption
DEF Fresh, Machine, Status, Settled, Recovering, Phase, NoTask, NoRecovery, NoCursor, Cursor

LEMMA StartTyped ==
  ASSUME NEW a \in Machine, NEW s \in Subtask PROVE ChatStart(a, s) \in Machine
<1>1. a.msgs[s] \in Message /\ a.msgs \in [Subtask -> Message]
  BY DEF Machine
<1>. DEFINE msg == [st |-> "streaming", sub |-> NoTask,
                    text |-> IF a.msgs[s].st = "streaming" THEN a.msgs[s].text ELSE <<>>,
                    known |-> TRUE, err |-> FALSE]
<1>2. msg \in Message
  BY <1>1 DEF Message
<1>. HIDE DEF msg
<1>3. [a.msgs EXCEPT ![s] = msg] \in [Subtask -> Message]
  BY <1>1, <1>2
<1>4. WithMessage(a, s, msg) \in Machine
  BY <1>3 DEF WithMessage, Machine
<1>. DEFINE b == WithMessage(a, s, msg)
            task == IF b.task \in Terminal THEN "RUNNING" ELSE b.task
<1>5. task \in {NoTask} \cup Execution
  BY <1>4 DEF Machine, Execution
<1>. HIDE DEF b, task
<1>6. [b EXCEPT !.task = task, !.phase = "streaming", !.status = "streaming",
                !.active = s, !.confirmed = FALSE] \in Machine
  BY ZenonT(30), <1>4, <1>5 DEF Machine, Phase, Status, Settled, b
<1>. QED
  BY <1>6 DEF ChatStart, msg, b, task

LEMMA PhaseTyped == \A task, streaming : PhaseFor(task, streaming) \in Phase
BY DEF PhaseFor, Phase

\* One message, or its text, replaced.
LEMMA MessageTyped ==
  ASSUME NEW a \in Machine, NEW s \in Subtask, NEW msg \in Message
  PROVE  [a EXCEPT !.msgs[s] = msg] \in Machine
<1>1. a.msgs \in [Subtask -> Message]
  BY DEF Machine
<1>. DEFINE msgs == [a.msgs EXCEPT ![s] = msg]
<1>2. msgs \in [Subtask -> Message]
  BY <1>1
<1>. HIDE DEF msgs
<1>3. [a EXCEPT !.msgs = msgs] \in Machine
  BY <1>2 DEF Machine
<1>. QED
  BY <1>3 DEF msgs

LEMMA ChunkTyped ==
  ASSUME NEW a \in Machine, NEW s \in Subtask, NEW p \in Position
  PROVE  ChatChunk(a, s, p) \in Machine
<1>1. a.msgs[s] \in Message /\ a.msgs[s].text \in Text
  BY DEF Machine, Message, Text
<1>2. CASE a.status \in {"idle", "joining"}
  <2>. DEFINE chunks == Append(a.chunks, [s |-> s, p |-> p])
  <2>1. chunks \in Seq([s : Subtask, p : Position])
    BY DEF Machine
  <2>. HIDE DEF chunks
  <2>2. [a EXCEPT !.chunks = chunks] \in Machine
    BY <2>1 DEF Machine
  <2>. QED
    BY <1>2, <2>2 DEF ChatChunk, chunks
<1>3. CASE a.status \notin {"idle", "joining"}
  <2>. DEFINE text == MergeChunk(a.msgs[s].text, p)
              msg == [a.msgs[s] EXCEPT !.text = text]
              b == [a EXCEPT !.msgs[s] = msg]
  <2>1. text \in Text
    BY <1>1, MergeOne
  <2>. HIDE DEF text
  <2>2. msg \in Message
    BY <1>1, <2>1 DEF Message, Text
  <2>. HIDE DEF msg
  <2>3. b \in Machine
    BY <2>2, MessageTyped
  <2>4. [a EXCEPT !.msgs[s].text = text, !.phase = "streaming", !.active = s]
        = [b EXCEPT !.phase = "streaming", !.active = s]
    BY DEF msg, Machine
  <2>. HIDE DEF b
  <2>5. [b EXCEPT !.phase = "streaming", !.active = s] \in Machine
    BY <2>3 DEF Machine, Phase
  <2>. DEFINE c == ChunkApplied(a, s, p)
  <2>6. c \in Machine
    BY <2>4, <2>5 DEF ChunkApplied, text
  <2>. HIDE DEF c
  <2>7. [c EXCEPT !.confirmed = FALSE] \in Machine
    BY <2>6 DEF Machine
  <2>. QED
    BY <1>3, <2>7 DEF ChatChunk, c
<1>. QED
  BY <1>2, <1>3

LEMMA EndedTyped ==
  ASSUME NEW a \in Machine, NEW task \in {NoTask} \cup Execution, NEW u \in Nat, NEW v \in Nat
  PROVE  StreamEnded(a, task, u, v) \in Machine
<1>. DEFINE phase == PhaseFor(task, FALSE)
<1>1. phase \in Phase
  BY PhaseTyped
<1>. HIDE DEF phase
<1>2. [a EXCEPT !.task = task, !.phase = phase, !.active = 0, !.upd = u, !.termUpd = v,
                !.hasTerm = TRUE, !.defTask = NoTask, !.defUpd = 0] \in Machine
  BY <1>1 DEF Machine
<1>. QED
  BY <1>2 DEF StreamEnded, phase

LEMMA StatusTyped ==
  ASSUME NEW a \in Machine, NEW status \in Status PROVE [a EXCEPT !.status = status] \in Machine
BY DEF Machine

LEMMA LongerTyped ==
  ASSUME NEW t \in Text, NEW u \in Text
  PROVE  /\ Longer(t, u) \in {t, u} /\ Longer(t, u) \in Text
         /\ Len(Longer(t, u)) >= Len(t) /\ Len(Longer(t, u)) >= Len(u)
<1>1. Len(t) \in Nat /\ Len(u) \in Nat
  BY DEF Text
<1>. QED
  BY <1>1 DEF Longer

\* The message and the text that a done leaves.
DoneMessage(a, s) ==
  IF a.msgs[s].st = "absent"
  THEN [NoMessage EXCEPT !.st = "streaming", !.text = Whole] ELSE a.msgs[s]

LEMMA DoneMessageTyped ==
  ASSUME NEW a \in Machine, NEW s \in Subtask
  PROVE  /\ DoneMessage(a, s) \in Message
         /\ DoneMessage(a, s).text = IF a.msgs[s].st = "absent" THEN Whole ELSE a.msgs[s].text
<1>1. a.msgs[s] \in Message
  BY DEF Machine
<1>2. [NoMessage EXCEPT !.st = "streaming", !.text = Whole] \in Message
  BY NoMessageTyped, WholeText DEF Message, Text
<1>3. [NoMessage EXCEPT !.st = "streaming", !.text = Whole].text = Whole
  BY DEF NoMessage
<1>. QED
  BY <1>1, <1>2, <1>3 DEF DoneMessage

LEMMA DoneTyped ==
  ASSUME NEW a \in Machine, NEW s \in Subtask PROVE ChatDone(a, s) \in Machine
<1>. DEFINE msg == DoneMessage(a, s)
            active == IsActiveEvent(a, s)
            task == IF ~active THEN a.task
                    ELSE IF a.defTask # NoTask THEN a.defTask ELSE "COMPLETED"
            failed == task \in {"FAILED", "CANCELLED"}
            st == IF failed THEN "error" ELSE "completed"
            sub == IF failed THEN task ELSE "COMPLETED"
            text == IF failed THEN msg.text ELSE Longer(Whole, msg.text)
            new == [msg EXCEPT !.st = st, !.sub = sub, !.text = text, !.known = TRUE]
            ended == [a EXCEPT !.msgs[s] = new]
            Timed(at) == IF a.defUpd # 0 THEN a.defUpd ELSE at
<1>1. msg \in Message /\ msg.text \in Text
  BY DoneMessageTyped DEF Message, Text
<1>2. task \in {NoTask} \cup Execution /\ sub \in Execution /\ st \in {"error", "completed"}
  BY DEF Machine, Execution, Terminal
<1>3. text \in Text
  BY <1>1, WholeText, LongerTyped
<1>4. Timed(a.upd) \in Nat /\ Timed(a.termUpd) \in Nat
  BY DEF Machine
<1>. DEFINE u == Timed(a.upd)
            v == Timed(a.termUpd)
<1>5. ChatDone(a, s) = IF ~active /\ (msg.st = "error" \/ msg.sub \in {"FAILED", "CANCELLED"})
                       THEN a ELSE IF ~active THEN ended
                       ELSE [StreamEnded(ended, task, u, v) EXCEPT !.status = "ready"]
  BY DEF ChatDone, DoneMessage
<1>. HIDE DEF msg, active, task, failed, st, sub, text, u, v
<1>6. new \in Message
  BY <1>1, <1>2, <1>3 DEF Message, Text
<1>. HIDE DEF new
<1>7. ended \in Machine
  BY <1>6, MessageTyped
<1>. HIDE DEF ended
<1>8. StreamEnded(ended, task, u, v) \in Machine
  BY <1>2, <1>4, <1>7, EndedTyped DEF u, v
<1>9. "ready" \in Status
  BY DEF Status, Settled
<1>. QED
  BY <1>5, <1>7, <1>8, <1>9, StatusTyped

LEMMA ErrorTyped ==
  ASSUME NEW a \in Machine, NEW s \in Subtask PROVE ChatError(a, s) \in Machine
<1>. DEFINE b == StreamEnded(a, "FAILED", a.upd, a.termUpd)
            ended == [b.msgs[s] EXCEPT !.st = "error", !.sub = "FAILED"]
            c == [b EXCEPT !.msgs[s] = ended]
            told == [c.msgs[s] EXCEPT !.err = TRUE, !.known = TRUE]
            d == [c EXCEPT !.msgs[s] = told]
<1>1. a.upd \in Nat /\ a.termUpd \in Nat
  BY DEF Machine
<1>2. b \in Machine
  BY <1>1, EndedTyped DEF Execution, Terminal
<1>3. ChatError(a, s) = a
      \/ ChatError(a, s) = [b EXCEPT !.msgs[s].st = "error", !.msgs[s].sub = "FAILED",
                                     !.msgs[s].err = TRUE, !.msgs[s].known = TRUE,
                                     !.status = "error"]
  BY DEF ChatError
<1>. HIDE DEF b
<1>4. b.msgs[s] \in Message /\ b.msgs \in [Subtask -> Message]
  BY <1>2 DEF Machine
<1>5. ended \in Message
  BY <1>4 DEF Message, Execution, Terminal
<1>6. c \in Machine
  BY <1>2, <1>5, MessageTyped
<1>7. [b EXCEPT !.msgs[s].st = "error", !.msgs[s].sub = "FAILED"] = c
  BY <1>2, <1>4 DEF Machine, Message
<1>. HIDE DEF c
<1>8. c.msgs[s] \in Message /\ c.msgs \in [Subtask -> Message]
  BY <1>6 DEF Machine
<1>9. told \in Message
  BY <1>8 DEF Message
<1>10. d \in Machine
  BY <1>6, <1>9, MessageTyped
<1>11. [c EXCEPT !.msgs[s].err = TRUE, !.msgs[s].known = TRUE, !.status = "error"]
       = [d EXCEPT !.status = "error"]
  BY <1>6, <1>8 DEF Machine, Message
<1>12. "error" \in Status
  BY DEF Status, Settled
<1>. HIDE DEF d
<1>13. ChatError(a, s) = a \/ ChatError(a, s) = [d EXCEPT !.status = "error"]
  BY <1>3, <1>7, <1>11
<1>. QED
  BY <1>10, <1>12, <1>13, StatusTyped

LEMMA CancelledTyped ==
  ASSUME NEW a \in Machine, NEW s \in Subtask PROVE ChatCancelled(a, s) \in Machine
<1>. DEFINE b == StreamEnded(a, "CANCELLED", a.upd, a.termUpd)
            new == [b.msgs[s] EXCEPT !.st = "completed", !.sub = "CANCELLED"]
            c == [b EXCEPT !.msgs[s] = new]
<1>1. a.upd \in Nat /\ a.termUpd \in Nat
  BY DEF Machine
<1>2. b \in Machine
  BY <1>1, EndedTyped DEF Execution, Terminal
<1>3. ChatCancelled(a, s) = a
      \/ ChatCancelled(a, s) = [b EXCEPT !.msgs[s].st = "completed",
                                         !.msgs[s].sub = "CANCELLED", !.status = "ready"]
  BY DEF ChatCancelled
<1>. HIDE DEF b
<1>4. b.msgs[s] \in Message /\ b.msgs \in [Subtask -> Message]
  BY <1>2 DEF Machine
<1>5. new \in Message
  BY <1>4 DEF Message, Execution, Terminal
<1>6. c \in Machine
  BY <1>2, <1>5, MessageTyped
<1>7. [b EXCEPT !.msgs[s].st = "completed", !.msgs[s].sub = "CANCELLED", !.status = "ready"]
      = [c EXCEPT !.status = "ready"]
  BY <1>2, <1>4 DEF Machine, Message
<1>8. "ready" \in Status
  BY DEF Status, Settled
<1>. HIDE DEF c
<1>. QED
  BY <1>3, <1>6, <1>7, <1>8, StatusTyped

LEMMA AcceptedTyped ==
  ASSUME NEW a \in Machine, NEW s \in Subtask, NEW at \in Nat
  PROVE  SendAccepted(a, s, at) \in Machine
<1>. DEFINE phase == PhaseFor("RUNNING", a.active # 0)
            status == IF a.active = 0 THEN "ready" ELSE "streaming"
            prompts == IF s > a.prompts THEN s ELSE a.prompts
<1>1. phase \in Phase /\ status \in Status /\ prompts \in 0..Turns
  BY PhaseTyped, MachineAssumption DEF Status, Settled, Machine, Subtask
<1>. HIDE DEF phase, status, prompts
<1>2. [a EXCEPT !.task = "RUNNING", !.phase = phase, !.upd = at, !.termUpd = 0,
                !.hasTerm = FALSE, !.defTask = NoTask, !.defUpd = 0, !.confirmed = FALSE,
                !.status = status, !.prompts = prompts] \in Machine
  BY <1>1 DEF Machine, Execution
<1>. QED
  BY <1>2 DEF SendAccepted, phase, status, prompts

LEMMA FinalizedTyped ==
  ASSUME NEW msg \in Message, NEW task \in Terminal PROVE Finalized(msg, task) \in Message
<1>. DEFINE st == IF task = "COMPLETED" THEN "completed" ELSE "error"
<1>1. st \in {"completed", "error"}
  OBVIOUS
<1>. HIDE DEF st
<1>2. [msg EXCEPT !.st = st, !.sub = task] \in Message
  BY <1>1 DEF Message, Execution
<1>. QED
  BY <1>2 DEF Finalized, st

LEMMA StaleTyped ==
  ASSUME NEW msg \in Message, NEW sub \in RowStatus PROVE Stale(msg, sub) \in Message
<1>. DEFINE st == IF sub = "COMPLETED" THEN "completed" ELSE "error"
            known == IF sub = "absent" THEN msg.sub ELSE sub
<1>1. st \in {"completed", "error"} /\ known \in {NoTask, "PENDING"} \cup Execution
  BY DEF Message, RowStatus
<1>. HIDE DEF st, known
<1>2. [msg EXCEPT !.st = st, !.sub = known] \in Message
  BY <1>1 DEF Message
<1>. QED
  BY <1>2 DEF Stale, st, known

LEMMA LifecycleTyped ==
  ASSUME NEW a \in Machine, NEW task \in Execution, NEW at \in Nat
  PROVE  TaskLifecycle(a, task, at) \in Machine
<1>. DEFINE upd == IF at # 0 THEN at ELSE a.upd
            termUpd == IF upd # 0 THEN upd ELSE a.termUpd
            status == IF a.status \in Recovering THEN a.status ELSE "ready"
            msgs == [s \in Subtask |-> Finalized(a.msgs[s], task)]
            phase == PhaseFor(task, a.active # 0)
            deferred == [a EXCEPT !.defTask = task, !.defUpd = at]
            ended == [a EXCEPT !.task = task, !.phase = "terminal", !.active = 0, !.upd = upd,
                               !.termUpd = termUpd, !.hasTerm = TRUE, !.defTask = NoTask,
                               !.defUpd = 0, !.confirmed = FALSE, !.status = status,
                               !.msgs = msgs, !.chunks = <<>>]
            runs == [a EXCEPT !.task = task, !.phase = phase, !.upd = upd,
                              !.defTask = NoTask, !.defUpd = 0]
<1>1. \/ TaskLifecycle(a, task, at) = deferred /\ task \in Terminal
      \/ TaskLifecycle(a, task, at) = a
      \/ TaskLifecycle(a, task, at) = ended /\ task \in Terminal
      \/ TaskLifecycle(a, task, at) = runs
  BY DEF TaskLifecycle, TaskEnded, Deferred
<1>2. upd \in Nat /\ termUpd \in Nat /\ status \in Status /\ phase \in Phase
  BY PhaseTyped DEF Machine, Status, Settled
<1>3. task \in Terminal => msgs \in [Subtask -> Message]
  BY FinalizedTyped DEF Machine
<1>. HIDE DEF upd, termUpd, status, msgs, phase
<1>4. task \in Terminal => deferred \in Machine
  BY DEF Machine
<1>5. task \in Terminal => ended \in Machine
  <2>1. <<>> \in Seq([s : Subtask, p : Position]) /\ "terminal" \in Phase
    BY DEF Phase
  <2>. QED
    BY <1>2, <1>3, <2>1 DEF Machine
<1>6. runs \in Machine
  BY <1>2 DEF Machine
<1>. QED
  BY <1>1, <1>4, <1>5, <1>6

LEMMA AbsentTyped == ASSUME NEW a \in Machine PROVE StreamAbsent(a) \in Machine
<1>. DEFINE msgs == [s \in Subtask |-> Stale(a.msgs[s], "absent")]
            phase == PhaseFor(a.task, FALSE)
<1>1. msgs \in [Subtask -> Message] /\ phase \in Phase
  BY StaleTyped, PhaseTyped DEF Machine, RowStatus
<1>. HIDE DEF msgs, phase
<1>2. [a EXCEPT !.msgs = msgs, !.phase = phase, !.active = 0, !.status = "ready",
                !.confirmed = TRUE] \in Machine
  BY <1>1 DEF Machine, Status, Settled
<1>. QED
  BY <1>2 DEF StreamAbsent, msgs, phase

LEMMA RecoveryTyped ==
  ASSUME NEW a \in Machine
  PROVE  /\ EnterWaitingSocket(a) \in Machine /\ EnterJoining(a) \in Machine
         /\ EnterRecoveryError(a) \in Machine
         /\ \A full \in BOOLEAN, after \in Cursor :
              [a EXCEPT !.pend = [on |-> TRUE, full |-> full, after |-> after]] \in Machine
         /\ [a EXCEPT !.pend = NoRecovery] \in Machine
<1>1. EnterWaitingSocket(a) \in Machine
  BY DEF EnterWaitingSocket, Machine, Status, Recovering, Phase
<1>2. NoRecovery \in [on : BOOLEAN, full : BOOLEAN, after : Cursor]
  BY MachineAssumption DEF NoRecovery, NoCursor, Cursor
<1>3. [a EXCEPT !.pend = NoRecovery] \in Machine
  BY <1>2 DEF Machine
<1>4. EnterJoining(a) \in Machine
  <2>. DEFINE number == a.version + 1
  <2>1. number \in Nat
    BY DEF Machine
  <2>. HIDE DEF number
  <2>2. [a EXCEPT !.status = "joining", !.phase = "syncing", !.pend = NoRecovery,
                  !.version = number] \in Machine
    BY <1>2, <2>1 DEF Machine, Status, Recovering, Phase
  <2>. QED
    BY <2>2 DEF EnterJoining, number
<1>5. EnterRecoveryError(a) \in Machine
  BY StatusTyped DEF EnterRecoveryError, Status, Settled
<1>6. ASSUME NEW full \in BOOLEAN, NEW after \in Cursor
      PROVE [a EXCEPT !.pend = [on |-> TRUE, full |-> full, after |-> after]] \in Machine
  BY DEF Machine
<1>. QED
  BY <1>1, <1>3, <1>4, <1>5, <1>6

(***************************************************************************)
(* The answer of a join.                                                   *)
(***************************************************************************)
FromStream(snap, s) == IF snap.stream = s THEN snap.cached ELSE <<>>

LEMMA SnapshotParts ==
  ASSUME NEW snap \in Snapshot, NEW s \in Subtask
  PROVE  /\ snap.subs[s] \in RowStatus /\ snap.text[s] \in Text /\ snap.cached \in Text
         /\ snap.stream \in Stream /\ FromStream(snap, s) \in Text
<1>1. <<>> \in Text
  BY DEF Text
<1>. QED
  BY <1>1 DEF Snapshot, RowStatus, Text, Stream, FromStream

LEMMA BuiltTyped ==
  ASSUME NEW msg \in Message, NEW snap \in Snapshot, NEW s \in Subtask
  PROVE  Built(msg, snap, s) \in Message
<1>. DEFINE kept == msg.st = "error" /\ msg.err
            built == BuiltText(msg.text, snap.text[s], FromStream(snap, s))
            stored == Longer(snap.text[s], msg.text)
            failed == kept \/ snap.subs[s] = "FAILED"
            runs == IF kept THEN "error" ELSE "streaming"
            over == IF kept \/ snap.subs[s] # "COMPLETED" THEN "error" ELSE "completed"
<1>1. msg.text \in Text /\ snap.text[s] \in Text /\ FromStream(snap, s) \in Text
  BY SnapshotParts DEF Message, Text
<1>2. built \in Text /\ stored \in Text
  BY <1>1, LongerTyped DEF BuiltText
<1>3. kept \in BOOLEAN /\ failed \in BOOLEAN
      /\ runs \in {"error", "streaming"} /\ over \in {"error", "completed"}
  BY DEF Message
<1>4. Built(msg, snap, s) =
        CASE snap.subs[s] = "RUNNING" ->
               [st |-> runs, sub |-> "RUNNING", text |-> built, known |-> TRUE, err |-> kept]
          [] snap.subs[s] \in Terminal ->
               [st |-> over, sub |-> snap.subs[s], text |-> stored, known |-> TRUE, err |-> failed]
          [] OTHER -> msg
  BY DEF Built, FromStream
<1>. HIDE DEF kept, built, stored, failed, runs, over
<1>5. [st |-> runs, sub |-> "RUNNING", text |-> built, known |-> TRUE, err |-> kept] \in Message
  BY <1>2, <1>3 DEF Message, Execution, Text
<1>6. snap.subs[s] \in Terminal =>
        [st |-> over, sub |-> snap.subs[s], text |-> stored, known |-> TRUE, err |-> failed]
          \in Message
  BY <1>2, <1>3 DEF Message, Execution, Text
<1>. QED
  BY <1>4, <1>5, <1>6

LEMMA WithStreamTyped ==
  ASSUME NEW msg \in Message, NEW snap \in Snapshot, NEW s \in Subtask
  PROVE  WithStream(msg, snap, s) \in Message
<1>. DEFINE longer == Longer(snap.cached, msg.text)
<1>1. snap.cached \in Text /\ longer \in Text
  BY SnapshotParts, LongerTyped DEF Message, Text
<1>2. [msg EXCEPT !.st = "streaming", !.text = snap.cached] \in Message
  BY <1>1 DEF Message, Text
<1>. HIDE DEF longer
<1>3. [msg EXCEPT !.text = longer] \in Message
  BY <1>1 DEF Message, Text
<1>. QED
  BY <1>2, <1>3 DEF WithStream, longer

LEMMA SyncedMessagesTyped ==
  ASSUME NEW a \in Machine, NEW snap \in Snapshot
  PROVE  SyncedMessages(a, snap) \in [Subtask -> Message]
<1>. SUFFICES ASSUME NEW s \in Subtask
              PROVE  LET msg == WithStream(Built(a.msgs[s], snap, s), snap, s)
                     IN (IF snap.stream = 0 THEN Stale(msg, snap.subs[s]) ELSE msg) \in Message
  BY DEF SyncedMessages
<1>1. WithStream(Built(a.msgs[s], snap, s), snap, s) \in Message
  BY BuiltTyped, WithStreamTyped DEF Machine
<1>. QED
  BY <1>1, StaleTyped, SnapshotParts

LEMMA SubtaskNumbers == Subtask \subseteq Nat /\ Subtask \subseteq 0..Turns /\ Turns \in Nat
BY MachineAssumption DEF Subtask

LEMMA AppliedTyped ==
  ASSUME NEW a \in Machine, NEW snap \in Snapshot, NEW at \in Nat
  PROVE  SnapshotApplied(a, snap, at) \in Machine
<1>. DEFINE msgs == SyncedMessages(a, snap)
            streaming == StreamingSubtasks(msgs)
            told == {s \in Subtask : snap.subs[s] # "absent"}
            status == IF streaming = {} THEN "ready" ELSE "streaming"
            phase == PhaseFor(a.task, streaming # {})
            active == IF streaming = {} THEN 0 ELSE Min(streaming)
            stamp == IF at # 0 THEN at ELSE a.stamp
            confirmed == streaming = {}
            prompts == Max({a.prompts} \cup told)
<1>1. msgs \in [Subtask -> Message]
  BY SyncedMessagesTyped
<1>2. active \in {0} \cup Subtask
  <2>1. streaming \subseteq Subtask /\ streaming \subseteq Nat
    BY SubtaskNumbers DEF StreamingSubtasks
  <2>. HIDE DEF streaming
  <2>. QED
    BY <2>1, LeastOf
<1>3. prompts \in 0..Turns
  <2>. DEFINE known == {a.prompts} \cup told
  <2>1. known \subseteq 0..Turns /\ known # {}
    BY SubtaskNumbers DEF Machine
  <2>. HIDE DEF known
  <2>2. Max(known) \in known
    BY <2>1, SubtaskNumbers, GreatestOf
  <2>. QED
    BY <2>1, <2>2 DEF known
<1>4. /\ status \in Status /\ phase \in Phase /\ stamp \in Nat /\ confirmed \in BOOLEAN
  BY PhaseTyped DEF Status, Settled, Machine
<1>5. SnapshotApplied(a, snap, at) =
        [a EXCEPT !.joined = TRUE, !.msgs = msgs, !.status = status, !.phase = phase,
                  !.active = active, !.stamp = stamp, !.confirmed = confirmed,
                  !.prompts = prompts]
  BY DEF SnapshotApplied
<1>. HIDE DEF msgs, streaming, told, status, phase, active, stamp, confirmed, prompts
<1>. QED
  BY ZenonT(30), <1>1, <1>2, <1>3, <1>4, <1>5 DEF Machine

LEMMA MergedTyped ==
  ASSUME NEW t \in Text, NEW chunks \in Seq(Chunk), NEW s PROVE Merged(t, chunks, s) \in Text
<1>1. PICK f \in [0..Len(chunks) -> Text] : Merged(t, chunks, s) = f[Len(chunks)]
  BY MergedIs
<1>2. Len(chunks) \in 0..Len(chunks)
  OBVIOUS
<1>. QED
  BY <1>1, <1>2

\* The text of message s when the waiting chunks are applied.
MergedText(a, s) ==
  IF a.msgs[s].st = "streaming" THEN Merged(a.msgs[s].text, a.chunks, s) ELSE a.msgs[s].text

LEMMA PendingTyped ==
  ASSUME NEW a \in Machine
  PROVE  /\ ApplyPendingChunks(a) \in Machine
         /\ ApplyPendingChunks(a).chunks = <<>>
         /\ ApplyPendingChunks(a).status = a.status /\ ApplyPendingChunks(a).closed = a.closed
         /\ \A s \in Subtask : /\ ApplyPendingChunks(a).msgs[s].text = MergedText(a, s)
                               /\ ApplyPendingChunks(a).msgs[s].st = a.msgs[s].st
<1>. DEFINE live == {n \in DOMAIN a.chunks : a.msgs[a.chunks[n].s].st = "streaming"}
            msgs == [s \in Subtask |-> [a.msgs[s] EXCEPT !.text = MergedText(a, s)]]
            phase == IF live = {} THEN a.phase ELSE "streaming"
            active == IF live = {} THEN a.active ELSE a.chunks[Max(live)].s
<1>1. a.chunks \in Seq(Chunk) /\ a.msgs \in [Subtask -> Message]
  BY DEF Machine, Chunk
<1>2. \A s \in Subtask : MergedText(a, s) \in Text
  BY <1>1, MergedTyped DEF MergedText, Message, Text
<1>3. ASSUME NEW s \in Subtask
      PROVE  /\ [a.msgs[s] EXCEPT !.text = MergedText(a, s)] \in Message
             /\ [a.msgs[s] EXCEPT !.text = MergedText(a, s)].text = MergedText(a, s)
             /\ [a.msgs[s] EXCEPT !.text = MergedText(a, s)].st = a.msgs[s].st
  <2>1. a.msgs[s] \in Message /\ MergedText(a, s) \in Text
    BY <1>1, <1>2
  <2>. QED
    BY <2>1 DEF Message, Text
<1>4. msgs \in [Subtask -> Message]
  BY <1>3
<1>5. active \in {0} \cup Subtask
  <2>1. CASE live = {}
    BY <2>1 DEF Machine
  <2>2. CASE live # {}
    <3>1. Len(a.chunks) \in Nat /\ live \subseteq 0..Len(a.chunks)
      BY <1>1
    <3>. HIDE DEF live
    <3>2. Max(live) \in live
      BY <2>2, <3>1, GreatestOf
    <3>3. Max(live) \in DOMAIN a.chunks
      BY <3>2 DEF live
    <3>4. a.chunks[Max(live)] \in Chunk
      BY <1>1, <3>3
    <3>. QED
      BY <2>2, <3>4 DEF Chunk
  <2>. QED
    BY <2>1, <2>2
<1>6. phase \in Phase /\ <<>> \in Seq([s : Subtask, p : Position])
  BY DEF Phase, Machine
<1>7. ApplyPendingChunks(a) = [a EXCEPT !.msgs = msgs, !.phase = phase, !.active = active,
                                        !.chunks = <<>>]
  BY DEF ApplyPendingChunks, MergedText
<1>8. \A s \in Subtask : msgs[s].text = MergedText(a, s) /\ msgs[s].st = a.msgs[s].st
  BY <1>3
<1>. HIDE DEF live, msgs, phase, active
<1>. DEFINE b == [a EXCEPT !.msgs = msgs, !.phase = phase, !.active = active, !.chunks = <<>>]
<1>9. b \in Machine
  BY <1>4, <1>5, <1>6 DEF Machine
<1>10. b.msgs = msgs /\ b.chunks = <<>> /\ b.status = a.status /\ b.closed = a.closed
  BY DEF Machine
<1>. HIDE DEF b
<1>. QED
  BY <1>7, <1>8, <1>9, <1>10 DEF b

LEMMA SyncTyped ==
  ASSUME NEW a \in Machine, NEW snap \in Snapshot, NEW at \in Nat
  PROVE  Synced(a, snap, at) \in Machine
BY AppliedTyped, PendingTyped DEF Synced

(***************************************************************************)
(* Recovery and the steps of the tab.                                      *)
(***************************************************************************)
LEMMA CursorTyped ==
  ASSUME NEW a \in Machine, NEW ids, ids \subseteq KnownIds(a) PROVE LastOf(ids) \in Cursor
<1>. DEFINE N == 2 * Turns
<1>1. N \in Nat /\ NoCursor \in Cursor /\ 0..N \subseteq Cursor
  BY MachineAssumption DEF NoCursor, Cursor
<1>2. \A s \in Subtask : AnswerId(s) \in 0..N
  BY MachineAssumption DEF Subtask, AnswerId
<1>3. \A s \in 1..a.prompts : PromptId(s) \in 0..N
  BY MachineAssumption DEF PromptId, Machine
<1>4. KnownIds(a) \subseteq 0..N
  BY <1>2, <1>3 DEF KnownIds
<1>. HIDE DEF N
<1>5. CASE ids = {}
  BY <1>1, <1>5 DEF LastOf
<1>6. CASE ids # {}
  <2>1. ids \subseteq 0..N
    BY <1>4
  <2>2. Max(ids) \in ids
    BY <1>1, <1>6, <2>1, GreatestOf
  <2>. QED
    BY <1>1, <1>6, <2>1, <2>2 DEF LastOf
<1>. QED
  BY <1>5, <1>6

LEMMA CursorBeforeTyped == ASSUME NEW a \in Machine PROVE CursorBefore(a) \in Cursor
<1>. DEFINE streaming == {s \in Subtask : a.msgs[s].st = "streaming" /\ a.msgs[s].known}
            answers == IF a.active # 0
                       THEN IF a.msgs[a.active].known THEN {a.active} ELSE {}
                       ELSE streaming
            ids == {id \in KnownIds(a) : id < AnswerId(Min(answers))}
<1>1. LastOf(ids) \in Cursor
  <2>1. ids \subseteq KnownIds(a)
    OBVIOUS
  <2>. HIDE DEF ids
  <2>. QED
    BY <2>1, CursorTyped
<1>2. NoCursor \in Cursor
  BY MachineAssumption DEF NoCursor, Cursor
<1>3. CursorBefore(a) = IF answers = {} THEN NoCursor ELSE LastOf(ids)
  BY DEF CursorBefore
<1>. HIDE DEF answers, ids
<1>. QED
  BY <1>1, <1>2, <1>3

StepTyped(step) ==
  step.m \in Machine /\ (step.sent = <<>> \/ \E call \in Joins : step.sent = <<call>>)

LEMMA SilentTyped == ASSUME NEW a \in Machine PROVE StepTyped(Step(a, <<>>))
BY DEF StepTyped, Step

LEMMA RecoverTyped ==
  ASSUME NEW a \in Machine, NEW full \in BOOLEAN, NEW after \in Cursor, NEW upd \in Nat
  PROVE  StepTyped(Recover(a, full, after, upd))
<1>. DEFINE later == [a EXCEPT !.pend = [on |-> TRUE, full |-> full, after |-> after]]
            waits == EnterWaitingSocket(a)
            queued == [waits EXCEPT !.pend = [on |-> TRUE, full |-> full, after |-> after]]
            cursor == IF full THEN NoCursor
                      ELSE IF after # NoCursor THEN after ELSE LastOf(KnownIds(a))
            joining == EnterJoining(a)
            request == [type |-> "join", v |-> joining.version, after |-> cursor, upd |-> upd]
<1>1. later \in Machine /\ waits \in Machine /\ joining \in Machine
  BY RecoveryTyped
<1>2. queued \in Machine
  <2>. HIDE DEF waits
  <2>. QED
    BY <1>1, RecoveryTyped
<1>3. cursor \in Cursor
  <2>1. LastOf(KnownIds(a)) \in Cursor /\ NoCursor \in Cursor
    BY CursorTyped, MachineAssumption DEF NoCursor, Cursor
  <2>. QED
    BY <2>1
<1>4. joining.version \in Nat
  <2>. HIDE DEF joining
  <2>. QED
    BY <1>1 DEF Machine
<1>5. \/ Recover(a, full, after, upd) = Step(later, <<>>)
      \/ Recover(a, full, after, upd) = Step(queued, <<>>)
      \/ Recover(a, full, after, upd) = Step(joining, <<request>>)
  BY DEF Recover
<1>. HIDE DEF later, queued, joining, cursor
<1>6. request \in Joins
  BY <1>3, <1>4 DEF Joins
<1>. HIDE DEF request
<1>. QED
  BY <1>1, <1>2, <1>5, <1>6 DEF StepTyped, Step

LEMMA DispatchTyped == ASSUME NEW a \in Machine PROVE StepTyped(Dispatched(a))
<1>. DEFINE b == [a EXCEPT !.pend = NoRecovery]
<1>1. b \in Machine
  BY RecoveryTyped
<1>2. a.pend.full \in BOOLEAN /\ a.pend.after \in Cursor
  BY DEF Machine
<1>3. Dispatched(a) = Recover(b, a.pend.full, a.pend.after, 0) \/ Dispatched(a) = Step(a, <<>>)
  BY DEF Dispatched
<1>. HIDE DEF b
<1>. QED
  BY <1>1, <1>2, <1>3, RecoverTyped, SilentTyped

\* What a step of the tab leaves.
Tabbed == m' \in Machine /\ up' \in Seq(Calls) /\ conn'.on = conn.on /\ conn'.room = conn.room
          /\ conn' \in [on : BOOLEAN, room : BOOLEAN, joinedTask : BOOLEAN]

LEMMA PerformTyped ==
  ASSUME NEW step, NEW leaves, NEW refused, Typed,
         PerformAfter(step, leaves, refused), step.m \in Machine, step.sent \in Seq(Joins)
  PROVE  Tabbed
<1>. DEFINE left == IF leaves THEN <<[type |-> "leave"]>> ELSE <<>>
            set == IF ~conn.on THEN conn.joinedTask
                   ELSE step.sent # <<>> \/ (conn.joinedTask /\ ~leaves /\ ~refused)
<1>1. m' = step.m /\ up' = IF conn.on THEN (up \o left) \o step.sent ELSE up
  BY DEF PerformAfter
<1>2. up \in Seq(Calls) /\ left \in Seq(Calls) /\ step.sent \in Seq(Calls)
  <2>1. [type |-> "leave"] \in Calls /\ Joins \subseteq Calls /\ up \in Seq(Calls)
    BY DEF Typed, Calls
  <2>2. left \in Seq(Calls)
    BY <2>1
  <2>. DEFINE sent == step.sent
  <2>3. sent \in Seq(Joins)
    OBVIOUS
  <2>. HIDE DEF sent
  <2>4. sent \in Seq(Calls)
    BY <2>1, <2>3
  <2>. QED
    BY <2>1, <2>2, <2>4 DEF sent
<1>3. (up \o left) \o step.sent \in Seq(Calls)
  <2>. HIDE DEF left
  <2>. QED
    BY <1>2
<1>4. set \in BOOLEAN /\ conn \in [on : BOOLEAN, room : BOOLEAN, joinedTask : BOOLEAN]
  BY DEF Typed
<1>5. conn' = [conn EXCEPT !.joinedTask = set]
  BY DEF PerformAfter
<1>. HIDE DEF set, left
<1>. QED
  BY <1>1, <1>2, <1>3, <1>4, <1>5 DEF Tabbed

LEMMA StepPerforms ==
  ASSUME NEW step, NEW leaves, NEW refused, Typed,
         PerformAfter(step, leaves, refused), StepTyped(step)
  PROVE  Tabbed
<1>1. <<>> \in Seq(Joins) /\ \A call \in Joins : <<call>> \in Seq(Joins)
  OBVIOUS
<1>2. step.sent \in Seq(Joins) /\ step.m \in Machine
  BY <1>1, Zenon DEF StepTyped
<1>. QED
  BY <1>2, PerformTyped

LEMMA DeliveredTyped ==
  ASSUME NEW type, Typed, Deliver(type)
  PROVE  /\ Head(down) \in Events /\ Head(down).type = type
         /\ down # <<>> /\ down' = Tail(down) /\ down' \in Seq(Events)
<1>1. down \in Seq(Events) /\ down # <<>>
  BY DEF Typed, Deliver
<1>2. Head(down) \in Events /\ Tail(down) \in Seq(Events)
  BY <1>1
<1>. QED
  BY <1>1, <1>2 DEF Deliver

LEMMA ReducedTyped ==
  ASSUME NEW b \in Machine, Typed, Reduced(b) PROVE Tabbed
<1>1. PerformAfter(Dispatched(b), FALSE, FALSE)
  BY DEF Reduced, Perform
<1>. QED
  BY <1>1, DispatchTyped, StepPerforms

LEMMA EventTyped ==
  ASSUME Typed, DeliverStart \/ DeliverChunk \/ DeliverDone \/ DeliverError \/ DeliverCancelled
  PROVE  Tabbed /\ down' \in Seq(Events)
<1>. DEFINE e == Head(down)
<1>0. m \in Machine
  BY DEF Typed
<1>1. CASE DeliverStart
  <2>1. e \in Events /\ e.type = "start" /\ down' \in Seq(Events)
    BY <1>1, DeliveredTyped DEF DeliverStart
  <2>2. ChatStart(m, e.s) \in Machine
    BY <1>0, <2>1, EventKinds, StartTyped
  <2>. QED
    BY <1>1, <2>1, <2>2, ReducedTyped DEF DeliverStart
<1>2. CASE DeliverChunk
  <2>1. e \in Events /\ e.type = "chunk" /\ down' \in Seq(Events)
    BY <1>2, DeliveredTyped DEF DeliverChunk
  <2>2. ChatChunk(m, e.s, e.p) \in Machine
    BY <1>0, <2>1, EventKinds, ChunkTyped
  <2>. QED
    BY <1>2, <2>1, <2>2, ReducedTyped DEF DeliverChunk
<1>3. CASE DeliverDone
  <2>1. e \in Events /\ e.type = "done" /\ down' \in Seq(Events)
    BY <1>3, DeliveredTyped DEF DeliverDone
  <2>2. ChatDone(m, e.s) \in Machine
    BY <1>0, <2>1, EventKinds, DoneTyped
  <2>. QED
    BY <1>3, <2>1, <2>2, ReducedTyped DEF DeliverDone
<1>4. CASE DeliverError
  <2>1. e \in Events /\ e.type = "error" /\ down' \in Seq(Events)
    BY <1>4, DeliveredTyped DEF DeliverError
  <2>2. ChatError(m, e.s) \in Machine
    BY <1>0, <2>1, EventKinds, ErrorTyped
  <2>. QED
    BY <1>4, <2>1, <2>2, ReducedTyped DEF DeliverError
<1>5. CASE DeliverCancelled
  <2>1. e \in Events /\ e.type = "cancelled" /\ down' \in Seq(Events)
    BY <1>5, DeliveredTyped DEF DeliverCancelled
  <2>2. ChatCancelled(m, e.s) \in Machine
    BY <1>0, <2>1, EventKinds, CancelledTyped
  <2>. QED
    BY <1>5, <2>1, <2>2, ReducedTyped DEF DeliverCancelled
<1>. QED
  BY <1>1, <1>2, <1>3, <1>4, <1>5

\* A check or a detail that was read carries a status and a time.
LEMMA ReadKinds ==
  ASSUME Typed
  PROVE  /\ check.at = "read" => check.task \in Execution /\ check.upd \in Nat
                                 /\ check.reconnect \in BOOLEAN /\ check.stream \in Stream
         /\ detail.at = "read" => detail.task \in Execution /\ detail.upd \in Nat
<1>1. check \in Checks /\ detail \in Details
  BY DEF Typed
<1>2. check.at = "read" => check \in ReadChecks
  BY <1>1 DEF Checks
<1>3. detail.at = "read" => detail \in [at : {"read"}, task : Execution, upd : Nat]
  BY <1>1 DEF Details
<1>. QED
  BY <1>2, <1>3 DEF ReadChecks

LEMMA StatusStepTyped ==
  ASSUME Typed, DeliverStatus \/ DetailArrives
  PROVE  m' \in Machine /\ down' \in Seq(Events) /\ up' = up /\ conn' = conn
<1>0. m \in Machine /\ down \in Seq(Events)
  BY DEF Typed
<1>1. CASE DeliverStatus
  <2>. DEFINE e == Head(down)
  <2>1. e \in Events /\ e.type = "status" /\ down' \in Seq(Events)
    BY <1>1, DeliveredTyped DEF DeliverStatus
  <2>2. e.task \in Execution /\ e.upd \in Nat
    BY <2>1, EventKinds
  <2>3. TaskLifecycle(m, e.task, e.upd) \in Machine
    BY <1>0, <2>2, LifecycleTyped
  <2>. QED
    BY <1>0, <1>1, <2>1, <2>3 DEF DeliverStatus
<1>2. CASE DetailArrives
  <2>1. TaskLifecycle(m, detail.task, detail.upd) \in Machine
    BY <1>0, <1>2, ReadKinds, LifecycleTyped DEF DetailArrives
  <2>. QED
    BY <1>0, <1>2, <2>1 DEF DetailArrives
<1>. QED
  BY <1>1, <1>2

LEMMA ReplyTyped == ASSUME Typed, DeliverReply PROVE Tabbed /\ down' \in Seq(Events)
<1>. DEFINE e == Head(down)
            b == SendAccepted(m, e.s, srv.clock)
            st == Dispatched(b)
            told == conn.joinedTask \/ st.sent # <<>>
            plain == [type |-> "join", v |-> 0, after |-> NoCursor, upd |-> 0]
            new == [st EXCEPT !.sent = IF told THEN @ ELSE Append(@, plain)]
<1>1. e \in Events /\ e.type = "reply" /\ down' \in Seq(Events)
  BY DeliveredTyped DEF DeliverReply
<1>2. e.s \in Subtask /\ m \in Machine /\ srv.clock \in Nat
  BY <1>1, EventKinds DEF Typed, ServerTyped, Servers
<1>3. b \in Machine
  BY <1>2, AcceptedTyped
<1>4. PerformAfter(new, FALSE, FALSE)
  BY DEF DeliverReply, Perform
<1>5. DOMAIN st = {"m", "sent"}
  BY DEF Dispatched, Recover, Step
<1>. HIDE DEF b
<1>6. st.m \in Machine /\ (st.sent = <<>> \/ \E call \in Joins : st.sent = <<call>>)
  BY <1>3, DispatchTyped DEF StepTyped
<1>. HIDE DEF st
<1>7. plain \in Joins
  BY MachineAssumption DEF Joins, NoCursor, Cursor
<1>. HIDE DEF plain
<1>8. new.m = st.m /\ new.sent = IF told THEN st.sent ELSE <<plain>>
  <2>1. new.m = st.m /\ new.sent = IF told THEN st.sent ELSE Append(st.sent, plain)
    BY <1>5
  <2>2. ~told => st.sent = <<>>
    OBVIOUS
  <2>3. Append(<<>>, plain) = <<plain>>
    OBVIOUS
  <2>. QED
    BY <2>1, <2>2, <2>3
<1>9. StepTyped(new)
  BY <1>6, <1>7, <1>8 DEF StepTyped
<1>. HIDE DEF new
<1>. QED
  BY <1>1, <1>4, <1>9, StepPerforms

LEMMA AnswerTyped == ASSUME Typed, DeliverAnswer PROVE Tabbed /\ down' \in Seq(Events)
<1>. DEFINE answer == Head(down)
            upd == IF answer.upd # 0 THEN answer.upd ELSE m.upd
            current == ~m.closed /\ answer.v = m.version
            late == ~m.closed /\ answer.v >= m.since
            step == IF current THEN Dispatched(Answered(answer))
                    ELSE IF late THEN Dispatched(m) ELSE Step(m, <<>>)
<1>1. answer \in Events /\ answer.type = "answer" /\ down' \in Seq(Events)
  BY DeliveredTyped DEF DeliverAnswer
<1>2. /\ m \in Machine /\ upd \in Nat /\ answer.ok \in BOOLEAN
      /\ answer.ok => answer.snap \in Snapshot
  BY <1>1, EventKinds DEF Typed, Machine
<1>3. Answered(answer) \in Machine
  <2>1. answer.ok => Synced(m, answer.snap, upd) \in Machine
    BY <1>2, SyncTyped
  <2>2. EnterRecoveryError(m) \in Machine
    BY <1>2, RecoveryTyped
  <2>. QED
    BY <2>1, <2>2 DEF Answered
<1>4. StepTyped(step)
  BY <1>2, <1>3, DispatchTyped, SilentTyped
<1>5. PerformAfter(step, ~current, ~answer.ok)
  BY DEF DeliverAnswer
<1>. HIDE DEF step, current
<1>. QED
  BY <1>1, <1>4, <1>5, StepPerforms

LEMMA ReconcileTyped == ASSUME Typed, Reconcile PROVE Tabbed
<1>. DEFINE after == IF check.stream # 0 THEN NoCursor ELSE CursorBefore(m)
            known == TaskLifecycle(m, check.task, check.upd)
            step == Recover(known, check.reconnect, after, check.upd)
            idle == IF check.stream = 0 /\ check.task = "RUNNING"
                    THEN StreamAbsent(known) ELSE known
<1>1. /\ m \in Machine /\ check.task \in Execution /\ check.upd \in Nat
      /\ check.reconnect \in BOOLEAN
  BY ReadKinds DEF Typed, Reconcile
<1>2. known \in Machine
  BY <1>1, LifecycleTyped
<1>3. after \in Cursor
  BY <1>1, CursorBeforeTyped, MachineAssumption DEF NoCursor, Cursor
<1>. HIDE DEF known, after
<1>4. StepTyped(step)
  BY <1>1, <1>2, <1>3, RecoverTyped
<1>5. StepTyped(Step(EnterWaitingSocket(known), <<>>)) /\ StepTyped(Step(idle, <<>>))
  BY <1>2, RecoveryTyped, AbsentTyped, SilentTyped
<1>6. \/ PerformAfter(step, FALSE, FALSE)
      \/ PerformAfter(Step(EnterWaitingSocket(known), <<>>), FALSE, FALSE)
      \/ PerformAfter(Step(idle, <<>>), FALSE, FALSE)
  BY DEF Reconcile, Perform, known, after
<1>. HIDE DEF step, idle
<1>. QED
  BY <1>4, <1>5, <1>6, StepPerforms

LEMMA SelectionTyped == ASSUME Typed, Select \/ Deselect PROVE Tabbed
<1>0. m.version \in Nat /\ m.version + 1 \in Nat
  BY DEF Typed, Machine
<1>1. CASE Select
  <2>1. NoCursor \in Cursor /\ 0 \in Nat
    BY MachineAssumption DEF NoCursor, Cursor
  <2>2. StepTyped(Recover(Fresh(m.version, FALSE), FALSE, NoCursor, 0))
    BY <1>0, <2>1, FreshTyped, RecoverTyped
  <2>3. PerformAfter(Recover(Fresh(m.version, FALSE), FALSE, NoCursor, 0), FALSE, FALSE)
    BY <1>1 DEF Select, Perform
  <2>. QED
    BY <2>2, <2>3, StepPerforms
<1>2. CASE Deselect
  <2>1. StepTyped(Step(Fresh(m.version + 1, TRUE), <<>>))
    BY <1>0, FreshTyped, SilentTyped
  <2>2. PerformAfter(Step(Fresh(m.version + 1, TRUE), <<>>), TRUE, FALSE)
    BY <1>2 DEF Deselect, Perform
  <2>. QED
    BY <2>1, <2>2, StepPerforms
<1>. QED
  BY <1>1, <1>2

(***************************************************************************)
(* The server, the socket and the reads.                                   *)
(***************************************************************************)
ServerStays == DeliverStart \/ DeliverChunk \/ DeliverDone \/ DeliverError \/ DeliverCancelled
  \/ DeliverStatus \/ DeliverReply \/ DeliverAnswer \/ DropAnswer \/ DropEvent
  \/ DetailArrives \/ Reconcile \/ Probe \/ Select \/ Deselect \/ BecomeVisible
  \/ Receive \/ DetailRead \/ CheckRead \/ Reconnect \/ CheckFails
  \/ \E j \in joins : Enter(j) \/ ReadStream(j) \/ ReadSubtasks(j) \/ Answer(j) \/ Refuse(j)

LEMMA ServerLeft == ASSUME ServerStays \/ UNCHANGED vars PROVE srv' = srv
BY DEF ServerStays, vars, DeliverStart, DeliverChunk, DeliverDone, DeliverError, DeliverCancelled,
       Reduced, DeliverStatus, DeliverReply, DeliverAnswer, DropAnswer, DropEvent, DetailArrives,
       Reconcile, Probe, Select, Deselect, BecomeVisible, Receive, DetailRead, CheckRead, Enter,
       ReadStream, ReadSubtasks, Answer, Reconnect, CheckFails, Refuse

Turning == Send \/ Disconnect \/ Reply \/ Begin \/ Start \/ Produce \/ Persist \/ Tell

LEMMA TurningOrNot == ASSUME [Next]_vars PROVE Turning \/ ServerStays \/ UNCHANGED vars
BY DEF Next, Tab, User, Server, Network, Turning, ServerStays

LEMMA ServerFields ==
  ASSUME srv \in Servers
  PROVE  /\ srv.task \in Execution /\ srv.clock \in Nat /\ srv.upd \in Nat
         /\ srv.turn \in Subtask /\ srv.redis \in Stream /\ srv.told \in 0..Turns
         /\ srv.reply \in BOOLEAN /\ srv.sub \in [Subtask -> RowStatus]
         /\ srv.out \in [Subtask -> 0..Length]
BY DEF Servers

\* The task gets a new row, a row another status, an answer another chunk.
LEMMA RowTyped ==
  ASSUME srv \in Servers, NEW s \in Subtask, NEW status \in RowStatus
  PROVE  /\ [srv EXCEPT !.sub[s] = status] \in Servers
         /\ [srv EXCEPT !.sub[s] = status].sub = [srv.sub EXCEPT ![s] = status]
<1>. DEFINE sub == [srv.sub EXCEPT ![s] = status]
<1>1. sub \in [Subtask -> RowStatus]
  BY ServerFields
<1>. HIDE DEF sub
<1>2. [srv EXCEPT !.sub = sub] \in Servers /\ [srv EXCEPT !.sub = sub].sub = sub
  BY <1>1 DEF Servers
<1>. QED
  BY <1>2 DEF sub

LEMMA OutTyped ==
  ASSUME srv \in Servers, NEW s \in Subtask, srv.out[s] < Length
  PROVE  [srv EXCEPT !.out[s] = @ + 1] \in Servers
<1>. DEFINE out == [srv.out EXCEPT ![s] = @ + 1]
<1>1. srv.out[s] + 1 \in 0..Length
  BY ServerFields, MachineAssumption
<1>2. out \in [Subtask -> 0..Length]
  BY <1>1, ServerFields
<1>. HIDE DEF out
<1>3. [srv EXCEPT !.out = out] \in Servers
  BY <1>2 DEF Servers
<1>. QED
  BY <1>3 DEF out

LEMMA ServerTypedNext == ASSUME Typed, [Next]_vars PROVE ServerTyped'
<1>0. srv \in Servers /\ srv.told <= srv.turn /\ srv.upd <= srv.clock
  BY DEF Typed, ServerTyped
<1>f. /\ srv.task \in Execution /\ srv.clock \in Nat /\ srv.upd \in Nat
      /\ srv.turn \in Subtask /\ srv.redis \in Stream /\ srv.told \in 0..Turns
  BY <1>0, ServerFields
<1>1. CASE Send
  <2>. DEFINE next == srv.turn + 1
              time == srv.clock + 1
              a == [srv EXCEPT !.sub[next] = "PENDING"]
              b == [a EXCEPT !.turn = next, !.task = "RUNNING", !.clock = time,
                             !.upd = time, !.reply = TRUE]
  <2>1. next \in Subtask /\ time \in Nat /\ srv.told <= next
    BY <1>0, <1>1, <1>f, MachineAssumption DEF Send, Subtask
  <2>2. srv' = [srv EXCEPT !.turn = next, !.sub[next] = "PENDING", !.task = "RUNNING",
                           !.clock = time, !.upd = time, !.reply = TRUE]
    BY <1>1 DEF Send
  <2>. HIDE DEF next, time
  <2>3. a \in Servers /\ a.told = srv.told
    BY <1>0, <2>1, RowTyped DEF RowStatus, Servers
  <2>4. srv' = b
    BY <1>0, <2>2 DEF Servers
  <2>. HIDE DEF a
  <2>5. b \in Servers /\ b.told = a.told /\ b.turn = next /\ b.upd = time /\ b.clock = time
    BY <2>1, <2>3 DEF Servers, Execution
  <2>. QED
    BY <2>1, <2>3, <2>4, <2>5 DEF ServerTyped
<1>2. CASE Disconnect \/ Reply
  <2>1. srv' = [srv EXCEPT !.reply = FALSE]
    BY <1>2 DEF Disconnect, Reply
  <2>. QED
    BY <1>0, <2>1 DEF ServerTyped, Servers
<1>3. CASE Begin
  <2>1. srv' = [srv EXCEPT !.sub[srv.turn] = "RUNNING"] /\ srv' \in Servers
    BY <1>0, <1>3, <1>f, RowTyped DEF Begin, RowStatus, Execution
  <2>. QED
    BY <1>0, <2>1 DEF ServerTyped, Servers
<1>4. CASE Start
  <2>1. srv' = [srv EXCEPT !.redis = srv.turn]
    BY <1>4 DEF Start
  <2>. QED
    BY <1>0, <1>f, <2>1 DEF ServerTyped, Servers, Stream
<1>5. CASE Produce
  <2>1. srv' = [srv EXCEPT !.out[srv.turn] = @ + 1] /\ srv' \in Servers
    BY <1>0, <1>5, <1>f, OutTyped DEF Produce
  <2>. QED
    BY <1>0, <2>1 DEF ServerTyped, Servers
<1>6. CASE Persist
  <2>1. PICK task \in Outcomes :
          srv' = [srv EXCEPT !.sub[srv.turn] = task, !.task = task, !.clock = @ + 1,
                             !.upd = srv.clock + 1, !.redis = 0]
    BY <1>6 DEF Persist
  <2>. DEFINE time == srv.clock + 1
              a == [srv EXCEPT !.sub[srv.turn] = task]
              b == [a EXCEPT !.task = task, !.clock = time, !.upd = time, !.redis = 0]
  <2>2. task \in Terminal /\ task \in RowStatus /\ time \in Nat
    BY <1>f, SessionAssumption DEF RowStatus, Execution
  <2>3. a \in Servers /\ a.told = srv.told /\ a.turn = srv.turn
    BY <1>0, <1>f, <2>2, RowTyped DEF Servers
  <2>. HIDE DEF time
  <2>4. srv' = b
    BY <1>0, <2>1 DEF Servers, time
  <2>. HIDE DEF a
  <2>5. b \in Servers /\ b.told = a.told /\ b.turn = a.turn /\ b.upd = time /\ b.clock = time
    BY <2>2, <2>3 DEF Servers, Execution, Stream
  <2>. QED
    BY <1>0, <2>2, <2>3, <2>4, <2>5 DEF ServerTyped
<1>7. CASE Tell
  <2>. DEFINE s == srv.told + 1
              time == srv.clock + 1
  <2>1. srv' = [srv EXCEPT !.told = s, !.clock = time] /\ s <= srv.turn
    BY <1>7 DEF Tell
  <2>2. s \in 0..Turns /\ time \in Nat /\ srv.upd <= time
    BY <1>0, <1>f, <2>1, MachineAssumption DEF Subtask
  <2>. HIDE DEF s, time
  <2>. QED
    BY <1>0, <2>1, <2>2 DEF ServerTyped, Servers
<1>8. CASE ServerStays \/ UNCHANGED vars
  BY <1>0, <1>8, ServerLeft DEF ServerTyped
<1>. QED
  BY <1>1, <1>2, <1>3, <1>4, <1>5, <1>6, <1>7, <1>8, TurningOrNot DEF Turning

LEMMA ActiveStreamTyped == ASSUME srv \in Servers PROVE ActiveStream \in Stream
<1>. DEFINE running == {s \in Subtask : srv.sub[s] = "RUNNING"}
<1>1. running \subseteq Subtask /\ running \subseteq 0..Turns
  BY SubtaskNumbers
<1>. HIDE DEF running
<1>2. running # {} => Max(running) \in Subtask
  BY <1>1, SubtaskNumbers, GreatestOf
<1>. QED
  BY <1>2, ServerFields DEF ActiveStream, Stream, running

\* A part of the answer.
IsPart(t) == \A i \in DOMAIN t : t[i] = i

LEMMA PartOfWhole ==
  ASSUME NEW n \in 0..Length
  PROVE  Cut(Whole, n) \in Text /\ Len(Cut(Whole, n)) = n /\ IsPart(Cut(Whole, n))
<1>1. Whole \in Seq(Position) /\ Len(Whole) = Length /\ Length \in Nat
  BY WholeText, MachineAssumption DEF Text
<1>2. \A i \in 1..Length : Whole[i] = i
  BY DEF Whole, Position
<1>3. Cut(Whole, n) = SubSeq(Whole, 1, n)
  BY DEF Cut
<1>4. SubSeq(Whole, 1, n) \in Seq(Position) /\ Len(SubSeq(Whole, 1, n)) = n
  BY <1>1
<1>5. \A i \in 1..n : SubSeq(Whole, 1, n)[i] = i
  BY <1>1, <1>2
<1>. QED
  BY <1>3, <1>4, <1>5 DEF Text, IsPart

LEMMA HandlerKinds ==
  ASSUME NEW j \in Handlers
  PROVE  /\ j.v \in Nat /\ j.upd \in Nat
         /\ j.at \in {"received", "entered", "stream"} => j.after \in Cursor
         /\ j.at \in {"received", "entered"} => j \in Arrived
         /\ j.at = "stream" => j.stream \in Stream
         /\ j.at = "rows" => j \in Loaded
BY DEF Handlers, Arrived, Looking, Loaded

LEMMA ToRoomTyped ==
  ASSUME NEW e \in Events, Typed PROVE ToRoom(<<e>>) \in Seq(Events)
<1>1. down \in Seq(Events) /\ <<e>> \in Seq(Events)
  BY DEF Typed
<1>2. down \o <<e>> \in Seq(Events)
  BY <1>1
<1>. QED
  BY <1>1, <1>2 DEF ToRoom

LEMMA EventMade ==
  ASSUME NEW s \in Subtask, NEW type \in {"start", "done", "error", "cancelled", "reply"}
  PROVE  Event(type, s) \in Events /\ Event(type, s) = [type |-> type, s |-> s]
BY DEF Event, Events, TurnEvents

\* What a join handler answers.
Snap(j, flushed) == [subs |-> j.subs, text |-> j.text, stream |-> j.stream,
                     cached |-> Cut(Whole, flushed)]

LEMMA SnapTyped ==
  ASSUME NEW j \in Loaded, NEW n \in 0..Length
  PROVE  /\ Snap(j, n) \in Snapshot /\ Snap(j, n).cached = Cut(Whole, n)
         /\ Snap(j, n).text = j.text /\ Snap(j, n).stream = j.stream
<1>. DEFINE cached == Cut(Whole, n)
<1>1. cached \in Text
  BY PartOfWhole
<1>2. j.subs \in [Subtask -> RowStatus] /\ j.text \in [Subtask -> Text] /\ j.stream \in Stream
  BY DEF Loaded
<1>. HIDE DEF cached
<1>. DEFINE snap == [subs |-> j.subs, text |-> j.text, stream |-> j.stream, cached |-> cached]
<1>3. snap \in Snapshot
  BY <1>1, <1>2 DEF Snapshot, RowStatus, Text, Stream
<1>4. Snap(j, n) = snap
  BY DEF Snap, cached
<1>. QED
  BY <1>3, <1>4 DEF cached

\* The answer of a handler.
LEMMA AnswerMade ==
  ASSUME NEW j \in joins, Typed, Answer(j)
  PROVE  \E n \in 0..Length :
           /\ j.stream # 0 => n <= srv.out[j.stream]
           /\ j.stream = 0 => n = 0
           /\ [type |-> "answer", v |-> j.v, upd |-> j.upd, ok |-> TRUE, snap |-> Snap(j, n)]
                \in Snapshots
           /\ down' = Append(down, [type |-> "answer", v |-> j.v, upd |-> j.upd, ok |-> TRUE,
                                    snap |-> Snap(j, n)])
<1>. DEFINE bound == IF j.stream # 0 /\ srv.redis = j.stream THEN srv.out[j.stream] ELSE 0
<1>1. j \in Handlers /\ j.at = "rows" /\ j \in Loaded
  BY HandlerKinds DEF Typed, Answer
<1>2. /\ bound \in 0..Length /\ (j.stream = 0 => bound = 0)
      /\ (j.stream # 0 => srv.out[j.stream] \in Nat /\ bound <= srv.out[j.stream])
  <2>1. j.stream \in Stream /\ srv.out \in [Subtask -> 0..Length] /\ Length \in Nat
    BY <1>1, ServerFields, MachineAssumption DEF Loaded, Typed, ServerTyped
  <2>2. j.stream # 0 => srv.out[j.stream] \in 0..Length
    BY <2>1 DEF Stream
  <2>. QED
    BY <2>1, <2>2
<1>3. PICK n \in 0..bound :
        down' = Append(down, [type |-> "answer", v |-> j.v, upd |-> j.upd, ok |-> TRUE,
                              snap |-> [subs |-> j.subs, text |-> j.text, stream |-> j.stream,
                                        cached |-> Cut(Whole, n)]])
  BY DEF Answer
<1>4. n \in 0..Length /\ (j.stream # 0 => n <= srv.out[j.stream]) /\ (j.stream = 0 => n = 0)
  BY <1>2, MachineAssumption
<1>5. Snap(j, n) \in Snapshot /\ j.v \in Nat /\ j.upd \in Nat
  BY <1>1, <1>4, SnapTyped, HandlerKinds
<1>6. [type |-> "answer", v |-> j.v, upd |-> j.upd, ok |-> TRUE, snap |-> Snap(j, n)]
        \in Snapshots
  BY <1>5 DEF Snapshots
<1>. QED
  BY <1>3, <1>4, <1>6 DEF Snap

Quiet == Probe \/ Select \/ Deselect \/ BecomeVisible \/ Send \/ Reconcile \/ DetailArrives
  \/ Receive \/ DetailRead \/ CheckRead \/ Begin \/ Persist \/ Reconnect \/ CheckFails
  \/ \E j \in joins : Enter(j) \/ ReadStream(j) \/ ReadSubtasks(j)

Taken == DeliverStart \/ DeliverChunk \/ DeliverDone \/ DeliverError \/ DeliverCancelled
         \/ DeliverStatus \/ DeliverReply \/ DeliverAnswer \/ DropAnswer \/ DropEvent

Put == Reply \/ Start \/ Produce \/ Tell \/ \E j \in joins : Answer(j) \/ Refuse(j)

LEMMA QuietOrNot == ASSUME [Next]_vars PROVE Quiet \/ Taken \/ Put \/ Disconnect \/ UNCHANGED vars
BY DEF Next, Tab, User, Server, Network, Quiet, Taken, Put

LEMMA QuietKeeps == ASSUME Quiet \/ UNCHANGED vars PROVE down' = down
BY DEF Quiet, vars, Probe, Select, Deselect, BecomeVisible, Send, Reconcile, DetailArrives,
       Receive, DetailRead, CheckRead, Begin, Persist, Reconnect, CheckFails, Enter,
       ReadStream, ReadSubtasks

LEMMA TakenTakes == ASSUME Taken PROVE down # <<>> /\ down' = Tail(down)
BY DEF Taken, DeliverStart, DeliverChunk, DeliverDone, DeliverError, DeliverCancelled,
       DeliverStatus, DeliverReply, DeliverAnswer, DropAnswer, DropEvent, Deliver

\* The end of a turn, and the status that follows it.
EndType(s) == CASE srv.sub[s] = "COMPLETED" -> "done" [] srv.sub[s] = "FAILED" -> "error"
                [] OTHER -> "cancelled"

LEMMA TellMade ==
  ASSUME Typed, Tell
  PROVE  \E s \in Subtask, status \in StatusEvents :
           /\ srv.sub[s] \in Terminal /\ EndType(s) \in {"done", "error", "cancelled"}
           /\ EndType(s) = "done" => srv.sub[s] = "COMPLETED"
           /\ down' = IF conn.on THEN Append(ToRoom(<<Event(EndType(s), s)>>), status) ELSE down
<1>. DEFINE s == srv.told + 1
            status == [type |-> "status", task |-> srv.sub[s], upd |-> srv.clock + 1]
<1>1. s \in Subtask /\ srv.clock \in Nat
  <2>1. srv.told \in 0..Turns /\ srv.turn \in Subtask /\ s <= srv.turn /\ srv.clock \in Nat
    BY ServerFields DEF Typed, ServerTyped, Tell
  <2>. QED
    BY <2>1, MachineAssumption DEF Subtask
<1>2. srv.sub[s] \in Terminal
      /\ down' = IF ~conn.on THEN down ELSE Append(ToRoom(<<Event(EndType(s), s)>>), status)
  BY DEF Tell, EndType
<1>3. status \in StatusEvents
  BY <1>1, <1>2 DEF StatusEvents, Execution
<1>4. EndType(s) \in {"done", "error", "cancelled"}
      /\ (EndType(s) = "done" => srv.sub[s] = "COMPLETED")
  BY <1>2 DEF EndType, Terminal
<1>. HIDE DEF s, status
<1>. QED
  BY <1>1, <1>2, <1>3, <1>4

LEMMA DownTyped == ASSUME Typed, [Next]_vars PROVE down' \in Seq(Events)
<1>0. down \in Seq(Events) /\ srv.turn \in Subtask /\ srv \in Servers
  BY ServerFields DEF Typed, ServerTyped
<1>1. CASE Reply
  <2>1. Event("reply", srv.turn) \in Events
    BY <1>0, EventMade
  <2>. QED
    BY <1>0, <1>1, <2>1 DEF Reply
<1>2. CASE Start
  BY <1>0, <1>2, EventMade, ToRoomTyped DEF Start
<1>3. CASE Produce
  <2>. DEFINE e == [type |-> "chunk", s |-> srv.turn, p |-> srv.out[srv.turn] + 1]
  <2>1. srv.out[srv.turn] + 1 \in Position
    BY <1>0, <1>3, ServerFields, MachineAssumption DEF Produce, Position
  <2>2. e \in Events
    BY <1>0, <2>1 DEF Events, ChunkEvents
  <2>3. down' = ToRoom(<<e>>)
    BY <1>3 DEF Produce
  <2>. HIDE DEF e
  <2>. QED
    BY <2>2, <2>3, ToRoomTyped
<1>4. CASE Tell
  <2>1. PICK s \in Subtask, status \in StatusEvents :
          /\ EndType(s) \in {"done", "error", "cancelled"}
          /\ down' = IF conn.on THEN Append(ToRoom(<<Event(EndType(s), s)>>), status) ELSE down
    BY <1>4, TellMade
  <2>2. ToRoom(<<Event(EndType(s), s)>>) \in Seq(Events) /\ status \in Events
    BY <2>1, EventMade, ToRoomTyped DEF Events
  <2>. QED
    BY <1>0, <2>1, <2>2
<1>5. CASE \E j \in joins : Answer(j)
  <2>1. PICK e \in Snapshots : down' = Append(down, e)
    BY <1>5, AnswerMade
  <2>. QED
    BY <1>0, <2>1 DEF Events
<1>6. CASE \E j \in joins : Refuse(j)
  <2>1. PICK j \in joins : Refuse(j)
    BY <1>6
  <2>. DEFINE e == [type |-> "answer", v |-> j.v, upd |-> 0, ok |-> FALSE]
  <2>2. e \in Events
    BY HandlerKinds DEF Typed, Events, Refusals
  <2>3. down' = Append(down, e)
    BY <2>1 DEF Refuse
  <2>. HIDE DEF e
  <2>. QED
    BY <1>0, <2>2, <2>3
<1>7. CASE Quiet \/ UNCHANGED vars
  BY <1>0, <1>7, QuietKeeps
<1>8. CASE Taken
  BY <1>0, <1>8, TakenTakes
<1>9. CASE Disconnect
  BY <1>9 DEF Disconnect
<1>. QED
  BY <1>1, <1>2, <1>3, <1>4, <1>5, <1>6, <1>7, <1>8, <1>9, QuietOrNot DEF Put

LEMMA CallKinds ==
  ASSUME NEW call \in Calls
  PROVE  call.type = "leave" \/ call \in Joins
BY DEF Calls

LEMMA JoinsTyped == ASSUME Typed, [Next]_vars PROVE joins' \subseteq Handlers
<1>0. joins \subseteq Handlers /\ ActiveStream \in Stream
  BY ActiveStreamTyped DEF Typed, ServerTyped
<1>1. CASE Receive
  <2>. DEFINE call == Head(up)
              j == [at |-> "received", v |-> call.v, after |-> call.after, upd |-> call.upd]
  <2>1. call \in Calls
    BY <1>1 DEF Receive, Typed
  <2>2. call.type # "leave" => j \in Arrived
    BY <2>1, CallKinds DEF Joins, Arrived
  <2>3. joins' = joins \/ (call.type # "leave" /\ joins' = joins \cup {j})
    BY <1>1 DEF Receive
  <2>. HIDE DEF j
  <2>. QED
    BY <1>0, <2>2, <2>3 DEF Handlers
<1>2. CASE \E j \in joins : Enter(j)
  <2>1. PICK j \in joins : Enter(j)
    BY <1>2
  <2>2. j \in Arrived
    BY <1>0, <2>1, HandlerKinds DEF Enter
  <2>3. [j EXCEPT !.at = "entered"] \in Arrived
    BY <2>2 DEF Arrived
  <2>. QED
    BY <1>0, <2>1, <2>3 DEF Enter, Handlers
<1>3. CASE \E j \in joins : ReadStream(j)
  <2>1. PICK j \in joins : ReadStream(j)
    BY <1>3
  <2>. DEFINE k == [at |-> "stream", v |-> j.v, after |-> j.after, upd |-> j.upd,
                    stream |-> ActiveStream]
  <2>2. k \in Looking
    BY <1>0, <2>1, HandlerKinds DEF ReadStream, Looking
  <2>3. joins' = (joins \ {j}) \cup {k}
    BY <2>1 DEF ReadStream
  <2>. HIDE DEF k
  <2>. QED
    BY <1>0, <2>2, <2>3 DEF Handlers
<1>4. CASE \E j \in joins : ReadSubtasks(j)
  <2>1. PICK j \in joins : ReadSubtasks(j)
    BY <1>4
  <2>. DEFINE Sub(s) == IF AnswerId(s) > j.after THEN srv.sub[s] ELSE "absent"
              subs == [s \in Subtask |-> Sub(s)]
              text == [s \in Subtask |-> Stored(s)]
              k == [at |-> "rows", v |-> j.v, upd |-> j.upd, stream |-> j.stream,
                    subs |-> subs, text |-> text]
  <2>2. j.v \in Nat /\ j.upd \in Nat /\ j.stream \in Stream
    BY <1>0, <2>1, HandlerKinds DEF ReadSubtasks
  <2>3. srv.sub \in [Subtask -> RowStatus] /\ srv.out \in [Subtask -> 0..Length]
    BY ServerFields DEF Typed, ServerTyped
  <2>4. subs \in [Subtask -> RowStatus]
    BY <2>3 DEF RowStatus
  <2>5. text \in [Subtask -> Text]
    <3>. SUFFICES ASSUME NEW s \in Subtask PROVE Stored(s) \in Text
      OBVIOUS
    <3>1. (IF srv.sub[s] \in Terminal THEN srv.out[s] ELSE 0) \in 0..Length
      BY <2>3, MachineAssumption
    <3>. QED
      BY <3>1, PartOfWhole DEF Stored
  <2>6. joins' = (joins \ {j}) \cup {k}
    BY <2>1 DEF ReadSubtasks
  <2>. HIDE DEF subs, text
  <2>7. k \in Loaded
    BY <2>2, <2>4, <2>5 DEF Loaded
  <2>. HIDE DEF k
  <2>. QED
    BY <1>0, <2>6, <2>7 DEF Handlers
<1>5. CASE \E j \in joins : Answer(j) \/ Refuse(j)
  BY <1>0, <1>5 DEF Answer, Refuse
<1>6. CASE Disconnect
  BY <1>6 DEF Disconnect
<1>7. ~(Receive \/ Disconnect
        \/ \E j \in joins : \/ Enter(j) \/ ReadStream(j) \/ ReadSubtasks(j)
                            \/ Answer(j) \/ Refuse(j)) => joins' = joins
  BY DEF Next, Tab, User, Server, Network, vars, DeliverStart, DeliverChunk, DeliverDone,
         DeliverError, DeliverCancelled, Reduced, DeliverStatus, DeliverReply, DeliverAnswer,
         DropAnswer, DropEvent, DetailArrives, Reconcile, Probe, Select, Deselect, BecomeVisible,
         Send, DetailRead, CheckRead, Reply, Begin, Start, Produce, Persist, Tell, Reconnect,
         CheckFails
<1>. QED
  BY <1>0, <1>1, <1>2, <1>3, <1>4, <1>5, <1>6, <1>7

\* The number of the join that a recovery sends is a number.
LEMMA SentNumber ==
  ASSUME NEW step, StepTyped(step), step.sent # <<>> PROVE step.sent[1].v \in Nat
<1>1. PICK call \in Joins : step.sent = <<call>>
  BY Zenon DEF StepTyped
<1>2. <<call>>[1] = call
  OBVIOUS
<1>. QED
  BY <1>1, <1>2 DEF Joins

LEMMA IdleChecks == /\ [at |-> "idle"] \in Checks
                    /\ \A v \in Nat : [at |-> "joining", v |-> v] \in Checks
                    /\ \A b \in BOOLEAN : [at |-> "asked", reconnect |-> b] \in Checks
BY DEF Checks

LEMMA CheckTyped == ASSUME Typed, [Next]_vars PROVE check' \in Checks
<1>0. check \in Checks /\ m \in Machine
  BY DEF Typed
<1>1. CASE CheckRead
  <2>. DEFINE now == [at |-> "read", reconnect |-> check.reconnect, task |-> srv.task,
                      upd |-> srv.upd, stream |-> ActiveStream]
  <2>1. check.at = "asked" => check.reconnect \in BOOLEAN
    BY <1>0 DEF Checks, ReadChecks
  <2>2. srv.task \in Execution /\ srv.upd \in Nat /\ ActiveStream \in Stream
    BY ServerFields, ActiveStreamTyped DEF Typed, ServerTyped
  <2>3. now \in ReadChecks
    BY <1>1, <2>1, <2>2 DEF CheckRead, ReadChecks
  <2>4. check' = now
    BY <1>1 DEF CheckRead
  <2>. HIDE DEF now
  <2>. QED
    BY <2>3, <2>4 DEF Checks
<1>2. CASE DeliverAnswer
  <2>. DEFINE answer == Head(down)
              current == ~m.closed /\ answer.v = m.version
              late == ~m.closed /\ answer.v >= m.since
              step == IF current THEN Dispatched(Answered(answer))
                      ELSE IF late THEN Dispatched(m) ELSE Step(m, <<>>)
  <2>1. check' = CheckAfterJoin(answer.v, step.sent)
    BY <1>2 DEF DeliverAnswer
  <2>2. answer \in Events /\ answer.type = "answer"
    BY <1>2, DeliveredTyped DEF DeliverAnswer
  <2>3. Answered(answer) \in Machine
    <3>. DEFINE upd == IF answer.upd # 0 THEN answer.upd ELSE m.upd
    <3>1. upd \in Nat /\ answer.ok \in BOOLEAN /\ (answer.ok => answer.snap \in Snapshot)
      BY <1>0, <2>2, EventKinds DEF Machine
    <3>2. answer.ok => Synced(m, answer.snap, upd) \in Machine
      BY <1>0, <3>1, SyncTyped
    <3>. QED
      BY <1>0, <3>1, <3>2, RecoveryTyped DEF Answered
  <2>4. StepTyped(step)
    BY <1>0, <2>3, DispatchTyped, SilentTyped
  <2>. HIDE DEF step
  <2>5. CASE check.at = "joining" /\ step.sent # <<>>
    <3>1. check \in [at : {"joining"}, v : Nat]
      BY <1>0, <2>5 DEF Checks, ReadChecks
    <3>2. step.sent[1].v \in Nat
      BY <2>4, <2>5, SentNumber
    <3>3. [check EXCEPT !.v = step.sent[1].v] \in [at : {"joining"}, v : Nat]
      BY <3>1, <3>2
    <3>. QED
      BY <1>0, <2>1, <3>3, IdleChecks DEF CheckAfterJoin, Checks
  <2>6. CASE ~(check.at = "joining" /\ step.sent # <<>>)
    BY <1>0, <2>1, <2>6, IdleChecks DEF CheckAfterJoin
  <2>. QED
    BY <2>5, <2>6
<1>3. CASE Reconcile
  <2>. DEFINE after == IF check.stream # 0 THEN NoCursor ELSE CursorBefore(m)
              known == TaskLifecycle(m, check.task, check.upd)
              step == Recover(known, check.reconnect, after, check.upd)
  <2>1. /\ check.task \in Execution /\ check.upd \in Nat /\ check.reconnect \in BOOLEAN
        /\ after \in Cursor
    BY <1>0, <1>3, ReadKinds, CursorBeforeTyped, MachineAssumption DEF Reconcile, NoCursor, Cursor
  <2>2. known \in Machine
    BY <1>0, <2>1, LifecycleTyped
  <2>3. StepTyped(step)
    <3>. HIDE DEF known, after
    <3>. QED
      BY <2>1, <2>2, RecoverTyped
  <2>4. \/ check' = [at |-> "idle"]
        \/ step.sent # <<>> /\ check' = [at |-> "joining", v |-> step.sent[1].v]
    BY <1>3 DEF Reconcile
  <2>. HIDE DEF step
  <2>. QED
    BY <2>3, <2>4, SentNumber, IdleChecks
<1>4. CASE BecomeVisible \/ Probe \/ Reconnect
  <2>1. \E reconnect \in BOOLEAN : CheckRuntime(reconnect)
    BY <1>4 DEF BecomeVisible, Probe, Reconnect
  <2>. QED
    BY <1>0, <2>1, IdleChecks DEF CheckRuntime
<1>5. CASE CheckFails \/ Select \/ Deselect
  BY <1>5, IdleChecks DEF CheckFails, Select, Deselect
<1>6. ~(\/ CheckRead \/ DeliverAnswer \/ Reconcile \/ BecomeVisible \/ Probe
        \/ Reconnect \/ CheckFails \/ Select \/ Deselect) => check' = check
  BY DEF Next, Tab, User, Server, Network, vars, DeliverStart, DeliverChunk, DeliverDone,
         DeliverError, DeliverCancelled, Reduced, DeliverStatus, DeliverReply, DropAnswer,
         DropEvent, Receive, Enter, ReadStream, ReadSubtasks, Answer, Refuse, Send, Disconnect,
         Reply, Begin, Start, Produce, Persist, Tell, DetailRead, DetailArrives
<1>. QED
  BY <1>0, <1>1, <1>2, <1>3, <1>4, <1>5, <1>6

LEMMA DetailTyped == ASSUME Typed, [Next]_vars PROVE detail' \in Details
<1>1. CASE DetailRead
  BY <1>1, ServerFields DEF DetailRead, Details, Typed, ServerTyped
<1>2. CASE Select \/ Deselect \/ DetailArrives
  <2>1. detail' \in {[at |-> "asked"], [at |-> "none"], [at |-> "loaded"]}
    BY <1>2, Zenon DEF Select, Deselect, DetailArrives
  <2>. QED
    BY <2>1 DEF Details
<1>3. ~(DetailRead \/ Select \/ Deselect \/ DetailArrives) => detail' = detail
  BY DEF Next, Tab, User, Server, Network, vars, DeliverStart, DeliverChunk, DeliverDone,
         DeliverError, DeliverCancelled, Reduced, DeliverStatus, DeliverReply, DeliverAnswer,
         DropAnswer, DropEvent, Reconcile, Probe, BecomeVisible, Send, Receive, CheckRead, Enter,
         ReadStream, ReadSubtasks, Answer, Refuse, Disconnect, Reconnect, CheckFails, Reply,
         Begin, Start, Produce, Persist, Tell
<1>. QED
  BY <1>1, <1>2, <1>3 DEF Typed

\* A refused join is never forgotten.
LEMMA UsedTyped ==
  ASSUME Typed, [Next]_vars PROVE used' \in Counters /\ used'.refusals >= used.refusals
<1>0. used \in Counters /\ used.refusals \in Nat /\ m.version \in Nat
  BY DEF Typed, Machine, Counters
<1>1. CASE Select \/ Deselect
  <2>. DEFINE count == used.selections + 1
  <2>1. used' = [used EXCEPT !.selections = count]
    BY <1>1, Zenon DEF Select, Deselect
  <2>2. count \in Nat
    BY <1>0 DEF Counters
  <2>. HIDE DEF count
  <2>3. used' \in Counters
    BY <1>0, <2>1, <2>2 DEF Counters
  <2>4. used'.refusals = used.refusals
    BY <1>0, <2>1 DEF Counters
  <2>. QED
    BY <1>0, <2>3, <2>4
<1>2. CASE BecomeVisible
  <2>1. used' = [used EXCEPT !.checks = @ + 1]
    BY <1>2 DEF BecomeVisible
  <2>. QED
    BY <1>0, <2>1 DEF Counters
<1>3. CASE Disconnect
  <2>. DEFINE count == used.disconnects + 1
  <2>1. used' = [used EXCEPT !.disconnects = count, !.lost = m.version]
    BY <1>3, Zenon DEF Disconnect
  <2>2. count \in Nat
    BY <1>0 DEF Counters
  <2>. HIDE DEF count
  <2>3. used' \in Counters
    BY <1>0, <2>1, <2>2, Zenon DEF Counters
  <2>4. used'.refusals = used.refusals
    BY <1>0, <2>1 DEF Counters
  <2>. QED
    BY <1>0, <2>3, <2>4
<1>4. CASE \E j \in joins : Refuse(j)
  <2>1. used' = [used EXCEPT !.refusals = @ + 1]
    BY <1>4 DEF Refuse
  <2>. QED
    BY <1>0, <2>1 DEF Counters
<1>5. ~(Select \/ Deselect \/ BecomeVisible \/ Disconnect \/ \E j \in joins : Refuse(j))
      => used' = used
  BY DEF Next, Tab, User, Server, Network, vars, DeliverStart, DeliverChunk, DeliverDone,
         DeliverError, DeliverCancelled, Reduced, DeliverStatus, DeliverReply, DeliverAnswer,
         DropAnswer, DropEvent, DetailArrives, Reconcile, Probe, Send, Receive, DetailRead,
         CheckRead, Enter, ReadStream, ReadSubtasks, Answer, Reconnect, CheckFails, Reply,
         Begin, Start, Produce, Persist, Tell
<1>. QED
  BY <1>0, <1>1, <1>2, <1>3, <1>4, <1>5

LEMMA RefusalCounts == ASSUME NEW j, Typed, Refuse(j) PROVE used'.refusals # 0
<1>1. used \in Counters /\ used' = [used EXCEPT !.refusals = @ + 1]
  BY DEF Typed, Refuse
<1>. QED
  BY <1>1 DEF Counters

\* The steps that leave the machine to itself.
LEMMA ConnTyped ==
  ASSUME Typed, Elsewhere \/ UNCHANGED vars
  PROVE  conn' \in [on : BOOLEAN, room : BOOLEAN, joinedTask : BOOLEAN] /\ up' \in Seq(Calls)
<1>0. conn \in [on : BOOLEAN, room : BOOLEAN, joinedTask : BOOLEAN] /\ up \in Seq(Calls)
  BY DEF Typed
<1>1. CASE DropAnswer
  <2>1. Head(down).ok \in BOOLEAN
    BY <1>1, DeliveredTyped, EventKinds DEF DropAnswer
  <2>2. conn' = [conn EXCEPT !.joinedTask = @ /\ Head(down).ok] /\ up' = up
    BY <1>1 DEF DropAnswer
  <2>3. (conn.joinedTask /\ Head(down).ok) \in BOOLEAN
    BY <1>0, <2>1
  <2>. QED
    BY <1>0, <2>2, <2>3
<1>2. CASE Receive
  <2>1. conn' = conn \/ conn' = [conn EXCEPT !.room = FALSE]
    BY <1>2, Zenon DEF Receive
  <2>2. up' = Tail(up) /\ up # <<>>
    BY <1>2 DEF Receive
  <2>3. [conn EXCEPT !.room = FALSE] \in [on : BOOLEAN, room : BOOLEAN, joinedTask : BOOLEAN]
    BY <1>0, Zenon
  <2>4. Tail(up) \in Seq(Calls)
    BY <1>0, <2>2
  <2>. QED
    BY <1>0, <2>1, <2>2, <2>3, <2>4
<1>3. CASE Send \/ (\E j \in joins : Enter(j)) \/ Reconnect \/ Disconnect
  <2>1. \/ conn' = [conn EXCEPT !.room = TRUE] \/ conn' = [conn EXCEPT !.on = TRUE]
        \/ conn' = [on |-> FALSE, room |-> FALSE, joinedTask |-> FALSE]
    BY <1>3, Zenon DEF Send, Enter, Reconnect, Disconnect
  <2>2. up' = up \/ up' = <<>>
    BY <1>3, Zenon DEF Send, Enter, Reconnect, Disconnect
  <2>3. /\ [conn EXCEPT !.room = TRUE] \in [on : BOOLEAN, room : BOOLEAN, joinedTask : BOOLEAN]
        /\ [conn EXCEPT !.on = TRUE] \in [on : BOOLEAN, room : BOOLEAN, joinedTask : BOOLEAN]
    BY <1>0, Zenon
  <2>4. [on |-> FALSE, room |-> FALSE, joinedTask |-> FALSE]
          \in [on : BOOLEAN, room : BOOLEAN, joinedTask : BOOLEAN]
    OBVIOUS
  <2>5. conn' \in [on : BOOLEAN, room : BOOLEAN, joinedTask : BOOLEAN]
    BY <2>1, <2>3, <2>4, Zenon
  <2>6. <<>> \in Seq(Calls)
    OBVIOUS
  <2>. QED
    BY <1>0, <2>2, <2>5, <2>6, Zenon
<1>4. ~(DropAnswer \/ Receive \/ Send \/ (\E j \in joins : Enter(j)) \/ Reconnect \/ Disconnect)
      => conn' = conn /\ up' = up
  BY DEF Elsewhere, vars, DropEvent, Probe, BecomeVisible, DetailRead, CheckRead, Reply, Begin,
         Start, Produce, Persist, Tell, CheckFails, ReadStream, ReadSubtasks, Answer, Refuse
<1>. QED
  BY <1>0, <1>1, <1>2, <1>3, <1>4

LEMMA TabOrElsewhere ==
  ASSUME [Next]_vars
  PROVE  \/ DeliverStart \/ DeliverChunk \/ DeliverDone \/ DeliverError \/ DeliverCancelled
         \/ DeliverStatus \/ DetailArrives \/ DeliverReply \/ DeliverAnswer \/ Reconcile
         \/ Select \/ Deselect \/ Elsewhere \/ UNCHANGED vars
BY DEF Next, Tab, User, Server, Network, Elsewhere

LEMMA TypedNext == ASSUME Typed, [Next]_vars PROVE Typed'
<1>1. /\ m' \in Machine /\ up' \in Seq(Calls)
      /\ conn' \in [on : BOOLEAN, room : BOOLEAN, joinedTask : BOOLEAN]
  <2>1. CASE \/ DeliverStart \/ DeliverChunk \/ DeliverDone \/ DeliverError \/ DeliverCancelled
             \/ DeliverReply \/ DeliverAnswer \/ Reconcile \/ Select \/ Deselect
    BY <2>1, EventTyped, ReplyTyped, AnswerTyped, ReconcileTyped, SelectionTyped DEF Tabbed
  <2>2. CASE DeliverStatus \/ DetailArrives
    BY <2>2, StatusStepTyped DEF Typed
  <2>3. CASE Elsewhere \/ UNCHANGED vars
    BY <2>3, ConnTyped, ElsewhereRuns DEF Typed
  <2>. QED
    BY <2>1, <2>2, <2>3, TabOrElsewhere
<1>2. ServerTyped' /\ down' \in Seq(Events) /\ joins' \subseteq Handlers
  BY ServerTypedNext, DownTyped, JoinsTyped
<1>3. check' \in Checks /\ detail' \in Details /\ used' \in Counters
  BY CheckTyped, DetailTyped, UsedTyped
<1>. QED
  BY <1>1, <1>2, <1>3 DEF Typed

LEMMA TypedAtFirst == ASSUME Init PROVE Typed
<1>1. m \in Machine
  BY FreshTyped DEF Init
<1>2. ServerTyped
  <2>. DEFINE task == IF FirstOver THEN "COMPLETED" ELSE "RUNNING"
              told == IF FirstOver THEN 1 ELSE 0
              sub == [s \in Subtask |-> IF s > 1 THEN "absent"
                                        ELSE IF FirstOver THEN "COMPLETED" ELSE "PENDING"]
              out == [s \in Subtask |-> IF s = 1 /\ FirstOver THEN Length ELSE 0]
  <2>1. task \in Execution /\ told \in 0..Turns /\ told <= 1 /\ 1 \in Subtask
    BY MachineAssumption DEF Execution, Terminal, Subtask
  <2>2. sub \in [Subtask -> RowStatus]
    BY DEF RowStatus, Execution, Terminal
  <2>3. out \in [Subtask -> 0..Length]
    BY MachineAssumption
  <2>4. srv = [task |-> task, clock |-> 1, upd |-> 1, turn |-> 1, redis |-> 0, told |-> told,
               reply |-> FALSE, sub |-> sub, out |-> out]
    BY DEF Init
  <2>. HIDE DEF task, told, sub, out
  <2>. QED
    BY <2>1, <2>2, <2>3, <2>4 DEF ServerTyped, Servers, Stream
<1>3. conn \in [on : BOOLEAN, room : BOOLEAN, joinedTask : BOOLEAN] /\ joins \subseteq Handlers
      /\ down \in Seq(Events) /\ up \in Seq(Calls)
  BY DEF Init
<1>4. check \in Checks /\ detail \in Details /\ used \in Counters
  BY DEF Init, Checks, Details, Counters
<1>. QED
  BY <1>1, <1>2, <1>3, <1>4 DEF Typed

LEMMA TypedHolds == Spec => []Typed
<1>1. Init => Typed
  BY TypedAtFirst
<1>2. Typed /\ [Next]_vars => Typed'
  BY TypedNext
<1>. QED
  BY <1>1, <1>2, PTL DEF Spec

\* Every variable keeps its kind, for every number of turns, length of an answer and
\* bound: no reducer of TaskStateMachine, snapshot of a join or runtime check takes the
\* tab out of its states.
THEOREM TypesKeep == Spec => []TypeOK
<1>1. Typed => TypeOK
  BY TypedMeansTypeOK
<1>. QED
  BY <1>1, TypedHolds, PTL
=============================================================================

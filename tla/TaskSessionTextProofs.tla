------------------------- MODULE TaskSessionTextProofs -------------------------
(***************************************************************************)
(* The text that a tab shows, for every number of turns, every length of   *)
(* an answer and every bound: as long as the server refused none of the    *)
(* tab's joins, a text was produced, once and in order, and never gets     *)
(* shorter, however the cached text of a join, the stored text, the chunks *)
(* that waited for the join and those that follow it overlap.              *)
(*                                                                         *)
(* The invariant relates the text to all that is still to come: what an    *)
(* event or a handler says was so on the server (AllSent), a turn's reply, *)
(* start and chunks come in their order, waiting chunks first (Ordered),   *)
(* nothing of a turn comes before its start (Silent), chunks wait for a    *)
(* reason (Held), and a text with a gap comes before every chunk that is   *)
(* still to come (Shown).                                                  *)
(***************************************************************************)
EXTENDS TaskSessionTypeProofs

(***************************************************************************)
(* The text that the tab shows, as long as no join was refused.            *)
(***************************************************************************)
\* A turn has its start event or is over: only then is there any text of it.
Begun(v, s) == v.redis = s \/ v.sub[s] \in Terminal

Served ==
  /\ \A s \in Subtask : s > srv.turn => srv.sub[s] = "absent"
  /\ srv.sub[srv.turn] \in Active \cup Terminal
  /\ srv.task \in Terminal => srv.sub[srv.turn] \in Terminal
  /\ srv.redis # 0 => srv.redis = srv.turn /\ srv.sub[srv.turn] \in Active
  /\ \A s \in Subtask : srv.out[s] > 0 => Begun(srv, s)
  /\ \A s \in Subtask : srv.sub[s] = "COMPLETED" => srv.out[s] = Length
  /\ srv.reply => ~Begun(srv, srv.turn)

Connected ==
  ~conn.on => ~conn.room /\ down = <<>> /\ up = <<>> /\ joins = {} /\ ~srv.reply

\* The order in which a turn's reply, start and chunks are sent: in the events d and
\* in the chunks c that wait in front of them.
OfTurn(e) == e.type \in {"reply", "start", "chunk"}
Stage(e) == CASE e.type = "reply" -> 0 [] e.type = "start" -> 1 [] OTHER -> 1 + e.p
Before(s, n, t, k) == s < t \/ (s = t /\ n < k)

OrderedIn(d, c) ==
  /\ \A i, j \in 1..Len(d) : i < j /\ OfTurn(d[i]) /\ OfTurn(d[j])
       => Before(d[i].s, Stage(d[i]), d[j].s, Stage(d[j]))
  /\ \A i \in 1..Len(c), j \in 1..Len(d) : OfTurn(d[j])
       => Before(c[i].s, 1 + c[i].p, d[j].s, Stage(d[j]))
  /\ \A i, j \in 1..Len(c) : i < j => Before(c[i].s, 1 + c[i].p, c[j].s, 1 + c[j].p)

\* A text that the server holds is a part of what was produced.
Produced(v, t, s) == IsPart(t) /\ Len(t) <= v.out[s]

SnapSent(v, snap) ==
  /\ \A s \in Subtask : Produced(v, snap.text[s], s)
  /\ snap.stream = 0 => snap.cached = <<>>
  /\ snap.stream # 0 => Produced(v, snap.cached, snap.stream)

\* What an event, a chunk that waits or a handler says was so on the server.
Sent(v, e) ==
  /\ e.type = "reply" => e.s <= v.turn /\ (e.s = v.turn => ~v.reply)
  /\ e.type = "start" => Begun(v, e.s)
  /\ e.type = "chunk" => e.p <= v.out[e.s]
  /\ e.type = "done" => v.sub[e.s] \in Terminal /\ v.out[e.s] = Length
  /\ e.type = "answer" => e.ok /\ SnapSent(v, e.snap)

DownSent(v, d) == \A i \in 1..Len(d) : Sent(v, d[i])
ChunksSent(v, c) == \A i \in 1..Len(c) : c[i].p <= v.out[c[i].s]
RowsSent(v, handlers) ==
  \A j \in handlers : j.at = "rows" => \A s \in Subtask : Produced(v, j.text[s], s)

\* What comes before the start of a turn brings no text of it.
Mute(e, s) ==
  /\ e.type = "done" => e.s # s
  /\ e.type = "answer" => e.snap.text[s] = <<>> /\ (e.snap.stream = s => e.snap.cached = <<>>)

SilentIn(d, a) ==
  \A j \in 1..Len(d) : d[j].type = "start" =>
    /\ a.msgs[d[j].s].text = <<>>
    /\ \A i \in 1..Len(d) : i < j => Mute(d[i], d[j].s)

\* A text that is shown was produced, once and in order, and it has no gap or
\* comes before every chunk that is still to come.
Rising(t) == \A i, j \in DOMAIN t : i < j => t[i] < t[j]
Upto(t, n) == \A i \in DOMAIN t : t[i] <= n

Comes(d, a, s, t) ==
  /\ \A i \in 1..Len(a.chunks) : a.chunks[i].s = s => Upto(t, a.chunks[i].p - 1)
  /\ \A i \in 1..Len(d) : d[i].type = "chunk" /\ d[i].s = s => Upto(t, d[i].p - 1)

ShownOf(v, d, a, s) ==
  LET t == a.msgs[s].text
  IN /\ Rising(t) /\ Upto(t, v.out[s])
     /\ a.msgs[s].st = "absent" \/ a.closed => t = <<>>
     /\ IsPart(t) \/ Comes(d, a, s, t)

ShownIn(v, d, a) == \A s \in Subtask : ShownOf(v, d, a, s)

\* Chunks wait only while the tab joins, or for a message that takes no chunk, or
\* when no further chunk of their turn can reach the tab.
Drained(d, s) == \A i \in 1..Len(d) : ~(d[i].type = "chunk" /\ d[i].s = s)
Past(v, d) == {s \in Subtask : s < v.turn /\ Drained(d, s)}
Severed == ~conn.room /\ joins = {} /\ \A i \in 1..Len(up) : up[i].type # "join"
CutOff == {s \in Subtask : Severed /\ Drained(down, s)}

HeldIn(a, past, cut) ==
  \A n \in 1..Len(a.chunks) :
    \/ a.status \in {"idle", "joining"}
    \/ a.msgs[a.chunks[n].s].st # "streaming"
    \/ a.chunks[n].s \in past
    \/ a.status = "waiting_socket" /\ a.chunks[n].s \in cut

AllSent == DownSent(srv, down) /\ ChunksSent(srv, m.chunks) /\ RowsSent(srv, joins)
Ordered == OrderedIn(down, m.chunks)
Silent  == SilentIn(down, m)
Shown   == ShownIn(srv, down, m)
Held    == HeldIn(m, Past(srv, down), CutOff)

Inv == Served /\ Connected /\ AllSent /\ Ordered /\ Silent /\ Shown /\ Held

(***************************************************************************)
(* Texts that rise.                                                        *)
(***************************************************************************)
LEMMA RisingCounts ==
  ASSUME NEW t \in Text, Rising(t) PROVE \A i \in 1..Len(t) : i <= t[i]
<1>. DEFINE N == Len(t)
            G == {n \in 0..N : n = 0 \/ n <= t[n]}
<1>0. N \in Nat /\ DOMAIN t = 1..N /\ \A n \in 1..N : t[n] \in Position
  BY DEF Text
<1>1. N \in Nat /\ \A n \in 1..N : t[n] \in Nat /\ t[n] >= 1
  BY <1>0 DEF Position
<1>2. ASSUME NEW n \in 0..N, n \in G, n < N PROVE n + 1 \in G
  <2>1. CASE n = 0
    BY <1>1, <1>2, <2>1
  <2>2. CASE n # 0
    <3>1. n <= t[n] /\ n \in 1..N /\ n + 1 \in 1..N
      BY <1>1, <1>2, <2>2
    <3>2. t[n] < t[n + 1]
      BY <1>0, <3>1 DEF Rising
    <3>. QED
      BY <1>1, <3>1, <3>2
  <2>. QED
    BY <2>1, <2>2
<1>3. 0 \in G
  BY <1>1
<1>. HIDE DEF G
<1>4. \A n \in 0..N : n \in G
  <2>. HIDE DEF N
  <2>. QED
    BY <1>1, <1>2, <1>3, NumberInduction
<1>. QED
  BY <1>1, <1>4 DEF G

\* A chunk that a text has, or that follows all of it, keeps what is shown.
LEMMA MergeKeeps ==
  ASSUME NEW t \in Text, NEW p \in Position, Rising(t), IsPart(t) \/ Upto(t, p - 1)
  PROVE  /\ Rising(MergeChunk(t, p)) /\ Len(MergeChunk(t, p)) >= Len(t)
         /\ IsPart(MergeChunk(t, p)) \/ Upto(MergeChunk(t, p), p)
         /\ \A n \in Nat : p <= n /\ Upto(t, n) => Upto(MergeChunk(t, p), n)
<1>. DEFINE u == MergeChunk(t, p)
<1>t. Len(t) \in Nat /\ DOMAIN t = 1..Len(t) /\ \A i \in 1..Len(t) : t[i] \in Position
  BY DEF Text
<1>0. /\ Len(t) \in Nat /\ p \in Nat /\ p >= 1
      /\ DOMAIN t = 1..Len(t) /\ \A i \in 1..Len(t) : t[i] \in Nat
  BY <1>t DEF Position
<1>1. \A i \in 1..Len(t) : i <= t[i]
  BY RisingCounts
<1>2. /\ u \in Text
      /\ \/ u = t /\ p <= Len(t) /\ t[p] = p
         \/ \E k \in 0..Len(t) :
              /\ ~(p <= Len(t) /\ t[p] = p)
              /\ k <= p - 1 /\ (k = p - 1 \/ k = Len(t))
              /\ Len(u) = k + 1
              /\ \A i \in 1..k : u[i] = t[i]
              /\ u[k + 1] = p
  BY MergeOne
<1>. HIDE DEF u
<1>3. CASE u = t /\ p <= Len(t) /\ t[p] = p
  <2>1. p \in 1..Len(t)
    BY <1>0, <1>3
  <2>2. ~Upto(t, p - 1)
    BY <1>0, <1>3, <2>1 DEF Upto
  <2>. QED
    BY <1>0, <1>3, <2>2 DEF u
<1>4. ASSUME NEW k \in 0..Len(t),
             ~(p <= Len(t) /\ t[p] = p),
             k <= p - 1 /\ (k = p - 1 \/ k = Len(t)),
             Len(u) = k + 1,
             \A i \in 1..k : u[i] = t[i],
             u[k + 1] = p
      PROVE  /\ Rising(u) /\ Len(u) >= Len(t) /\ (IsPart(u) \/ Upto(u, p))
             /\ \A n \in Nat : p <= n /\ Upto(t, n) => Upto(u, n)
  <2>. DEFINE N == Len(t)
  <2>0. /\ N \in Nat /\ p \in Nat /\ p >= 1 /\ k \in 0..N /\ k <= p - 1 /\ (k = p - 1 \/ k = N)
        /\ \A i \in 1..N : t[i] \in Nat /\ i <= t[i]
        /\ DOMAIN t = 1..N /\ ~(p <= N /\ t[p] = p)
    BY <1>0, <1>1, <1>4
  <2>u. u[k + 1] = p /\ \A i \in 1..k : u[i] = t[i]
    BY <1>4
  <2>1. DOMAIN u = 1..(k + 1)
    <3>1. DOMAIN u = 1..Len(u)
      BY <1>2 DEF Text
    <3>. QED
      BY <1>4, <3>1
  <2>. HIDE DEF N
  <2>2. k = N
    <3>1. CASE IsPart(t)
      <4>1. \A i \in 1..N : t[i] = i
        BY <2>0, <3>1 DEF IsPart
      <4>. QED
        BY <2>0, <4>1
    <3>2. CASE Upto(t, p - 1)
      <4>1. \A i \in 1..N : t[i] <= p - 1
        BY <2>0, <3>2 DEF Upto
      <4>2. N <= p - 1
        <5>1. CASE N = 0
          BY <2>0, <5>1
        <5>2. CASE N # 0
          <6>1. N \in 1..N
            BY <2>0, <5>2
          <6>2. t[N] <= p - 1 /\ N <= t[N] /\ t[N] \in Nat
            BY <2>0, <4>1, <6>1
          <6>. QED
            BY <2>0, <6>2
        <5>. QED
          BY <5>1, <5>2
      <4>. QED
        BY <2>0, <4>2
    <3>. QED
      BY <3>1, <3>2
  <2>3. \A i \in 1..k : t[i] \in Nat /\ t[i] < p
    <3>1. CASE IsPart(t)
      BY <2>0, <2>2, <3>1 DEF IsPart
    <3>2. CASE Upto(t, p - 1)
      BY <2>0, <2>2, <3>2 DEF Upto
    <3>. QED
      BY <3>1, <3>2
  <2>4. Rising(u)
    <3>1. ASSUME NEW i \in 1..(k + 1), NEW j \in 1..(k + 1), i < j PROVE u[i] < u[j]
      <4>1. i \in 1..k /\ u[i] = t[i]
        BY <2>0, <2>u, <3>1
      <4>2. CASE j = k + 1
        BY <2>0, <2>u, <2>3, <4>1, <4>2
      <4>3. CASE j \in 1..k
        BY <2>0, <2>u, <2>2, <3>1, <4>1, <4>3 DEF Rising
      <4>. QED
        BY <3>1, <4>2, <4>3
    <3>. QED
      BY <2>1, <3>1 DEF Rising
  <2>5. Upto(u, p)
    <3>1. ASSUME NEW i \in 1..(k + 1) PROVE u[i] <= p
      <4>1. CASE i = k + 1
        BY <2>0, <2>u, <4>1
      <4>2. CASE i \in 1..k
        BY <2>0, <2>u, <2>3, <4>2
      <4>. QED
        BY <4>1, <4>2
    <3>. QED
      BY <2>1, <3>1 DEF Upto
  <2>6. ASSUME NEW n \in Nat, p <= n, Upto(t, n) PROVE Upto(u, n)
    <3>1. ASSUME NEW i \in 1..(k + 1) PROVE u[i] <= n
      <4>1. CASE i = k + 1
        BY <2>0, <2>u, <2>6, <4>1
      <4>2. CASE i \in 1..k
        BY <2>0, <2>u, <2>2, <2>6, <4>2 DEF Upto
      <4>. QED
        BY <4>1, <4>2
    <3>. QED
      BY <2>1, <3>1 DEF Upto
  <2>7. Len(u) >= Len(t)
    BY <1>4, <2>0, <2>2 DEF N
  <2>. QED
    BY <2>4, <2>5, <2>6, <2>7
<1>. QED
  BY <1>2, <1>3, <1>4 DEF u

LEMMA UptoMore ==
  ASSUME NEW t \in Text, NEW a \in Int, NEW b \in Int, a <= b, Upto(t, a) PROVE Upto(t, b)
<1>1. DOMAIN t = 1..Len(t) /\ \A i \in 1..Len(t) : t[i] \in Position
  BY DEF Text
<1>2. \A i \in 1..Len(t) : t[i] \in Int
  BY <1>1 DEF Position
<1>. QED
  BY <1>1, <1>2 DEF Upto

\* Chunks that waited in their order keep what is shown.
LEMMA MergedKeeps ==
  ASSUME NEW t \in Text, NEW chunks \in Seq(Chunk), NEW s, NEW top \in Nat,
         Rising(t), Upto(t, top),
         \A i, j \in 1..Len(chunks) :
           i < j /\ chunks[i].s = s /\ chunks[j].s = s => chunks[i].p < chunks[j].p,
         \A i \in 1..Len(chunks) : chunks[i].s = s => chunks[i].p <= top,
         IsPart(t) \/ \A i \in 1..Len(chunks) : chunks[i].s = s => Upto(t, chunks[i].p - 1)
  PROVE  /\ Rising(Merged(t, chunks, s)) /\ Upto(Merged(t, chunks, s), top)
         /\ Len(Merged(t, chunks, s)) >= Len(t)
         /\ \A q \in Nat : /\ IsPart(t) \/ Upto(t, q)
                           /\ \A i \in 1..Len(chunks) : chunks[i].s = s => chunks[i].p <= q
                           => IsPart(Merged(t, chunks, s)) \/ Upto(Merged(t, chunks, s), q)
<1>. DEFINE N == Len(chunks)
            Later(q) == /\ IsPart(t) \/ Upto(t, q)
                        /\ \A i \in 1..N : chunks[i].s = s => chunks[i].p <= q
<1>1. PICK f \in [0..N -> Text] : Merges(f, t, chunks, s) /\ Merged(t, chunks, s) = f[N]
  BY MergedIs
<1>2. N \in Nat /\ \A i \in 1..N : chunks[i].p \in Position /\ chunks[i].p \in Nat
  <2>1. N \in Nat /\ \A i \in 1..N : chunks[i] \in Chunk
    OBVIOUS
  <2>. QED
    BY <2>1 DEF Chunk, Position
<1>3. /\ f[0] = t
      /\ \A k \in 1..N : f[k] = IF chunks[k].s = s THEN MergeChunk(f[k - 1], chunks[k].p)
                                ELSE f[k - 1]
  BY <1>1 DEF Merges
<1>. DEFINE Good(u, k) ==
       /\ Rising(u) /\ Upto(u, top) /\ Len(u) >= Len(t)
       /\ IsPart(u) \/ \A i \in 1..N : i > k /\ chunks[i].s = s => Upto(u, chunks[i].p - 1)
       /\ \A q \in Nat : Later(q) => IsPart(u) \/ Upto(u, q)
            G == {k \in 0..N : Good(f[k], k)}
<1>4. Good(t, 0)
  <2>1. Len(t) >= Len(t)
    BY DEF Text
  <2>. QED
    BY <2>1
<1>5. ASSUME NEW k \in 0..N, k < N, Good(f[k], k) PROVE Good(f[k + 1], k + 1)
  <2>. DEFINE u == f[k]
              v == f[k + 1]
              p == chunks[k + 1].p
  <2>0. u \in Text /\ v \in Text /\ k + 1 \in 1..N /\ k + 1 \in 0..N /\ (k + 1) - 1 = k
    BY <1>2, <1>5
  <2>1. v = IF chunks[k + 1].s = s THEN MergeChunk(u, p) ELSE u
    BY <1>3, <2>0
  <2>2. CASE chunks[k + 1].s # s
    <3>1. v = u
      BY <2>1, <2>2
    <3>2. \A i \in 1..N : i > k /\ chunks[i].s = s <=> i > k + 1 /\ chunks[i].s = s
      BY <1>2, <2>0, <2>2
    <3>. HIDE DEF Later
    <3>. QED
      BY <1>5, <3>1, <3>2
  <2>3. CASE chunks[k + 1].s = s
    <3>1. p \in Position /\ p \in Nat /\ p <= top /\ v = MergeChunk(u, p)
      BY <1>2, <2>0, <2>1, <2>3
    <3>2. Rising(u) /\ (IsPart(u) \/ Upto(u, p - 1)) /\ Upto(u, top) /\ Len(u) >= Len(t)
      BY <1>2, <1>5, <2>0, <2>3
    <3>. HIDE DEF u, v, p, Later
    <3>3. /\ Rising(v) /\ Len(v) >= Len(u) /\ (IsPart(v) \/ Upto(v, p)) /\ Upto(v, top)
      BY <2>0, <3>1, <3>2, MergeKeeps
    <3>4. Len(v) >= Len(t)
      <4>1. Len(u) \in Nat /\ Len(v) \in Nat /\ Len(t) \in Nat
        BY <2>0 DEF Text
      <4>. QED
        BY <3>2, <3>3, <4>1
    <3>5. ASSUME NEW i \in 1..N, i > k + 1, chunks[i].s = s, Upto(v, p)
          PROVE  Upto(v, chunks[i].p - 1)
      <4>1. p < chunks[i].p /\ chunks[i].p \in Nat
        BY <1>2, <2>0, <2>3, <3>5 DEF p
      <4>. QED
        BY <2>0, <3>1, <3>5, <4>1, UptoMore
    <3>6. ASSUME NEW q \in Nat, Later(q), Upto(v, p) PROVE Upto(v, q)
      <4>1. p <= q
        BY <2>0, <2>3, <3>6 DEF p, Later
      <4>. QED
        BY <2>0, <3>1, <3>6, <4>1, UptoMore
    <3>7. Good(v, k + 1)
      BY <3>3, <3>4, <3>5, <3>6
    <3>. QED
      BY <3>7 DEF v
  <2>. QED
    BY <2>2, <2>3
<1>. HIDE DEF Good
<1>6. 0 \in G /\ \A k \in 0..N : k \in G /\ k < N => k + 1 \in G
  <2>1. 0 \in G
    BY <1>2, <1>3, <1>4
  <2>2. ASSUME NEW k \in 0..N, k \in G, k < N PROVE k + 1 \in G
    <3>1. Good(f[k + 1], k + 1) /\ k + 1 \in 0..N
      BY <1>2, <1>5, <2>2
    <3>. QED
      BY <3>1
  <2>. QED
    BY <2>1, <2>2
<1>. HIDE DEF G
<1>7. N \in G
  <2>1. \A k \in 0..N : k \in G
    <3>. HIDE DEF N
    <3>. QED
      BY <1>2, <1>6, NumberInduction
  <2>. QED
    BY <1>2, <2>1
<1>8. Good(f[N], N)
  BY <1>7 DEF G
<1>. QED
  BY <1>1, <1>8 DEF Good

(***************************************************************************)
(* The server: what it has sent stays true of it.                          *)
(***************************************************************************)
SendFields ==
  /\ srv'.turn = srv.turn + 1 /\ srv'.sub = [srv.sub EXCEPT ![srv.turn + 1] = "PENDING"]
  /\ srv'.task = "RUNNING" /\ srv'.redis = srv.redis /\ srv'.reply = TRUE /\ srv'.out = srv.out

RowFields(status) ==
  /\ srv'.turn = srv.turn /\ srv'.sub = [srv.sub EXCEPT ![srv.turn] = status]
  /\ srv'.out = srv.out /\ srv'.reply = srv.reply

RestFields == srv'.turn = srv.turn /\ srv'.sub = srv.sub /\ srv'.task = srv.task

LEMMA SentFields == ASSUME Typed, Send PROVE SendFields
<1>1. srv \in Servers
  BY DEF Typed, ServerTyped
<1>2. srv' = [srv EXCEPT !.turn = @ + 1, !.sub[srv.turn + 1] = "PENDING", !.task = "RUNNING",
                         !.clock = @ + 1, !.upd = srv.clock + 1, !.reply = TRUE]
  BY DEF Send
<1>. QED
  BY <1>1, <1>2 DEF Servers, SendFields

LEMMA BegunFields ==
  ASSUME Typed, Begin
  PROVE  RowFields("RUNNING") /\ srv'.task = srv.task /\ srv'.redis = srv.redis
<1>1. srv \in Servers
  BY DEF Typed, ServerTyped
<1>2. srv' = [srv EXCEPT !.sub[srv.turn] = "RUNNING"]
  BY DEF Begin
<1>. QED
  BY <1>1, <1>2 DEF Servers, RowFields

LEMMA PersistedFields ==
  ASSUME Typed, Persist
  PROVE  \E task \in Terminal :
           /\ RowFields(task) /\ srv'.task = task /\ srv'.redis = 0
           /\ task = "COMPLETED" => srv.out[srv.turn] = Length
<1>1. srv \in Servers
  BY DEF Typed, ServerTyped
<1>2. PICK task \in Outcomes :
        /\ task = "COMPLETED" => srv.out[srv.turn] = Length
        /\ srv' = [srv EXCEPT !.sub[srv.turn] = task, !.task = task, !.clock = @ + 1,
                              !.upd = srv.clock + 1, !.redis = 0]
  BY DEF Persist
<1>3. RowFields(task) /\ srv'.task = task /\ srv'.redis = 0
  BY <1>1, <1>2 DEF Servers, RowFields
<1>. QED
  BY <1>2, <1>3, SessionAssumption

LEMMA RestedFields ==
  ASSUME Typed
  PROVE  /\ Disconnect \/ Reply \/ Start \/ Produce \/ Tell => RestFields
         /\ Disconnect \/ Reply => srv'.reply = FALSE /\ srv'.redis = srv.redis
                                   /\ srv'.out = srv.out
         /\ Start => srv'.redis = srv.turn /\ srv'.reply = srv.reply /\ srv'.out = srv.out
         /\ Produce => /\ srv'.redis = srv.redis /\ srv'.reply = srv.reply
                       /\ srv'.out = [srv.out EXCEPT ![srv.turn] = @ + 1]
         /\ Tell => srv'.redis = srv.redis /\ srv'.reply = srv.reply /\ srv'.out = srv.out
<1>0. srv \in Servers
  BY DEF Typed, ServerTyped
<1>2. ASSUME Start PROVE RestFields /\ srv'.redis = srv.turn /\ srv'.reply = srv.reply
                         /\ srv'.out = srv.out
  <2>1. srv' = [srv EXCEPT !.redis = srv.turn]
    BY <1>2 DEF Start
  <2>. QED
    BY <1>0, <2>1 DEF Servers, RestFields
<1>3. ASSUME Produce PROVE RestFields /\ srv'.redis = srv.redis /\ srv'.reply = srv.reply
                           /\ srv'.out = [srv.out EXCEPT ![srv.turn] = @ + 1]
  <2>1. srv' = [srv EXCEPT !.out[srv.turn] = @ + 1]
    BY <1>3 DEF Produce
  <2>. QED
    BY <1>0, <2>1 DEF Servers, RestFields
<1>4. ASSUME Tell PROVE RestFields /\ srv'.redis = srv.redis /\ srv'.reply = srv.reply
                        /\ srv'.out = srv.out
  <2>1. srv' = [srv EXCEPT !.told = srv.told + 1, !.clock = @ + 1]
    BY <1>4 DEF Tell
  <2>. QED
    BY <1>0, <2>1 DEF Servers, RestFields
<1>5. ASSUME Disconnect \/ Reply PROVE RestFields /\ srv'.reply = FALSE
                                       /\ srv'.redis = srv.redis /\ srv'.out = srv.out
  <2>1. srv' = [srv EXCEPT !.reply = FALSE]
    BY <1>5 DEF Disconnect, Reply
  <2>. QED
    BY <1>0, <2>1 DEF Servers, RestFields
<1>. QED
  BY <1>2, <1>3, <1>4, <1>5, Zenon

\* What the server never takes back.
Grows ==
  /\ srv'.turn >= srv.turn
  /\ srv'.turn = srv.turn => (srv'.reply => srv.reply)
  /\ \A s \in Subtask :
       /\ srv'.out[s] >= srv.out[s]
       /\ srv.sub[s] \in Terminal => srv'.sub[s] = srv.sub[s]
       /\ Begun(srv, s) => Begun(srv', s)

LEMMA ServerGrows == ASSUME Typed, Served, [Next]_vars PROVE Grows
<1>0. /\ srv.turn \in Subtask /\ srv.redis \in Stream /\ srv.sub \in [Subtask -> RowStatus]
      /\ srv.out \in [Subtask -> 0..Length] /\ srv.reply \in BOOLEAN
  BY ServerFields DEF Typed, ServerTyped
<1>n. /\ srv.turn \in Nat /\ srv.turn >= 1
      /\ \A s \in Subtask : srv.out[s] \in Nat /\ s \in Nat /\ s >= 1
      /\ "PENDING" \notin Terminal /\ "RUNNING" \notin Terminal /\ "absent" \notin Terminal
  BY <1>0, MachineAssumption DEF Subtask, Terminal
<1>1. CASE Send
  <2>1. SendFields /\ srv.sub[srv.turn + 1] = "absent" /\ srv.turn + 1 \in Subtask
    <3>1. srv.turn < Turns
      BY <1>1 DEF Send
    <3>2. srv.turn + 1 \in Subtask
      BY <1>n, <3>1, MachineAssumption DEF Subtask
    <3>. QED
      BY <1>1, <1>n, <3>2, SentFields DEF Served
  <2>2. \A s \in Subtask : srv'.sub[s] = IF s = srv.turn + 1 THEN "PENDING" ELSE srv.sub[s]
    BY <1>0, <2>1 DEF SendFields
  <2>3. /\ srv'.turn >= srv.turn /\ srv'.turn # srv.turn
        /\ srv'.out = srv.out /\ srv'.redis = srv.redis
    BY <1>n, <2>1 DEF SendFields
  <2>. QED
    BY <1>n, <2>1, <2>2, <2>3 DEF Grows, Begun
<1>2. CASE Begin
  <2>1. RowFields("RUNNING") /\ srv'.redis = srv.redis /\ srv.sub[srv.turn] = "PENDING"
    BY <1>2, BegunFields DEF Begin
  <2>. QED
    BY <1>0, <1>n, <2>1 DEF RowFields, Grows, Begun
<1>3. CASE Persist
  <2>1. PICK task \in Terminal : RowFields(task) /\ srv'.redis = 0
    BY <1>3, PersistedFields
  <2>2. srv.redis = srv.turn /\ srv.sub[srv.turn] = "RUNNING"
    BY <1>3 DEF Persist, Streaming
  <2>. QED
    BY <1>0, <1>n, <2>1, <2>2 DEF RowFields, Grows, Begun
<1>4. CASE Disconnect \/ Reply \/ Tell
  <2>1. /\ srv'.turn = srv.turn /\ srv'.sub = srv.sub
        /\ srv'.redis = srv.redis /\ srv'.out = srv.out /\ (srv'.reply => srv.reply)
    BY <1>0, <1>4, RestedFields DEF RestFields
  <2>. QED
    BY <1>n, <2>1 DEF Grows, Begun
<1>5. CASE Start
  <2>1. srv.redis # 0 => srv.redis = srv.turn
    BY DEF Served
  <2>. QED
    BY <1>0, <1>n, <1>5, <2>1, RestedFields DEF RestFields, Grows, Begun
<1>6. CASE Produce
  BY <1>0, <1>n, <1>6, RestedFields DEF RestFields, Grows, Begun
<1>7. CASE ServerStays \/ UNCHANGED vars
  <2>1. srv' = srv
    BY <1>7, ServerLeft
  <2>. QED
    BY <1>0, <1>n, <2>1 DEF Grows, Begun
<1>. QED
  BY <1>1, <1>2, <1>3, <1>4, <1>5, <1>6, <1>7, TurningOrNot DEF Turning

LEMMA ServedNext == ASSUME Typed, Served, [Next]_vars PROVE Served'
<1>0. /\ srv.turn \in Subtask /\ srv.redis \in Stream /\ srv.sub \in [Subtask -> RowStatus]
      /\ srv.out \in [Subtask -> 0..Length] /\ srv.reply \in BOOLEAN
  BY ServerFields DEF Typed, ServerTyped
<1>n. /\ srv.turn \in Nat /\ srv.turn >= 1
      /\ \A s \in Subtask : srv.out[s] \in Nat /\ s \in Nat /\ s >= 1
      /\ "PENDING" \notin Terminal /\ "RUNNING" \notin Terminal /\ "absent" \notin Terminal
      /\ "PENDING" \in Active /\ "RUNNING" \in Active /\ \A x \in Active : x \notin Terminal
      /\ "COMPLETED" \in Terminal
  BY <1>0, MachineAssumption DEF Subtask, Terminal, Active
<1>1. CASE Send
  <2>1. SendFields /\ srv.turn + 1 \in Subtask /\ srv.sub[srv.turn] \in Terminal /\ srv.redis = 0
    <3>1. srv.turn < Turns /\ srv.task \in Terminal
      BY <1>1 DEF Send
    <3>2. srv.turn + 1 \in Subtask
      BY <1>n, <3>1, MachineAssumption DEF Subtask
    <3>. QED
      BY <1>1, <1>n, <3>1, <3>2, SentFields DEF Served
  <2>2. srv.sub[srv.turn + 1] = "absent"
    BY <1>n, <2>1 DEF Served
  <2>. QED
    BY <1>0, <1>n, <2>1, <2>2 DEF SendFields, Served, Begun
<1>2. CASE Begin
  <2>1. RowFields("RUNNING") /\ srv'.redis = srv.redis /\ srv'.task = srv.task
        /\ srv.sub[srv.turn] = "PENDING"
    BY <1>2, BegunFields DEF Begin
  <2>. QED
    BY <1>0, <1>n, <2>1 DEF RowFields, Served, Begun
<1>3. CASE Persist
  <2>1. PICK task \in Terminal : /\ RowFields(task) /\ srv'.redis = 0 /\ srv'.task = task
                                 /\ task = "COMPLETED" => srv.out[srv.turn] = Length
    BY <1>3, PersistedFields
  <2>2. srv.redis = srv.turn /\ srv.sub[srv.turn] = "RUNNING"
    BY <1>3 DEF Persist, Streaming
  <2>. QED
    BY <1>0, <1>n, <2>1, <2>2 DEF RowFields, Served, Begun
<1>4. CASE Disconnect \/ Reply \/ Tell
  <2>1. /\ srv'.turn = srv.turn /\ srv'.sub = srv.sub /\ srv'.task = srv.task
        /\ srv'.redis = srv.redis /\ srv'.out = srv.out /\ (srv'.reply => srv.reply)
    BY <1>0, <1>4, RestedFields DEF RestFields
  <2>. QED
    BY <2>1 DEF Served, Begun
<1>5. CASE Start
  <2>1. srv.sub[srv.turn] \in Active /\ ~srv.reply
    BY <1>5 DEF Start
  <2>. QED
    BY <1>0, <1>n, <1>5, <2>1, RestedFields DEF RestFields, Served, Begun
<1>6. CASE Produce
  <2>1. srv.redis = srv.turn /\ srv.sub[srv.turn] = "RUNNING"
    BY <1>6 DEF Produce, Streaming
  <2>. QED
    BY <1>0, <1>n, <1>6, <2>1, RestedFields DEF RestFields, Served, Begun
<1>7. CASE ServerStays \/ UNCHANGED vars
  <2>1. srv' = srv
    BY <1>7, ServerLeft
  <2>. QED
    BY <2>1 DEF Served, Begun
<1>. QED
  BY <1>1, <1>2, <1>3, <1>4, <1>5, <1>6, <1>7, TurningOrNot DEF Turning

(***************************************************************************)
(* Queues: the first is taken, another appended.                           *)
(***************************************************************************)
LEMMA TailIs ==
  ASSUME NEW S, NEW d \in Seq(S), d # <<>>
  PROVE  /\ Len(d) \in Nat /\ Len(d) >= 1 /\ Len(Tail(d)) = Len(d) - 1 /\ Head(d) = d[1]
         /\ \A i \in 1..Len(Tail(d)) : i + 1 \in 1..Len(d) /\ 1 < i + 1 /\ Tail(d)[i] = d[i + 1]
OBVIOUS

LEMMA AppendIs ==
  ASSUME NEW S, NEW d \in Seq(S), NEW e
  PROVE  /\ Len(d) \in Nat /\ Len(Append(d, e)) = Len(d) + 1
         /\ \A i \in 1..Len(d) : Append(d, e)[i] = d[i]
         /\ Append(d, e)[Len(d) + 1] = e
OBVIOUS

LEMMA OrderedTail ==
  ASSUME NEW d \in Seq(Events), d # <<>>, NEW c, OrderedIn(d, c) PROVE OrderedIn(Tail(d), c)
<1>1. ASSUME NEW i \in 1..Len(Tail(d)), NEW j \in 1..Len(Tail(d)), i < j,
             OfTurn(Tail(d)[i]), OfTurn(Tail(d)[j])
      PROVE  Before(Tail(d)[i].s, Stage(Tail(d)[i]), Tail(d)[j].s, Stage(Tail(d)[j]))
  <2>1. /\ Tail(d)[i] = d[i + 1] /\ Tail(d)[j] = d[j + 1]
        /\ i + 1 \in 1..Len(d) /\ j + 1 \in 1..Len(d) /\ i + 1 < j + 1
    BY <1>1, TailIs
  <2>. QED
    BY <1>1, <2>1 DEF OrderedIn
<1>2. ASSUME NEW i \in 1..Len(c), NEW j \in 1..Len(Tail(d)), OfTurn(Tail(d)[j])
      PROVE  Before(c[i].s, 1 + c[i].p, Tail(d)[j].s, Stage(Tail(d)[j]))
  <2>1. Tail(d)[j] = d[j + 1] /\ j + 1 \in 1..Len(d)
    BY TailIs
  <2>. QED
    BY <1>2, <2>1 DEF OrderedIn
<1>. QED
  BY <1>1, <1>2 DEF OrderedIn

LEMMA OrderedAppend ==
  ASSUME NEW d \in Seq(Events), NEW c, OrderedIn(d, c), NEW e,
         OfTurn(e) => /\ \A i \in 1..Len(d) : OfTurn(d[i])
                           => Before(d[i].s, Stage(d[i]), e.s, Stage(e))
                      /\ \A i \in 1..Len(c) : Before(c[i].s, 1 + c[i].p, e.s, Stage(e))
  PROVE  OrderedIn(Append(d, e), c)
<1>. DEFINE q == Append(d, e)
<1>1. /\ Len(d) \in Nat /\ Len(q) = Len(d) + 1
      /\ \A i \in 1..Len(d) : q[i] = d[i]
      /\ q[Len(d) + 1] = e
  BY AppendIs
<1>. HIDE DEF q
<1>2. ASSUME NEW i \in 1..Len(q), NEW j \in 1..Len(q), i < j, OfTurn(q[i]), OfTurn(q[j])
      PROVE  Before(q[i].s, Stage(q[i]), q[j].s, Stage(q[j]))
  <2>1. i \in 1..Len(d) /\ q[i] = d[i]
    BY <1>1, <1>2
  <2>2. CASE j = Len(d) + 1
    BY <1>1, <1>2, <2>1, <2>2
  <2>3. CASE j \in 1..Len(d)
    <3>1. q[j] = d[j]
      BY <1>1, <2>3
    <3>. QED
      BY <1>2, <2>1, <2>3, <3>1 DEF OrderedIn
  <2>. QED
    BY <1>1, <2>2, <2>3
<1>3. ASSUME NEW i \in 1..Len(c), NEW j \in 1..Len(q), OfTurn(q[j])
      PROVE  Before(c[i].s, 1 + c[i].p, q[j].s, Stage(q[j]))
  <2>1. CASE j = Len(d) + 1
    BY <1>1, <1>3, <2>1
  <2>2. CASE j \in 1..Len(d)
    <3>1. q[j] = d[j]
      BY <1>1, <2>2
    <3>. QED
      BY <1>3, <2>2, <3>1 DEF OrderedIn
  <2>. QED
    BY <1>1, <2>1, <2>2
<1>. QED
  BY <1>2, <1>3 DEF OrderedIn, q

LEMMA OrderedEmpty ==
  ASSUME NEW d, NEW c, OrderedIn(d, c) PROVE OrderedIn(<<>>, c) /\ OrderedIn(d, <<>>)
BY DEF OrderedIn

\* The first event is a chunk and waits.
LEMMA OrderedMoved ==
  ASSUME NEW d \in Seq(Events), d # <<>>, NEW c \in Seq(Chunk), OrderedIn(d, c),
         Head(d).type = "chunk", NEW k \in Chunk, k.s = Head(d).s, k.p = Head(d).p
  PROVE  OrderedIn(Tail(d), Append(c, k))
<1>. DEFINE q == Append(c, k)
            e == d[1]
<1>0. OrderedIn(Tail(d), c)
  BY OrderedTail
<1>1. /\ Len(c) \in Nat /\ Len(q) = Len(c) + 1
      /\ \A i \in 1..Len(c) : q[i] = c[i]
      /\ q[Len(c) + 1] = k
  BY AppendIs
<1>2. e.type = "chunk" /\ k.s = e.s /\ k.p = e.p /\ 1 \in 1..Len(d) /\ Head(d) = e
  BY TailIs
<1>3. OfTurn(e) /\ Stage(e) = 1 + k.p
  BY <1>2 DEF OfTurn, Stage
<1>. HIDE DEF q, e
<1>4. ASSUME NEW i \in 1..Len(q), NEW j \in 1..Len(Tail(d)), OfTurn(Tail(d)[j])
      PROVE  Before(q[i].s, 1 + q[i].p, Tail(d)[j].s, Stage(Tail(d)[j]))
  <2>1. CASE i = Len(c) + 1
    <3>1. q[i] = k /\ Tail(d)[j] = d[j + 1] /\ j + 1 \in 1..Len(d) /\ 1 < j + 1
      BY <1>1, <2>1, TailIs
    <3>2. Before(d[1].s, Stage(d[1]), d[j + 1].s, Stage(d[j + 1]))
      BY <1>2, <1>3, <1>4, <3>1 DEF OrderedIn, e
    <3>. QED
      BY <1>2, <1>3, <3>1, <3>2 DEF e
  <2>2. CASE i \in 1..Len(c)
    <3>1. q[i] = c[i]
      BY <1>1, <2>2
    <3>. QED
      BY <1>0, <1>4, <2>2, <3>1 DEF OrderedIn
  <2>. QED
    BY <1>1, <2>1, <2>2
<1>5. ASSUME NEW i \in 1..Len(q), NEW j \in 1..Len(q), i < j
      PROVE  Before(q[i].s, 1 + q[i].p, q[j].s, 1 + q[j].p)
  <2>1. i \in 1..Len(c) /\ q[i] = c[i]
    BY <1>1, <1>5
  <2>2. CASE j = Len(c) + 1
    <3>1. q[j] = k /\ Before(c[i].s, 1 + c[i].p, d[1].s, Stage(d[1]))
      BY <1>1, <1>2, <1>3, <2>1, <2>2 DEF OrderedIn, e
    <3>. QED
      BY <1>2, <1>3, <2>1, <3>1 DEF e
  <2>3. CASE j \in 1..Len(c)
    <3>1. q[j] = c[j]
      BY <1>1, <2>3
    <3>. QED
      BY <1>5, <2>1, <2>3, <3>1 DEF OrderedIn
  <2>. QED
    BY <1>1, <2>2, <2>3
<1>. QED
  BY <1>0, <1>4, <1>5 DEF OrderedIn, q

(***************************************************************************)
(* What was sent stays true, and what is sent is the newest of its turn.   *)
(***************************************************************************)
LEMMA ProducedStays ==
  ASSUME Typed, ServerTyped', Grows, NEW t \in Text, NEW s \in Subtask, Produced(srv, t, s)
  PROVE  Produced(srv', t, s)
<1>1. srv.out[s] \in Nat /\ srv'.out[s] \in Nat /\ Len(t) \in Nat
  <2>1. srv.out[s] \in 0..Length /\ srv'.out[s] \in 0..Length
    BY DEF Typed, ServerTyped, Servers
  <2>. QED
    BY <2>1, MachineAssumption DEF Text
<1>2. srv'.out[s] >= srv.out[s]
  BY DEF Grows
<1>. QED
  BY <1>1, <1>2 DEF Produced

LEMMA SnapSentStays ==
  ASSUME Typed, ServerTyped', Grows, NEW snap \in Snapshot, SnapSent(srv, snap)
  PROVE  SnapSent(srv', snap)
<1>1. /\ \A s \in Subtask : snap.text[s] \in Text
      /\ snap.cached \in Text /\ (snap.stream # 0 => snap.stream \in Subtask)
  BY DEF Snapshot, Text
<1>. QED
  BY <1>1, ProducedStays DEF SnapSent

LEMMA SentStays ==
  ASSUME Typed, ServerTyped', Grows, NEW e \in Events, Sent(srv, e)
  PROVE  Sent(srv', e)
<1>0. /\ srv.turn \in Nat /\ srv'.turn \in Nat /\ srv.reply \in BOOLEAN /\ srv'.reply \in BOOLEAN
      /\ \A s \in Subtask : s \in Nat /\ srv.out[s] \in Nat /\ srv'.out[s] \in Nat
                            /\ srv'.out[s] <= Length
  <2>1. srv \in Servers /\ srv' \in Servers
    BY DEF Typed, ServerTyped
  <2>2. /\ srv.turn \in Subtask /\ srv'.turn \in Subtask
        /\ srv.reply \in BOOLEAN /\ srv'.reply \in BOOLEAN
        /\ srv.out \in [Subtask -> 0..Length] /\ srv'.out \in [Subtask -> 0..Length]
    BY <2>1 DEF Servers
  <2>. QED
    BY <2>2, MachineAssumption DEF Subtask
<1>1. /\ e.type = "reply" => e.s <= srv'.turn /\ (e.s = srv'.turn => ~srv'.reply)
  BY <1>0, EventKinds DEF Sent, Grows
<1>2. e.type = "start" => Begun(srv', e.s)
  BY EventKinds DEF Sent, Grows
<1>3. e.type = "chunk" => e.p <= srv'.out[e.s]
  BY <1>0, EventKinds DEF Sent, Grows, Position
<1>4. e.type = "done" => srv'.sub[e.s] \in Terminal /\ srv'.out[e.s] = Length
  BY <1>0, EventKinds, MachineAssumption DEF Sent, Grows
<1>5. e.type = "answer" => e.ok /\ SnapSent(srv', e.snap)
  BY EventKinds, SnapSentStays DEF Sent
<1>. QED
  BY <1>1, <1>2, <1>3, <1>4, <1>5 DEF Sent

\* What the turn has sent so far.
LEMMA SentBefore ==
  ASSUME Typed, Served, NEW d \in Events, OfTurn(d), Sent(srv, d)
  PROVE  /\ d.s \in Subtask /\ d.s <= srv.turn
         /\ d.s = srv.turn => \/ d.type = "reply" /\ Stage(d) = 0 /\ ~srv.reply
                              \/ d.type = "start" /\ Stage(d) = 1 /\ Begun(srv, srv.turn)
                              \/ /\ d.type = "chunk" /\ Stage(d) = 1 + d.p /\ d.p \in Nat
                                 /\ d.p <= srv.out[srv.turn] /\ Begun(srv, srv.turn)
<1>0. /\ srv.turn \in Nat /\ srv.turn >= 1
      /\ \A s \in Subtask : s \in Nat /\ s >= 1 /\ srv.out[s] \in Nat
      /\ "PENDING" \notin Terminal /\ "absent" \notin Terminal
  BY ServerFields, MachineAssumption DEF Typed, ServerTyped, Subtask, Terminal
<1>1. d.s \in Subtask /\ (d.type = "chunk" => d.p \in Nat /\ d.p >= 1)
  BY EventKinds DEF OfTurn, Position
<1>2. d.type \in {"start", "chunk"} => Begun(srv, d.s)
  BY <1>0, <1>1 DEF Sent, Served
<1>3. Begun(srv, d.s) => d.s <= srv.turn
  BY <1>0, <1>1 DEF Begun, Served
<1>4. d.type = "reply" => d.s <= srv.turn /\ (d.s = srv.turn => ~srv.reply)
  BY DEF Sent
<1>5. d.type = "chunk" => d.p <= srv.out[d.s]
  BY DEF Sent
<1>. QED
  BY <1>1, <1>2, <1>3, <1>4, <1>5 DEF OfTurn, Stage

Newest(e) ==
  /\ \A d \in Events : OfTurn(d) /\ Sent(srv, d) => Before(d.s, Stage(d), e.s, Stage(e))
  /\ \A k \in Chunk : k.p <= srv.out[k.s] => Before(k.s, 1 + k.p, e.s, Stage(e))

Issued(e) ==
  /\ e \in Events /\ Sent(srv', e)
  /\ OfTurn(e) => Newest(e)
  /\ e.type = "start" => ~Begun(srv, e.s)
  /\ e.type = "chunk" => e.s = srv.turn /\ e.p = srv.out[e.s] + 1 /\ conn.room

\* A chunk that waits was an event.
LEMMA ChunkIsEvent ==
  ASSUME NEW k \in Chunk
  PROVE  LET d == [type |-> "chunk", s |-> k.s, p |-> k.p]
         IN /\ d \in Events /\ OfTurn(d) /\ d.s = k.s /\ Stage(d) = 1 + k.p
            /\ \A v : k.p <= v.out[k.s] => Sent(v, d)
<1>. DEFINE d == [type |-> "chunk", s |-> k.s, p |-> k.p]
<1>1. d \in Events
  BY DEF Chunk, Events, ChunkEvents
<1>2. d.type = "chunk" /\ d.s = k.s /\ d.p = k.p
  OBVIOUS
<1>. HIDE DEF d
<1>3. OfTurn(d) /\ Stage(d) = 1 + k.p /\ \A v : k.p <= v.out[k.s] => Sent(v, d)
  BY <1>2 DEF OfTurn, Stage, Sent
<1>. QED
  BY <1>1, <1>2, <1>3 DEF d

LEMMA NewestOfTurn ==
  ASSUME Typed, Served, NEW e, e.s = srv.turn,
         \/ e.type = "reply" /\ srv.reply
         \/ e.type = "start" /\ ~Begun(srv, srv.turn)
         \/ e.type = "chunk" /\ e.p = srv.out[srv.turn] + 1
  PROVE  Newest(e)
<1>0. srv.turn \in Subtask /\ \A s \in Subtask : s \in Nat /\ srv.out[s] \in Nat
  BY ServerFields, MachineAssumption DEF Typed, ServerTyped, Subtask
<1>1. ASSUME NEW d \in Events, OfTurn(d), Sent(srv, d)
      PROVE  Before(d.s, Stage(d), e.s, Stage(e))
  <2>1. CASE d.s # srv.turn
    <3>1. d.s \in Subtask /\ d.s <= srv.turn
      BY <1>1, SentBefore
    <3>. QED
      BY <1>0, <2>1, <3>1 DEF Before
  <2>2. CASE d.s = srv.turn
    <3>1. Stage(d) < Stage(e)
      <4>1. \/ d.type = "reply" /\ Stage(d) = 0 /\ ~srv.reply
            \/ d.type = "start" /\ Stage(d) = 1 /\ Begun(srv, srv.turn)
            \/ /\ d.type = "chunk" /\ Stage(d) = 1 + d.p /\ d.p \in Nat
               /\ d.p <= srv.out[srv.turn] /\ Begun(srv, srv.turn)
        BY <1>1, <2>2, SentBefore
      <4>2. CASE e.type = "reply" /\ srv.reply
        <5>1. Begun(srv, srv.turn) \/ ~srv.reply
          BY <4>1
        <5>. QED
          BY <4>2, <5>1 DEF Served
      <4>3. CASE e.type = "start" /\ ~Begun(srv, srv.turn)
        BY <4>1, <4>3 DEF Stage
      <4>4. CASE e.type = "chunk" /\ e.p = srv.out[srv.turn] + 1
        BY <1>0, <4>1, <4>4 DEF Stage
      <4>. QED
        BY <4>2, <4>3, <4>4
    <3>. QED
      BY <2>2, <3>1 DEF Before
  <2>. QED
    BY <2>1, <2>2
<1>2. ASSUME NEW k \in Chunk, k.p <= srv.out[k.s] PROVE Before(k.s, 1 + k.p, e.s, Stage(e))
  <2>. DEFINE d == [type |-> "chunk", s |-> k.s, p |-> k.p]
  <2>1. /\ d \in Events /\ OfTurn(d) /\ d.s = k.s /\ Stage(d) = 1 + k.p /\ Sent(srv, d)
    BY <1>2, ChunkIsEvent
  <2>. HIDE DEF d
  <2>. QED
    BY <1>1, <2>1
<1>. QED
  BY <1>1, <1>2 DEF Newest

LEMMA StatusIssued == ASSUME NEW e \in StatusEvents PROVE Issued(e) /\ ~OfTurn(e)
<1>1. e \in Events /\ e.type = "status"
  BY DEF Events, StatusEvents
<1>. QED
  BY <1>1 DEF Issued, Sent, OfTurn

\* One event is put at the end of the queue, at most one status follows it.
LEMMA PutIssues ==
  ASSUME Typed, Typed', Served, AllSent, Put, ~\E j \in joins : Refuse(j)
  PROVE  \/ down' = down
         \/ \E e : Issued(e) /\ down' = Append(down, e)
         \/ \E e, f : /\ Issued(e) /\ Issued(f) /\ ~OfTurn(f)
                      /\ down' = Append(Append(down, e), f)
<1>0. /\ srv.turn \in Subtask /\ down \in Seq(Events)
      /\ srv.out[srv.turn] \in Nat /\ srv.out[srv.turn] <= Length
      /\ srv.out \in [Subtask -> 0..Length]
  <2>1. srv.turn \in Subtask /\ srv.out \in [Subtask -> 0..Length] /\ down \in Seq(Events)
    BY ServerFields DEF Typed, ServerTyped
  <2>. QED
    BY <2>1, MachineAssumption
<1>r. \A e : ToRoom(<<e>>) = down \/ (ToRoom(<<e>>) = Append(down, e) /\ conn.room)
  <2>1. \A e : down \o <<e>> = Append(down, e)
    BY <1>0
  <2>. QED
    BY <2>1 DEF ToRoom
<1>1. CASE Reply
  <2>. DEFINE e == Event("reply", srv.turn)
  <2>1. e \in Events /\ e.type = "reply" /\ e.s = srv.turn
    BY <1>0, EventMade
  <2>2. srv.reply /\ down' = Append(down, e)
    BY <1>1 DEF Reply
  <2>. HIDE DEF e
  <2>3. srv'.turn = srv.turn /\ ~srv'.reply
    BY <1>1, RestedFields DEF RestFields
  <2>4. Sent(srv', e)
    BY <1>0, <2>1, <2>3 DEF Sent, Subtask
  <2>5. Newest(e)
    BY <2>1, <2>2, NewestOfTurn
  <2>. QED
    BY <2>1, <2>2, <2>4, <2>5 DEF Issued
<1>2. CASE Start
  <2>. DEFINE e == Event("start", srv.turn)
  <2>1. e \in Events /\ e.type = "start" /\ e.s = srv.turn
    BY <1>0, EventMade
  <2>2. down' = ToRoom(<<e>>) /\ srv.redis # srv.turn /\ srv.sub[srv.turn] \in Active
    BY <1>2 DEF Start
  <2>. HIDE DEF e
  <2>3. srv'.redis = srv.turn /\ ~Begun(srv, srv.turn)
    BY <1>2, <2>2, RestedFields DEF Begun, Active, Terminal
  <2>4. Sent(srv', e)
    BY <2>1, <2>3 DEF Sent, Begun
  <2>5. Newest(e)
    BY <2>1, <2>3, NewestOfTurn
  <2>6. Issued(e)
    BY <2>1, <2>3, <2>4, <2>5 DEF Issued
  <2>. QED
    BY <1>r, <2>2, <2>6
<1>3. CASE Produce
  <2>. DEFINE e == [type |-> "chunk", s |-> srv.turn, p |-> srv.out[srv.turn] + 1]
  <2>1. srv.out[srv.turn] + 1 \in Position
    BY <1>0, <1>3, MachineAssumption DEF Produce, Position
  <2>2. e \in Events /\ e.type = "chunk" /\ e.s = srv.turn /\ e.p = srv.out[srv.turn] + 1
    BY <1>0, <2>1 DEF Events, ChunkEvents
  <2>3. down' = ToRoom(<<e>>)
    BY <1>3 DEF Produce
  <2>. HIDE DEF e
  <2>4. srv'.out[srv.turn] = srv.out[srv.turn] + 1
    BY <1>0, <1>3, RestedFields
  <2>5. Sent(srv', e)
    BY <1>0, <2>2, <2>4 DEF Sent
  <2>6. Newest(e)
    BY <2>2, NewestOfTurn
  <2>7. conn.room => Issued(e)
    BY <2>2, <2>5, <2>6 DEF Issued
  <2>. QED
    BY <1>r, <2>3, <2>7
<1>4. CASE Tell
  <2>1. PICK s \in Subtask, status \in StatusEvents :
          /\ srv.sub[s] \in Terminal /\ EndType(s) \in {"done", "error", "cancelled"}
          /\ EndType(s) = "done" => srv.sub[s] = "COMPLETED"
          /\ down' = IF conn.on THEN Append(ToRoom(<<Event(EndType(s), s)>>), status) ELSE down
    BY <1>4, TellMade
  <2>. DEFINE e == Event(EndType(s), s)
  <2>2. e \in Events /\ e.type = EndType(s) /\ e.s = s
    BY <2>1, EventMade
  <2>3. srv'.sub = srv.sub /\ srv'.out = srv.out
    BY <1>4, RestedFields DEF RestFields
  <2>4. EndType(s) = "done" => srv.out[s] = Length
    BY <2>1 DEF Served
  <2>. HIDE DEF e
  <2>5. Issued(e)
    BY <2>1, <2>2, <2>3, <2>4 DEF Issued, Sent, OfTurn
  <2>6. Issued(status) /\ ~OfTurn(status)
    BY <2>1, StatusIssued
  <2>7. down' = IF conn.on THEN Append(ToRoom(<<e>>), status) ELSE down
    BY <2>1 DEF e
  <2>. QED
    BY <1>r, <2>5, <2>6, <2>7
<1>5. CASE \E j \in joins : Answer(j)
  <2>1. PICK j \in joins : Answer(j)
    BY <1>5
  <2>2. PICK n \in 0..Length :
           /\ j.stream # 0 => n <= srv.out[j.stream]
           /\ j.stream = 0 => n = 0
           /\ [type |-> "answer", v |-> j.v, upd |-> j.upd, ok |-> TRUE, snap |-> Snap(j, n)]
                \in Snapshots
           /\ down' = Append(down, [type |-> "answer", v |-> j.v, upd |-> j.upd, ok |-> TRUE,
                                    snap |-> Snap(j, n)])
    BY <2>1, AnswerMade
  <2>. DEFINE e == [type |-> "answer", v |-> j.v, upd |-> j.upd, ok |-> TRUE, snap |-> Snap(j, n)]
  <2>3. j \in Loaded /\ j.at = "rows"
    BY <2>1, HandlerKinds DEF Typed, Answer
  <2>4. /\ Snap(j, n).cached = Cut(Whole, n) /\ Snap(j, n).text = j.text
        /\ Snap(j, n).stream = j.stream
    BY <2>3, SnapTyped
  <2>5. e \in Events /\ e.type = "answer" /\ e.ok /\ e.snap = Snap(j, n) /\ down' = Append(down, e)
    BY <2>2 DEF Events
  <2>. HIDE DEF e
  <2>6. IsPart(Cut(Whole, n)) /\ Len(Cut(Whole, n)) = n /\ Cut(Whole, n) \in Text
    BY PartOfWhole
  <2>7. SnapSent(srv, Snap(j, n))
    <3>1. \A s \in Subtask : Produced(srv, Snap(j, n).text[s], s)
      BY <2>3, <2>4 DEF AllSent, RowsSent
    <3>2. j.stream = 0 => Snap(j, n).cached = <<>>
      BY <2>2, <2>4, <2>6 DEF Text
    <3>3. j.stream # 0 => Produced(srv, Snap(j, n).cached, j.stream)
      BY <2>2, <2>4, <2>6 DEF Produced
    <3>. QED
      BY <2>4, <3>1, <3>2, <3>3 DEF SnapSent
  <2>8. srv' = srv
    BY <2>1 DEF Answer
  <2>. QED
    BY <2>5, <2>7, <2>8 DEF Issued, Sent, OfTurn
<1>. QED
  BY <1>1, <1>2, <1>3, <1>4, <1>5 DEF Put

(***************************************************************************)
(* What a reducer does to the texts and to the chunks that wait.           *)
(***************************************************************************)
SameTexts(a, b) ==
  \A s \in Subtask : /\ b.msgs[s].text = a.msgs[s].text
                     /\ b.msgs[s].st = "absent" <=> a.msgs[s].st = "absent"

\* No chunk waits that did not, and none for a worse reason.
HoldsNoMore(a, b) ==
  \/ b.chunks = <<>>
  \/ /\ b.chunks = a.chunks
     /\ \/ \A s \in Subtask : b.msgs[s].st # "streaming"
        \/ /\ \A s \in Subtask : b.msgs[s].st = "streaming" => a.msgs[s].st = "streaming"
           /\ b.status = a.status \/ {a.status, b.status} \subseteq Settled

Calm(a, b) == SameTexts(a, b) /\ HoldsNoMore(a, b) /\ b.closed = a.closed

LEMMA CalmSame == ASSUME NEW a PROVE Calm(a, a)
BY DEF Calm, SameTexts, HoldsNoMore

LEMMA CalmTwice == ASSUME NEW a, NEW b, NEW c, Calm(a, b), Calm(b, c) PROVE Calm(a, c)
BY DEF Calm, SameTexts, HoldsNoMore

LEMMA ErrorCalm ==
  ASSUME NEW a \in Machine, NEW s \in Subtask PROVE Calm(a, ChatError(a, s))
<1>1. CASE a.msgs[s].st = "absent" \/ a.task \in Terminal \/ ~IsActiveEvent(a, s)
  BY <1>1, CalmSame DEF ChatError
<1>2. CASE ~(a.msgs[s].st = "absent" \/ a.task \in Terminal \/ ~IsActiveEvent(a, s))
  <2>. DEFINE b == ChatError(a, s)
  <2>1. a.status = "streaming" /\ a.msgs[s].st # "absent" /\ a.msgs \in [Subtask -> Message]
    BY <1>2 DEF IsActiveEvent, Machine
  <2>. DEFINE ended == StreamEnded(a, "FAILED", a.upd, a.termUpd)
              c == [ended EXCEPT !.msgs[s].st = "error", !.msgs[s].sub = "FAILED"]
              new == [a.msgs[s] EXCEPT !.st = "error", !.sub = "FAILED"]
              told == [new EXCEPT !.err = TRUE, !.known = TRUE]
  <2>3. /\ ended.msgs = a.msgs /\ ended.chunks = a.chunks /\ ended.closed = a.closed
        /\ DOMAIN ended = DOMAIN a
    BY DEF StreamEnded, Machine
  <2>4. b = [c EXCEPT !.msgs[s].err = TRUE, !.msgs[s].known = TRUE, !.status = "error"]
    BY <1>2 DEF ChatError
  <2>d. {"msgs", "chunks", "closed", "status"} \subseteq DOMAIN a
    BY DEF Machine
  <2>. HIDE DEF ended, b
  <2>5. /\ c.msgs = [a.msgs EXCEPT ![s] = new] /\ c.chunks = a.chunks /\ c.closed = a.closed
        /\ DOMAIN c = DOMAIN a
    BY <2>1, <2>3, <2>d DEF Message
  <2>6. new.st = "error" /\ new.text = a.msgs[s].text /\ new \in Message
    BY <2>1 DEF Message, Execution, Terminal
  <2>. HIDE DEF c, new
  <2>7. /\ b.msgs = [c.msgs EXCEPT ![s] = [@ EXCEPT !.err = TRUE, !.known = TRUE]]
        /\ b.chunks = c.chunks /\ b.closed = c.closed /\ b.status = "error"
    BY <2>1, <2>4, <2>5, <2>6, <2>d DEF Message
  <2>8. told.text = a.msgs[s].text /\ told.st = "error"
    BY <2>6 DEF Message
  <2>. HIDE DEF told
  <2>2. /\ b.msgs = [a.msgs EXCEPT ![s] = told]
        /\ b.chunks = a.chunks /\ b.closed = a.closed /\ b.status = "error"
    BY <2>1, <2>5, <2>7 DEF told
  <2>9. \A r \in Subtask : /\ b.msgs[r].text = a.msgs[r].text
                           /\ b.msgs[r].st = IF r = s THEN "error" ELSE a.msgs[r].st
    BY <2>1, <2>2, <2>8
  <2>. QED
    BY <2>1, <2>2, <2>9 DEF Calm, SameTexts, HoldsNoMore, Settled, b
<1>. QED
  BY <1>1, <1>2

LEMMA CancelledCalm ==
  ASSUME NEW a \in Machine, NEW s \in Subtask PROVE Calm(a, ChatCancelled(a, s))
<1>1. CASE a.msgs[s].st = "absent" \/ a.task \in Terminal \/ ~IsActiveEvent(a, s)
  BY <1>1, CalmSame DEF ChatCancelled
<1>2. CASE ~(a.msgs[s].st = "absent" \/ a.task \in Terminal \/ ~IsActiveEvent(a, s))
  <2>. DEFINE b == ChatCancelled(a, s)
  <2>1. a.status = "streaming" /\ a.msgs[s].st # "absent" /\ a.msgs \in [Subtask -> Message]
    BY <1>2 DEF IsActiveEvent, Machine
  <2>2. /\ b.msgs = [a.msgs EXCEPT ![s] = [a.msgs[s] EXCEPT !.st = "completed",
                                             !.sub = "CANCELLED"]]
        /\ b.chunks = a.chunks /\ b.closed = a.closed /\ b.status = "ready"
    BY <1>2 DEF ChatCancelled, StreamEnded, Machine, Message
  <2>. HIDE DEF b
  <2>3. \A r \in Subtask : /\ b.msgs[r].text = a.msgs[r].text
                           /\ b.msgs[r].st = IF r = s THEN "completed" ELSE a.msgs[r].st
    BY <2>1, <2>2 DEF Message
  <2>. QED
    BY <2>1, <2>2, <2>3 DEF Calm, SameTexts, HoldsNoMore, Settled, b
<1>. QED
  BY <1>1, <1>2

LEMMA FinalizedCalm ==
  ASSUME NEW msg \in Message, NEW task \in Terminal
  PROVE  /\ Finalized(msg, task).text = msg.text
         /\ Finalized(msg, task).st = "absent" <=> msg.st = "absent"
BY DEF Finalized, Message

LEMMA StaleCalm ==
  ASSUME NEW msg \in Message, NEW sub
  PROVE  /\ Stale(msg, sub).text = msg.text /\ Stale(msg, sub).st # "streaming"
         /\ Stale(msg, sub).st = "absent" <=> msg.st = "absent"
BY DEF Stale, Message

LEMMA LifecycleCalm ==
  ASSUME NEW a \in Machine, NEW task \in Execution, NEW upd \in Nat
  PROVE  Calm(a, TaskLifecycle(a, task, upd))
<1>0. a.msgs \in [Subtask -> Message]
  BY DEF Machine
<1>. DEFINE time == IF upd # 0 THEN upd ELSE a.upd
            b == TaskLifecycle(a, task, upd)
<1>1. CASE Deferred(a, task) \/ Ignored(a, task, upd)
  <2>1. b.msgs = a.msgs /\ b.chunks = a.chunks /\ b.closed = a.closed /\ b.status = a.status
    BY <1>1 DEF TaskLifecycle, Machine
  <2>. HIDE DEF b
  <2>. QED
    BY <2>1 DEF Calm, SameTexts, HoldsNoMore, b
<1>2. CASE ~Deferred(a, task) /\ ~Ignored(a, task, upd) /\ task \notin Terminal
  <2>1. b.msgs = a.msgs /\ b.chunks = a.chunks /\ b.closed = a.closed /\ b.status = a.status
    BY <1>2 DEF TaskLifecycle, Machine
  <2>. HIDE DEF b
  <2>. QED
    BY <2>1 DEF Calm, SameTexts, HoldsNoMore, b
<1>3. CASE ~Deferred(a, task) /\ ~Ignored(a, task, upd) /\ task \in Terminal
  <2>1. b = TaskEnded(a, task, time)
    BY <1>3 DEF TaskLifecycle
  <2>2. /\ b.msgs = [s \in Subtask |-> Finalized(a.msgs[s], task)]
        /\ b.chunks = <<>> /\ b.closed = a.closed
    BY <2>1 DEF TaskEnded, Machine
  <2>. HIDE DEF b
  <2>3. \A s \in Subtask : b.msgs[s] = Finalized(a.msgs[s], task)
    BY <2>2
  <2>. QED
    BY <1>0, <1>3, <2>2, <2>3, FinalizedCalm DEF Calm, SameTexts, HoldsNoMore, b
<1>. QED
  BY <1>1, <1>2, <1>3

LEMMA AbsentCalm == ASSUME NEW a \in Machine PROVE Calm(a, StreamAbsent(a))
<1>. DEFINE b == StreamAbsent(a)
<1>0. a.msgs \in [Subtask -> Message]
  BY DEF Machine
<1>1. /\ b.msgs = [s \in Subtask |-> Stale(a.msgs[s], "absent")]
      /\ b.chunks = a.chunks /\ b.closed = a.closed
  BY DEF StreamAbsent, Machine
<1>. HIDE DEF b
<1>2. \A s \in Subtask : b.msgs[s] = Stale(a.msgs[s], "absent")
  BY <1>1
<1>3. \A s \in Subtask : /\ b.msgs[s].text = a.msgs[s].text /\ b.msgs[s].st # "streaming"
                         /\ b.msgs[s].st = "absent" <=> a.msgs[s].st = "absent"
  BY <1>0, <1>2, StaleCalm
<1>. QED
  BY <1>1, <1>3 DEF Calm, SameTexts, HoldsNoMore, b

\* A start shows its answer empty or as it was.
Opens(a, s) ==
  \/ a.msgs[s].st = "absent"
  \/ a.msgs[s].st = "streaming" /\ a.task \notin Terminal
  \/ Retrying(a, a.msgs[s])

LEMMA StartShows ==
  ASSUME NEW a \in Machine, NEW s \in Subtask
  PROVE  LET b == ChatStart(a, s)
         IN \/ b = a
            \/ /\ b.chunks = a.chunks /\ b.closed = a.closed /\ b.status = "streaming"
               /\ \A r \in Subtask : r # s => b.msgs[r] = a.msgs[r]
               /\ b.msgs[s].st = "streaming" /\ b.msgs[s].text \in {a.msgs[s].text, <<>>}
<1>. DEFINE new == [st |-> "streaming", sub |-> NoTask,
                    text |-> IF a.msgs[s].st = "streaming" THEN a.msgs[s].text ELSE <<>>,
                    known |-> TRUE, err |-> FALSE]
            c == WithMessage(a, s, new)
            b == ChatStart(a, s)
<1>1. CASE ~Opens(a, s)
  BY <1>1 DEF ChatStart, Opens
<1>2. CASE Opens(a, s)
  <2>0. a.msgs \in [Subtask -> Message]
    BY DEF Machine
  <2>1. new.st = "streaming" /\ new.text \in {a.msgs[s].text, <<>>}
    OBVIOUS
  <2>2. b = [c EXCEPT !.task = IF @ \in Terminal THEN "RUNNING" ELSE @,
                      !.phase = "streaming", !.status = "streaming",
                      !.active = s, !.confirmed = FALSE]
    BY <1>2 DEF ChatStart, Opens
  <2>. HIDE DEF new, b
  <2>3. /\ c.msgs = [a.msgs EXCEPT ![s] = new] /\ c.chunks = a.chunks /\ c.closed = a.closed
        /\ DOMAIN c = DOMAIN a
    BY DEF WithMessage, Machine
  <2>4. {"msgs", "chunks", "closed", "status"} \subseteq DOMAIN a
    BY DEF Machine
  <2>. HIDE DEF c
  <2>5. b.msgs = c.msgs /\ b.chunks = c.chunks /\ b.closed = c.closed /\ b.status = "streaming"
    BY <2>2, <2>3, <2>4
  <2>6. b.msgs[s] = new /\ \A r \in Subtask : r # s => b.msgs[r] = a.msgs[r]
    BY <2>0, <2>3, <2>5
  <2>. QED
    BY <2>1, <2>3, <2>5, <2>6 DEF b
<1>. QED
  BY <1>1, <1>2

\* A chunk waits, or is merged into the message that streams, or is dropped.
LEMMA ChunkShows ==
  ASSUME NEW a \in Machine, NEW s \in Subtask, NEW p \in Position
  PROVE  LET b == ChatChunk(a, s, p)
         IN \/ b = a
            \/ /\ a.status \in {"idle", "joining"} /\ b.status = a.status
               /\ b.msgs = a.msgs /\ b.closed = a.closed
               /\ b.chunks = Append(a.chunks, [s |-> s, p |-> p])
            \/ /\ a.status \notin {"idle", "joining"} /\ b.status = a.status
               /\ a.msgs[s].st = "streaming" /\ b.closed = a.closed /\ b.chunks = a.chunks
               /\ \A r \in Subtask : /\ b.msgs[r].st = a.msgs[r].st
                                     /\ r # s => b.msgs[r].text = a.msgs[r].text
               /\ b.msgs[s].text = MergeChunk(a.msgs[s].text, p)
<1>. DEFINE b == ChatChunk(a, s, p)
<1>1. CASE a.status \in {"idle", "joining"}
  BY <1>1 DEF ChatChunk, Machine
<1>2. CASE a.status \notin {"idle", "joining"} /\ a.msgs[s].st = "streaming"
  <2>. DEFINE t == MergeChunk(a.msgs[s].text, p)
              c == ChunkApplied(a, s, p)
  <2>0. a.msgs \in [Subtask -> Message]
    BY DEF Machine
  <2>1. b = [c EXCEPT !.confirmed = FALSE]
    BY <1>2 DEF ChatChunk
  <2>2. c = [a EXCEPT !.msgs[s].text = t, !.phase = "streaming", !.active = s]
    BY DEF ChunkApplied
  <2>. HIDE DEF t, c, b
  <2>3. /\ b.msgs = [a.msgs EXCEPT ![s] = [a.msgs[s] EXCEPT !.text = t]]
        /\ b.chunks = a.chunks /\ b.closed = a.closed /\ b.status = a.status
    BY <2>1, <2>2 DEF Machine
  <2>. DEFINE new == [a.msgs[s] EXCEPT !.text = t]
  <2>4. new.text = t /\ new.st = a.msgs[s].st
    BY <2>0 DEF Message
  <2>. HIDE DEF new
  <2>5. b.msgs[s] = new /\ \A r \in Subtask : r # s => b.msgs[r] = a.msgs[r]
    BY <2>0, <2>3 DEF new
  <2>. QED
    BY <1>2, <2>3, <2>4, <2>5 DEF b, t
<1>3. CASE a.status \notin {"idle", "joining"} /\ a.msgs[s].st # "streaming"
  BY <1>3 DEF ChatChunk
<1>. QED
  BY <1>1, <1>2, <1>3

\* A done shows the whole answer, or what was shown.
LEMMA DoneShows ==
  ASSUME NEW a \in Machine, NEW s \in Subtask
  PROVE  LET b == ChatDone(a, s)
         IN \/ b = a
            \/ /\ b.chunks = a.chunks /\ b.closed = a.closed
               /\ \/ b.status = a.status
                  \/ a.status = "streaming" /\ b.status = "ready"
               /\ \A r \in Subtask : r # s => b.msgs[r] = a.msgs[r]
               /\ b.msgs[s].st \in {"completed", "error"}
               /\ \/ b.msgs[s].text = Whole
                     /\ (Len(Whole) >= Len(a.msgs[s].text) \/ a.msgs[s].st = "absent")
                  \/ b.msgs[s].text = a.msgs[s].text
<1>. DEFINE msg == DoneMessage(a, s)
            active == IsActiveEvent(a, s)
            task == IF ~active THEN a.task
                    ELSE IF a.defTask # NoTask THEN a.defTask ELSE "COMPLETED"
            failed == task \in {"FAILED", "CANCELLED"}
            st == IF failed THEN "error" ELSE "completed"
            sub == IF failed THEN task ELSE "COMPLETED"
            text == IF failed THEN msg.text ELSE Longer(Whole, msg.text)
            new == [msg EXCEPT !.st = st, !.sub = sub, !.text = text, !.known = TRUE]
            ended == [a EXCEPT !.msgs[s] = new]
            u == IF a.defUpd # 0 THEN a.defUpd ELSE a.upd
            v == IF a.defUpd # 0 THEN a.defUpd ELSE a.termUpd
            b == ChatDone(a, s)
<1>0. a.msgs \in [Subtask -> Message] /\ msg \in Message
  BY DoneMessageTyped DEF Machine
<1>1. b = IF ~active /\ (msg.st = "error" \/ msg.sub \in {"FAILED", "CANCELLED"})
          THEN a ELSE IF ~active THEN ended
          ELSE [StreamEnded(ended, task, u, v) EXCEPT !.status = "ready"]
  BY DEF ChatDone, DoneMessage
<1>2. active => a.status = "streaming"
  BY DEF IsActiveEvent
<1>3. st \in {"completed", "error"}
  OBVIOUS
<1>4. \/ text = Whole /\ (Len(Whole) >= Len(a.msgs[s].text) \/ a.msgs[s].st = "absent")
      \/ text = a.msgs[s].text
  <2>1. msg.text = IF a.msgs[s].st = "absent" THEN Whole ELSE a.msgs[s].text
    BY DoneMessageTyped
  <2>2. Len(Whole) \in Nat /\ Len(a.msgs[s].text) \in Nat
    BY <1>0, WholeText DEF Message, Text
  <2>. QED
    BY <2>1, <2>2 DEF Longer
<1>. HIDE DEF msg, active, task, failed, st, sub, text, u, v, b
<1>5. new.st = st /\ new.text = text
  BY <1>0 DEF Message
<1>. HIDE DEF new
<1>6. /\ ended.msgs = [a.msgs EXCEPT ![s] = new] /\ ended.chunks = a.chunks
      /\ ended.closed = a.closed /\ ended.status = a.status /\ DOMAIN ended = DOMAIN a
  BY DEF Machine
<1>7. {"msgs", "chunks", "closed", "status"} \subseteq DOMAIN a
  BY DEF Machine
<1>. HIDE DEF ended
<1>. DEFINE c == StreamEnded(ended, task, u, v)
<1>8. /\ c.msgs = ended.msgs /\ c.chunks = ended.chunks /\ c.closed = ended.closed
      /\ DOMAIN c = DOMAIN a
  BY <1>6, <1>7 DEF StreamEnded
<1>. HIDE DEF c
<1>9. \/ b = a
      \/ /\ b.msgs = [a.msgs EXCEPT ![s] = new] /\ b.chunks = a.chunks /\ b.closed = a.closed
         /\ b.status = a.status \/ (a.status = "streaming" /\ b.status = "ready")
  BY <1>1, <1>2, <1>6, <1>7, <1>8 DEF c
<1>10. b = a \/ (b.msgs[s] = new /\ \A r \in Subtask : r # s => b.msgs[r] = a.msgs[r])
  BY <1>0, <1>9
<1>. QED
  BY <1>3, <1>4, <1>5, <1>9, <1>10 DEF b

(***************************************************************************)
(* The answer of a join: a text of the answer, when it is longer, and the  *)
(* chunks that waited.                                                     *)
(***************************************************************************)
Offers(snap, s) == {snap.text[s]} \cup (IF snap.stream = s THEN {snap.cached} ELSE {})
Better(u, t, snap, s) == u = t \/ (u \in Offers(snap, s) /\ Len(u) >= Len(t))

LEMMA BetterTwice ==
  ASSUME NEW t \in Text, NEW u \in Text, NEW w \in Text, NEW snap, NEW s,
         Better(u, t, snap, s), Better(w, u, snap, s)
  PROVE  Better(w, t, snap, s)
<1>1. Len(t) \in Nat /\ Len(u) \in Nat /\ Len(w) \in Nat
  BY DEF Text
<1>. QED
  BY <1>1 DEF Better

LEMMA LongerBetter ==
  ASSUME NEW t \in Text, NEW u \in Text, NEW snap, NEW s, u \in Offers(snap, s) \/ u = <<>>
  PROVE  Better(Longer(u, t), t, snap, s) /\ Better(Longer(t, u), t, snap, s)
<1>1. Len(t) \in Nat /\ Len(u) \in Nat /\ Len(<<>>) = 0
  BY DEF Text
<1>2. u = <<>> => Longer(u, t) = t
  BY <1>1 DEF Longer
<1>3. u = <<>> /\ Len(t) = 0 => t = <<>>
  BY DEF Text
<1>4. u = <<>> => Longer(t, u) = t
  BY <1>1, <1>3 DEF Longer
<1>5. Len(Longer(u, t)) >= Len(t) /\ Len(Longer(t, u)) >= Len(t)
      /\ Longer(u, t) \in {u, t} /\ Longer(t, u) \in {u, t}
  BY LongerTyped
<1>. QED
  BY <1>2, <1>4, <1>5 DEF Better

LEMMA BuiltOffers ==
  ASSUME NEW msg \in Message, NEW snap \in Snapshot, NEW s \in Subtask
  PROVE  /\ Better(Built(msg, snap, s).text, msg.text, snap, s)
         /\ Built(msg, snap, s).st = "absent" => Built(msg, snap, s) = msg
<1>. DEFINE kept == msg.st = "error" /\ msg.err
            stream == FromStream(snap, s)
            stored == Longer(msg.text, snap.text[s])
            built == Longer(stream, stored)
            over == Longer(snap.text[s], msg.text)
<1>1. msg.text \in Text /\ snap.text[s] \in Text /\ stream \in Text /\ stored \in Text
      /\ built \in Text
  <2>1. msg.text \in Text /\ snap.text[s] \in Text /\ stream \in Text
    BY SnapshotParts DEF Message, Text
  <2>. HIDE DEF stream
  <2>2. stored \in Text
    BY <2>1, LongerTyped
  <2>. HIDE DEF stored
  <2>. QED
    BY <2>1, <2>2, LongerTyped
<1>2. snap.text[s] \in Offers(snap, s) /\ (stream \in Offers(snap, s) \/ stream = <<>>)
  BY DEF Offers, FromStream
<1>3. CASE snap.subs[s] = "RUNNING"
  <2>1. Built(msg, snap, s) = [st |-> IF kept THEN "error" ELSE "streaming", sub |-> "RUNNING",
                               text |-> built, known |-> TRUE, err |-> kept]
    BY <1>3 DEF Built, BuiltText, FromStream, Terminal
  <2>2. Built(msg, snap, s).text = built /\ Built(msg, snap, s).st # "absent"
    BY <2>1
  <2>. HIDE DEF stream
  <2>3. Better(stored, msg.text, snap, s)
    BY <1>1, <1>2, LongerBetter
  <2>. HIDE DEF stored
  <2>4. Better(built, stored, snap, s)
    BY <1>1, <1>2, LongerBetter
  <2>. HIDE DEF built
  <2>. QED
    BY <1>1, <2>2, <2>3, <2>4, BetterTwice
<1>4. CASE snap.subs[s] \in Terminal
  <2>1. Built(msg, snap, s) =
          [st |-> IF kept \/ snap.subs[s] # "COMPLETED" THEN "error" ELSE "completed",
           sub |-> snap.subs[s], text |-> over,
           known |-> TRUE, err |-> kept \/ snap.subs[s] = "FAILED"]
    BY <1>4 DEF Built, Terminal
  <2>2. Built(msg, snap, s).text = over /\ Built(msg, snap, s).st # "absent"
    BY <2>1
  <2>3. Better(over, msg.text, snap, s)
    BY <1>1, <1>2, LongerBetter
  <2>. QED
    BY <2>2, <2>3
<1>5. CASE snap.subs[s] # "RUNNING" /\ snap.subs[s] \notin Terminal
  <2>1. Built(msg, snap, s) = msg
    BY <1>5 DEF Built
  <2>. QED
    BY <2>1 DEF Better
<1>. QED
  BY <1>3, <1>4, <1>5

LEMMA StreamOffers ==
  ASSUME NEW msg \in Message, NEW snap \in Snapshot, NEW s \in Subtask,
         msg.st = "absent" => msg.text = <<>>
  PROVE  /\ Better(WithStream(msg, snap, s).text, msg.text, snap, s)
         /\ WithStream(msg, snap, s).st = "absent" => WithStream(msg, snap, s) = msg
<1>1. msg.text \in Text /\ snap.cached \in Text
  BY SnapshotParts DEF Message, Text
<1>2. Len(snap.cached) \in Nat /\ Len(<<>>) = 0
  BY <1>1 DEF Text
<1>3. CASE snap.stream = s /\ msg.st = "absent"
  <2>1. WithStream(msg, snap, s) = [msg EXCEPT !.st = "streaming", !.text = snap.cached]
    BY <1>3 DEF WithStream
  <2>2. WithStream(msg, snap, s).text = snap.cached /\ WithStream(msg, snap, s).st = "streaming"
    BY <2>1 DEF Message
  <2>. QED
    BY <1>2, <1>3, <2>2 DEF Better, Offers
<1>4. CASE snap.stream = s /\ msg.st = "streaming"
  <2>. DEFINE longer == Longer(snap.cached, msg.text)
  <2>1. WithStream(msg, snap, s) = [msg EXCEPT !.text = longer]
    BY <1>4 DEF WithStream
  <2>2. Better(longer, msg.text, snap, s)
    BY <1>1, <1>4, LongerBetter DEF Offers
  <2>. HIDE DEF longer
  <2>3. WithStream(msg, snap, s).text = longer /\ WithStream(msg, snap, s).st = "streaming"
    BY <1>4, <2>1 DEF Message
  <2>. QED
    BY <2>2, <2>3
<1>5. CASE snap.stream # s \/ msg.st \notin {"absent", "streaming"}
  <2>1. WithStream(msg, snap, s) = msg
    BY <1>5 DEF WithStream
  <2>. QED
    BY <2>1 DEF Better
<1>. QED
  BY <1>3, <1>4, <1>5

LEMMA SyncedOffers ==
  ASSUME NEW a \in Machine, NEW snap \in Snapshot, NEW s \in Subtask,
         a.msgs[s].st = "absent" => a.msgs[s].text = <<>>
  PROVE  LET msg == SyncedMessages(a, snap)[s]
         IN /\ msg \in Message
            /\ Better(msg.text, a.msgs[s].text, snap, s)
            /\ msg.st = "absent" => a.msgs[s].st = "absent" /\ msg.text = a.msgs[s].text
<1>. DEFINE old == a.msgs[s]
            built == Built(old, snap, s)
            live == WithStream(built, snap, s)
            msg == SyncedMessages(a, snap)[s]
<1>1. old \in Message /\ built \in Message /\ live \in Message
  BY BuiltTyped, WithStreamTyped DEF Machine
<1>2. msg = IF snap.stream = 0 THEN Stale(live, snap.subs[s]) ELSE live
  BY DEF SyncedMessages
<1>3. msg \in Message
  BY SyncedMessagesTyped
<1>. HIDE DEF msg
<1>4. msg.text = live.text /\ (msg.st = "absent" <=> live.st = "absent")
  <2>. HIDE DEF live
  <2>. QED
    BY <1>1, <1>2, StaleCalm
<1>5. /\ Better(built.text, old.text, snap, s)
      /\ built.st = "absent" => built = old
  BY <1>1, BuiltOffers
<1>. HIDE DEF built
<1>6. /\ Better(live.text, built.text, snap, s)
      /\ live.st = "absent" => live = built
  BY <1>1, <1>5, StreamOffers
<1>. HIDE DEF live
<1>7. old.text \in Text /\ built.text \in Text /\ live.text \in Text
  BY <1>1 DEF Message, Text
<1>8. Better(live.text, old.text, snap, s)
  BY <1>5, <1>6, <1>7, BetterTwice
<1>. QED
  BY <1>3, <1>4, <1>5, <1>6, <1>8 DEF msg

LEMMA SyncShows ==
  ASSUME NEW a \in Machine, NEW snap \in Snapshot, NEW at \in Nat, NEW s \in Subtask,
         a.msgs[s].st = "absent" => a.msgs[s].text = <<>>
  PROVE  LET b == Synced(a, snap, at)
         IN /\ b.chunks = <<>> /\ b.closed = a.closed
            /\ \E u \in Text :
                 /\ Better(u, a.msgs[s].text, snap, s)
                 /\ \/ b.msgs[s].text = u
                    \/ b.msgs[s].text = Merged(u, a.chunks, s)
                 /\ b.msgs[s].st = "absent" =>
                      a.msgs[s].st = "absent" /\ b.msgs[s].text = a.msgs[s].text
<1>. DEFINE c == SnapshotApplied(a, snap, at)
            b == Synced(a, snap, at)
            msg == SyncedMessages(a, snap)[s]
            u == msg.text
<1>1. c \in Machine
  BY AppliedTyped
<1>2. c.msgs = SyncedMessages(a, snap) /\ c.chunks = a.chunks /\ c.closed = a.closed
  BY DEF SnapshotApplied, Machine
<1>3. /\ msg \in Message
      /\ Better(u, a.msgs[s].text, snap, s)
      /\ msg.st = "absent" => a.msgs[s].st = "absent" /\ u = a.msgs[s].text
  BY SyncedOffers
<1>4. b = ApplyPendingChunks(c)
  BY DEF Synced
<1>. HIDE DEF c, b
<1>5. /\ b.chunks = <<>> /\ b.closed = c.closed
      /\ b.msgs[s].text = MergedText(c, s) /\ b.msgs[s].st = c.msgs[s].st
  BY <1>1, <1>4, PendingTyped
<1>6. c.msgs[s] = msg
  BY <1>2
<1>. HIDE DEF msg
<1>7. b.msgs[s].text = IF msg.st = "streaming" THEN Merged(u, a.chunks, s) ELSE u
  BY <1>2, <1>5, <1>6 DEF MergedText
<1>8. u \in Text
  BY <1>3 DEF Message, Text
<1>9. msg.st = "absent" => b.msgs[s].text = u
  BY <1>7
<1>. HIDE DEF u
<1>. QED
  BY <1>2, <1>3, <1>5, <1>6, <1>7, <1>8, <1>9 DEF b

(***************************************************************************)
(* A send, and the recovery that a step starts.                            *)
(***************************************************************************)
SameView(a, b) == b.msgs = a.msgs /\ b.chunks = a.chunks /\ b.closed = a.closed

LEMMA AcceptedShows ==
  ASSUME NEW a \in Machine, NEW s \in Subtask, NEW at \in Nat
  PROVE  SameView(a, SendAccepted(a, s, at)) /\ SendAccepted(a, s, at).status \in Settled
BY DEF SendAccepted, Machine, SameView, Settled

\* A recovery leaves the texts alone and joins, or waits for the socket.
Pauses(a, b) ==
  SameView(a, b) /\ (b.status = "joining" \/ (~conn.on /\ b.status = "waiting_socket"))

LEMMA WaitingPauses ==
  ASSUME NEW a \in Machine, ~conn.on PROVE Pauses(a, EnterWaitingSocket(a))
BY DEF EnterWaitingSocket, Machine, SameView, Pauses

LEMMA RecoverPauses ==
  ASSUME NEW a \in Machine, NEW full, NEW after, NEW upd
  PROVE  Pauses(a, Recover(a, full, after, upd).m)
<1>. DEFINE pend == [on |-> TRUE, full |-> full, after |-> after]
            later == [a EXCEPT !.pend = pend]
            waits == EnterWaitingSocket(a)
            queued == [waits EXCEPT !.pend = pend]
            joining == EnterJoining(a)
<1>1. \/ a.status = "joining" /\ Recover(a, full, after, upd).m = later
      \/ ~conn.on /\ Recover(a, full, after, upd).m = queued
      \/ Recover(a, full, after, upd).m = joining
  BY DEF Recover, Step
<1>. HIDE DEF pend
<1>2. a.status = "joining" => Pauses(a, later)
  BY DEF Machine, Pauses, SameView
<1>3. ~conn.on => Pauses(a, queued)
  BY DEF EnterWaitingSocket, Machine, Pauses, SameView
<1>4. Pauses(a, joining)
  BY DEF EnterJoining, Machine, Pauses, SameView
<1>. QED
  BY <1>1, <1>2, <1>3, <1>4

LEMMA DispatchPauses ==
  ASSUME NEW a \in Machine
  PROVE  \/ Dispatched(a).m = a /\ Dispatched(a).sent = <<>>
         \/ Pauses(a, Dispatched(a).m)
<1>. DEFINE b == [a EXCEPT !.pend = NoRecovery]
<1>1. b \in Machine
  BY RecoveryTyped
<1>2. b.msgs = a.msgs /\ b.chunks = a.chunks /\ b.closed = a.closed
  BY DEF Machine
<1>3. Dispatched(a) = Recover(b, a.pend.full, a.pend.after, 0) \/ Dispatched(a) = Step(a, <<>>)
  BY DEF Dispatched
<1>. HIDE DEF b
<1>4. Pauses(b, Recover(b, a.pend.full, a.pend.after, 0).m)
  BY <1>1, RecoverPauses
<1>. QED
  BY <1>2, <1>3, <1>4 DEF Pauses, SameView, Step

(***************************************************************************)
(* The events on their way.                                                *)
(***************************************************************************)
Admits == ~\E j \in joins : Refuse(j)

DownStep ==
  \/ down' = down
  \/ down # <<>> /\ down' = Tail(down)
  \/ down' = <<>>
  \/ \E e : Issued(e) /\ down' = Append(down, e)
  \/ \E e, f : Issued(e) /\ Issued(f) /\ ~OfTurn(f) /\ down' = Append(Append(down, e), f)

LEMMA DownSteps == ASSUME Typed, Typed', Served, AllSent, [Next]_vars, Admits PROVE DownStep
<1>1. CASE Quiet \/ UNCHANGED vars
  BY <1>1, QuietKeeps DEF DownStep
<1>2. CASE Taken
  BY <1>2, TakenTakes DEF DownStep
<1>3. CASE Put
  BY <1>3, PutIssues DEF DownStep, Admits
<1>4. CASE Disconnect
  BY <1>4 DEF Disconnect, DownStep
<1>. QED
  BY <1>1, <1>2, <1>3, <1>4, QuietOrNot

\* What is on its way was on its way or is new.
LEMMA EventsNext ==
  ASSUME Typed, DownStep
  PROVE  \A i \in 1..Len(down') : Issued(down'[i]) \/ \E j \in 1..Len(down) : down'[i] = down[j]
<1>0. down \in Seq(Events)
  BY DEF Typed
<1>1. CASE down' = down
  BY <1>1
<1>2. CASE down # <<>> /\ down' = Tail(down)
  <2>1. \A i \in 1..Len(Tail(down)) : i + 1 \in 1..Len(down) /\ Tail(down)[i] = down[i + 1]
    BY <1>0, <1>2, TailIs
  <2>. QED
    BY <1>2, <2>1
<1>3. CASE down' = <<>>
  BY <1>3
<1>4. ASSUME NEW e, Issued(e), down' = Append(down, e)
      PROVE  \A i \in 1..Len(down') :
               Issued(down'[i]) \/ \E j \in 1..Len(down) : down'[i] = down[j]
  <2>1. /\ Len(down) \in Nat /\ Len(down') = Len(down) + 1
        /\ \A i \in 1..Len(down) : down'[i] = down[i]
        /\ down'[Len(down) + 1] = e
    BY <1>0, <1>4, AppendIs
  <2>2. \A i \in 1..Len(down') : i \in 1..Len(down) \/ i = Len(down) + 1
    BY <2>1
  <2>. QED
    BY <1>4, <2>1, <2>2
<1>5. ASSUME NEW e, NEW f, Issued(e), Issued(f), down' = Append(Append(down, e), f)
      PROVE  \A i \in 1..Len(down') :
               Issued(down'[i]) \/ \E j \in 1..Len(down) : down'[i] = down[j]
  <2>. DEFINE q == Append(down, e)
  <2>1. /\ Len(down) \in Nat /\ Len(q) = Len(down) + 1
        /\ \A i \in 1..Len(down) : q[i] = down[i]
        /\ q[Len(down) + 1] = e
    BY <1>0, AppendIs
  <2>0. q \in Seq(Events)
    BY <1>0, <1>5 DEF Issued
  <2>. HIDE DEF q
  <2>2. /\ Len(down') = Len(q) + 1 /\ \A i \in 1..Len(q) : down'[i] = q[i]
        /\ down'[Len(q) + 1] = f
    <3>1. down' = Append(q, f)
      BY <1>5 DEF q
    <3>. QED
      BY <2>0, <3>1, AppendIs
  <2>3. \A i \in 1..Len(down') : i \in 1..Len(down) \/ i = Len(down) + 1 \/ i = Len(down) + 2
    BY <2>1, <2>2
  <2>4. /\ Len(down) + 1 \in 1..Len(q) /\ Len(q) + 1 = Len(down) + 2
        /\ \A i \in 1..Len(down) : i \in 1..Len(q)
    BY <2>1
  <2>5. \A i \in 1..Len(down) : down'[i] = down[i]
    BY <2>1, <2>2, <2>4
  <2>6. down'[Len(down) + 1] = e /\ down'[Len(down) + 2] = f
    BY <2>1, <2>2, <2>4
  <2>. QED
    BY <1>5, <2>3, <2>5, <2>6
<1>. QED
  BY <1>1, <1>2, <1>3, <1>4, <1>5 DEF DownStep

LEMMA DownSentNext ==
  ASSUME Typed, Typed', Served, AllSent, [Next]_vars, Admits PROVE DownSent(srv', down')
<1>0. down \in Seq(Events) /\ ServerTyped' /\ Grows /\ DownStep
  BY ServerGrows, DownSteps DEF Typed
<1>1. ASSUME NEW i \in 1..Len(down') PROVE Sent(srv', down'[i])
  <2>1. CASE Issued(down'[i])
    BY <2>1 DEF Issued
  <2>2. CASE \E j \in 1..Len(down) : down'[i] = down[j]
    <3>1. PICK j \in 1..Len(down) : down'[i] = down[j]
      BY <2>2
    <3>2. down[j] \in Events /\ Sent(srv, down[j])
      BY <1>0 DEF AllSent, DownSent
    <3>3. Sent(srv', down[j])
      BY <1>0, <3>2, SentStays
    <3>. QED
      BY <3>1, <3>3
  <2>. QED
    BY <1>0, <2>1, <2>2, EventsNext
<1>. QED
  BY <1>1 DEF DownSent

\* No chunk of a turn follows once none is on its way and none can be sent.
LEMMA DrainedStays ==
  ASSUME Typed, DownStep, NEW s, Drained(down, s), s # srv.turn \/ ~conn.room
  PROVE  Drained(down', s)
<1>1. ASSUME NEW i \in 1..Len(down') PROVE ~(down'[i].type = "chunk" /\ down'[i].s = s)
  <2>1. CASE Issued(down'[i])
    BY <2>1 DEF Issued
  <2>2. CASE \E j \in 1..Len(down) : down'[i] = down[j]
    BY <2>2 DEF Drained
  <2>. QED
    BY <2>1, <2>2, EventsNext
<1>. QED
  BY <1>1 DEF Drained

LEMMA PastStays ==
  ASSUME Typed, Typed', Grows, DownStep PROVE Past(srv, down) \subseteq Past(srv', down')
<1>0. srv.turn \in Nat /\ srv'.turn \in Nat /\ srv'.turn >= srv.turn /\ Subtask \subseteq Nat
  <2>1. srv.turn \in Subtask /\ srv'.turn \in Subtask
    BY DEF Typed, ServerTyped, Servers
  <2>. QED
    BY <2>1, SubtaskNumbers DEF Grows
<1>1. ASSUME NEW s \in Past(srv, down) PROVE s \in Past(srv', down')
  <2>1. s \in Subtask /\ s < srv.turn /\ Drained(down, s)
    BY DEF Past
  <2>2. s < srv'.turn /\ s # srv.turn
    BY <1>0, <2>1
  <2>3. Drained(down', s)
    BY <2>1, <2>2, DrainedStays
  <2>. QED
    BY <2>1, <2>2, <2>3 DEF Past
<1>. QED
  BY <1>1

\* The rows that a handler has read.
LEMMA StoredProduced == ASSUME Typed, NEW s \in Subtask PROVE Produced(srv, Stored(s), s)
<1>1. srv.out[s] \in 0..Length /\ 0 \in 0..Length /\ Length \in Nat
  BY ServerFields, MachineAssumption DEF Typed, ServerTyped
<1>. DEFINE n == IF srv.sub[s] \in Terminal THEN srv.out[s] ELSE 0
<1>2. n \in 0..Length /\ n <= srv.out[s]
  BY <1>1
<1>3. Stored(s) = Cut(Whole, n)
  BY DEF Stored
<1>. HIDE DEF n
<1>. QED
  BY <1>2, <1>3, PartOfWhole DEF Produced

LEMMA JoinSteps ==
  ASSUME [Next]_vars
  PROVE  \/ joins' = joins \/ Receive \/ Disconnect
         \/ \E j \in joins : \/ Enter(j) \/ ReadStream(j) \/ ReadSubtasks(j)
                            \/ Answer(j) \/ Refuse(j)
BY DEF Next, Tab, User, Server, Network, vars, DeliverStart, DeliverChunk, DeliverDone,
       DeliverError, DeliverCancelled, Reduced, DeliverStatus, DeliverReply, DeliverAnswer,
       DropAnswer, DropEvent, DetailArrives, Reconcile, Probe, Select, Deselect, BecomeVisible,
       Send, DetailRead, CheckRead, Reply, Begin, Start, Produce, Persist, Tell, Reconnect,
       CheckFails

LEMMA RowsNext ==
  ASSUME Typed, Typed', Served, RowsSent(srv, joins), [Next]_vars PROVE RowsSent(srv', joins')
<1>0. Grows /\ ServerTyped' /\ joins \subseteq Handlers
  BY ServerGrows DEF Typed
<1>1. ASSUME NEW j \in joins', j.at = "rows", NEW s \in Subtask PROVE Produced(srv', j.text[s], s)
  <2>1. CASE j \in joins
    <3>1. j.text[s] \in Text /\ Produced(srv, j.text[s], s)
      BY <1>0, <1>1, <2>1, HandlerKinds DEF RowsSent, Loaded
    <3>. QED
      BY <1>0, <3>1, ProducedStays
  <2>2. CASE j \notin joins
    <3>1. ~(Receive \/ Disconnect \/ joins' = joins)
      BY <1>1, <2>2 DEF Receive, Disconnect
    <3>2. ~\E i \in joins : Enter(i)
      <4>1. ASSUME NEW i \in joins, Enter(i) PROVE FALSE
        <5>1. j = [i EXCEPT !.at = "entered"] /\ i \in Arrived
          BY <1>0, <1>1, <2>2, <4>1, HandlerKinds DEF Enter
        <5>2. j.at = "entered"
          BY <5>1 DEF Arrived
        <5>. QED
          BY <1>1, <5>2
      <4>. QED
        BY <4>1
    <3>3. ~\E i \in joins : ReadStream(i) \/ Answer(i) \/ Refuse(i)
      <4>1. ASSUME NEW i \in joins, ReadStream(i) PROVE FALSE
        <5>1. j = [at |-> "stream", v |-> i.v, after |-> i.after, upd |-> i.upd,
                   stream |-> ActiveStream]
          BY <1>1, <2>2, <4>1 DEF ReadStream
        <5>. QED
          BY <1>1, <5>1
      <4>2. ASSUME NEW i \in joins, Answer(i) \/ Refuse(i) PROVE FALSE
        <5>1. joins' = joins \ {i}
          BY <4>2 DEF Answer, Refuse
        <5>. QED
          BY <2>2, <5>1
      <4>. QED
        BY <4>1, <4>2
    <3>4. PICK i \in joins : ReadSubtasks(i)
      BY <3>1, <3>2, <3>3, JoinSteps
    <3>5. j.text = [r \in Subtask |-> Stored(r)] /\ srv' = srv
      BY <2>2, <3>4 DEF ReadSubtasks
    <3>. QED
      BY <3>5, StoredProduced
  <2>. QED
    BY <2>1, <2>2
<1>. QED
  BY <1>1 DEF RowsSent

(***************************************************************************)
(* What a step makes of the machine: a reducer, and perhaps a recovery.    *)
(***************************************************************************)
Reached(b) == m' = b \/ Pauses(b, m')

Reducer(b) ==
  \/ Calm(m, b)
  \/ ~m.closed /\ Deliver("start") /\ b = ChatStart(m, Head(down).s)
  \/ ~m.closed /\ Deliver("chunk") /\ b = ChatChunk(m, Head(down).s, Head(down).p)
  \/ ~m.closed /\ Deliver("done") /\ b = ChatDone(m, Head(down).s)
  \/ ~m.closed /\ Deliver("reply") /\ b = SendAccepted(m, Head(down).s, srv.clock)
  \/ ~m.closed /\ Deliver("answer") /\ Head(down).ok
       /\ \E at \in Nat : b = Synced(m, Head(down).snap, at)
  \/ (m.closed \/ b.closed) /\ \E v \in Nat, c \in BOOLEAN : b = Fresh(v, c)

LEMMA StepReaches == ASSUME NEW b \in Machine, m' = Dispatched(b).m PROVE Reached(b)
BY DispatchPauses DEF Reached

LEMMA ReducedReaches ==
  ASSUME NEW b \in Machine, Reduced(b) PROVE Reached(b) /\ ~m.closed
<1>1. m' = Dispatched(b).m /\ ~m.closed
  BY DEF Reduced, Perform, PerformAfter
<1>. QED
  BY <1>1, StepReaches

LEMMA EventReaches ==
  ASSUME Typed, DeliverStart \/ DeliverChunk \/ DeliverDone \/ DeliverError \/ DeliverCancelled
  PROVE  \E b \in Machine : Reached(b) /\ Reducer(b)
<1>. DEFINE e == Head(down)
<1>0. m \in Machine
  BY DEF Typed
<1>1. CASE DeliverStart
  <2>1. e \in Events /\ e.type = "start" /\ Deliver("start") /\ Reduced(ChatStart(m, e.s))
    BY <1>1, DeliveredTyped DEF DeliverStart
  <2>2. ChatStart(m, e.s) \in Machine
    BY <1>0, <2>1, EventKinds, StartTyped
  <2>3. Reached(ChatStart(m, e.s)) /\ ~m.closed
    BY <2>1, <2>2, ReducedReaches
  <2>. QED
    BY <2>1, <2>2, <2>3 DEF Reducer
<1>2. CASE DeliverChunk
  <2>1. e \in Events /\ e.type = "chunk" /\ Deliver("chunk") /\ Reduced(ChatChunk(m, e.s, e.p))
    BY <1>2, DeliveredTyped DEF DeliverChunk
  <2>2. ChatChunk(m, e.s, e.p) \in Machine
    BY <1>0, <2>1, EventKinds, ChunkTyped
  <2>3. Reached(ChatChunk(m, e.s, e.p)) /\ ~m.closed
    BY <2>1, <2>2, ReducedReaches
  <2>. QED
    BY <2>1, <2>2, <2>3 DEF Reducer
<1>3. CASE DeliverDone
  <2>1. e \in Events /\ e.type = "done" /\ Deliver("done") /\ Reduced(ChatDone(m, e.s))
    BY <1>3, DeliveredTyped DEF DeliverDone
  <2>2. ChatDone(m, e.s) \in Machine
    BY <1>0, <2>1, EventKinds, DoneTyped
  <2>3. Reached(ChatDone(m, e.s)) /\ ~m.closed
    BY <2>1, <2>2, ReducedReaches
  <2>. QED
    BY <2>1, <2>2, <2>3 DEF Reducer
<1>4. CASE DeliverError
  <2>1. e \in Events /\ e.type = "error" /\ Reduced(ChatError(m, e.s))
    BY <1>4, DeliveredTyped DEF DeliverError
  <2>2. ChatError(m, e.s) \in Machine /\ Calm(m, ChatError(m, e.s))
    BY <1>0, <2>1, EventKinds, ErrorTyped, ErrorCalm
  <2>. QED
    BY <2>1, <2>2, ReducedReaches DEF Reducer
<1>5. CASE DeliverCancelled
  <2>1. e \in Events /\ e.type = "cancelled" /\ Reduced(ChatCancelled(m, e.s))
    BY <1>5, DeliveredTyped DEF DeliverCancelled
  <2>2. ChatCancelled(m, e.s) \in Machine /\ Calm(m, ChatCancelled(m, e.s))
    BY <1>0, <2>1, EventKinds, CancelledTyped, CancelledCalm
  <2>. QED
    BY <2>1, <2>2, ReducedReaches DEF Reducer
<1>. QED
  BY <1>1, <1>2, <1>3, <1>4, <1>5

LEMMA StatusReaches ==
  ASSUME Typed, DeliverStatus \/ DetailArrives
  PROVE  \E b \in Machine : Reached(b) /\ Reducer(b)
<1>0. m \in Machine /\ m' \in Machine
  BY StatusStepTyped DEF Typed
<1>1. CASE DeliverStatus
  <2>. DEFINE e == Head(down)
  <2>1. e \in Events /\ e.type = "status"
    BY <1>1, DeliveredTyped DEF DeliverStatus
  <2>2. e.task \in Execution /\ e.upd \in Nat
    BY <2>1, EventKinds
  <2>3. m' = TaskLifecycle(m, e.task, e.upd) \/ m' = m
    BY <1>1 DEF DeliverStatus
  <2>4. Calm(m, m')
    BY <1>0, <2>2, <2>3, LifecycleCalm, CalmSame
  <2>. QED
    BY <1>0, <2>4 DEF Reached, Reducer
<1>2. CASE DetailArrives
  <2>1. detail.task \in Execution /\ detail.upd \in Nat
    BY <1>2, ReadKinds DEF DetailArrives
  <2>2. m' = TaskLifecycle(m, detail.task, detail.upd)
    BY <1>2 DEF DetailArrives
  <2>3. Calm(m, m')
    BY <1>0, <2>1, <2>2, LifecycleCalm
  <2>. QED
    BY <1>0, <2>3 DEF Reached, Reducer
<1>. QED
  BY <1>1, <1>2

LEMMA ReplyReaches ==
  ASSUME Typed, DeliverReply PROVE \E b \in Machine : Reached(b) /\ Reducer(b)
<1>. DEFINE e == Head(down)
            b == SendAccepted(m, e.s, srv.clock)
            st == Dispatched(b)
            sent == IF conn.joinedTask \/ st.sent # <<>> THEN st.sent
                    ELSE Append(st.sent, [type |-> "join", v |-> 0, after |-> NoCursor, upd |-> 0])
<1>1. e \in Events /\ e.type = "reply" /\ Deliver("reply") /\ ~m.closed
  BY DeliveredTyped DEF DeliverReply
<1>2. e.s \in Subtask /\ m \in Machine /\ srv.clock \in Nat
  BY <1>1, EventKinds DEF Typed, ServerTyped, Servers
<1>3. b \in Machine
  BY <1>2, AcceptedTyped
<1>4. m' = [st EXCEPT !.sent = sent].m
  BY DEF DeliverReply, Perform, PerformAfter
<1>5. "m" \in DOMAIN st
  BY DEF Dispatched, Recover, Step
<1>. HIDE DEF st, sent
<1>6. m' = st.m
  BY <1>4, <1>5
<1>7. Reached(b)
  <2>. HIDE DEF b
  <2>. QED
    BY <1>3, <1>6, StepReaches DEF st
<1>. QED
  BY <1>1, <1>3, <1>7 DEF Reducer

LEMMA AnswerReaches ==
  ASSUME Typed, AllSent, DeliverAnswer PROVE \E b \in Machine : Reached(b) /\ Reducer(b)
<1>. DEFINE answer == Head(down)
            at == IF answer.upd # 0 THEN answer.upd ELSE m.upd
            b == Synced(m, answer.snap, at)
<1>1. /\ answer \in Events /\ answer.type = "answer" /\ Deliver("answer") /\ answer = down[1]
      /\ 1 \in 1..Len(down)
  <2>1. down \in Seq(Events) /\ down # <<>>
    BY DEF Typed, DeliverAnswer, Deliver
  <2>. QED
    BY <2>1, DeliveredTyped DEF DeliverAnswer
<1>2. answer.ok
  BY <1>1 DEF AllSent, DownSent, Sent
<1>3. m \in Machine /\ at \in Nat /\ answer.snap \in Snapshot
  BY <1>1, <1>2, EventKinds DEF Typed, Machine
<1>4. b \in Machine
  BY <1>3, SyncTyped
<1>5. \/ ~m.closed /\ m' = Dispatched(b).m
      \/ m' = Dispatched(m).m
      \/ m' = m
  BY <1>2 DEF DeliverAnswer, PerformAfter, Answered, Step
<1>6. CASE ~m.closed /\ m' = Dispatched(b).m
  <2>1. Reducer(b)
    BY <1>1, <1>2, <1>3, <1>6 DEF Reducer
  <2>. HIDE DEF b
  <2>. QED
    BY <1>4, <1>6, <2>1, StepReaches
<1>7. CASE m' = Dispatched(m).m \/ m' = m
  <2>1. Reached(m)
    BY <1>3, <1>7, StepReaches DEF Reached
  <2>. QED
    BY <1>3, <2>1, CalmSame DEF Reducer
<1>. QED
  BY <1>5, <1>6, <1>7

LEMMA ReconcileReaches ==
  ASSUME Typed, Reconcile PROVE \E b \in Machine : Reached(b) /\ Reducer(b)
<1>. DEFINE after == IF check.stream # 0 THEN NoCursor ELSE CursorBefore(m)
            known == TaskLifecycle(m, check.task, check.upd)
<1>1. /\ m \in Machine /\ check.task \in Execution /\ check.upd \in Nat
  BY ReadKinds DEF Typed, Reconcile
<1>2. known \in Machine /\ Calm(m, known)
  BY <1>1, LifecycleTyped, LifecycleCalm
<1>3. \/ ~conn.on /\ m' = EnterWaitingSocket(known)
      \/ m' = Recover(known, check.reconnect, after, check.upd).m
      \/ m' = StreamAbsent(known)
      \/ m' = known
  BY DEF Reconcile, Perform, PerformAfter, Step
<1>. HIDE DEF known, after
<1>4. CASE m' # StreamAbsent(known)
  <2>1. Reached(known)
    BY <1>2, <1>3, <1>4, WaitingPauses, RecoverPauses DEF Reached
  <2>. QED
    BY <1>2, <2>1 DEF Reducer
<1>5. CASE m' = StreamAbsent(known)
  <2>1. m' \in Machine /\ Calm(m, m')
    BY <1>2, <1>5, AbsentTyped, AbsentCalm, CalmTwice
  <2>. QED
    BY <2>1 DEF Reached, Reducer
<1>. QED
  BY <1>4, <1>5

LEMMA SelectionReaches ==
  ASSUME Typed, Select \/ Deselect PROVE \E b \in Machine : Reached(b) /\ Reducer(b)
<1>0. m.version \in Nat /\ m.version + 1 \in Nat
  BY DEF Typed, Machine
<1>1. CASE Select
  <2>1. Fresh(m.version, FALSE) \in Machine
    BY <1>0, FreshTyped
  <2>2. m' = Recover(Fresh(m.version, FALSE), FALSE, NoCursor, 0).m /\ m.closed
    BY <1>1 DEF Select, Perform, PerformAfter
  <2>3. Reached(Fresh(m.version, FALSE))
    BY <2>1, <2>2, RecoverPauses DEF Reached
  <2>. QED
    BY <1>0, <2>1, <2>2, <2>3 DEF Reducer
<1>2. CASE Deselect
  <2>1. Fresh(m.version + 1, TRUE) \in Machine /\ Fresh(m.version + 1, TRUE).closed
    BY <1>0, FreshTyped DEF Fresh
  <2>2. m' = Fresh(m.version + 1, TRUE)
    BY <1>2 DEF Deselect, Perform, PerformAfter, Step
  <2>. QED
    BY <1>0, <2>1, <2>2 DEF Reached, Reducer
<1>. QED
  BY <1>1, <1>2

LEMMA Reaches ==
  ASSUME Typed, AllSent, [Next]_vars PROVE \E b \in Machine : Reached(b) /\ Reducer(b)
<1>1. CASE DeliverStart \/ DeliverChunk \/ DeliverDone \/ DeliverError \/ DeliverCancelled
  BY <1>1, EventReaches
<1>2. CASE DeliverStatus \/ DetailArrives
  BY <1>2, StatusReaches
<1>3. CASE DeliverReply \/ DeliverAnswer \/ Reconcile
  BY <1>3, ReplyReaches, AnswerReaches, ReconcileReaches
<1>4. CASE Select \/ Deselect
  BY <1>4, SelectionReaches
<1>5. CASE Elsewhere \/ UNCHANGED vars
  <2>1. m' = m /\ m \in Machine
    BY <1>5, ElsewhereRuns DEF Typed
  <2>. QED
    BY <2>1, CalmSame DEF Reached, Reducer
<1>. QED
  BY <1>1, <1>2, <1>3, <1>4, <1>5, TabOrElsewhere

(***************************************************************************)
(* What a step makes of one text and of the chunks that wait.              *)
(***************************************************************************)
Same(b, s) ==
  /\ b.msgs[s].text = m.msgs[s].text /\ (b.closed => m.closed)
  /\ b.msgs[s].st = "absent" => m.msgs[s].st = "absent"

Emptied(b, s) ==
  b.msgs[s].text = <<>> /\ (m.closed \/ b.closed \/ (Deliver("start") /\ Head(down).s = s))

MergesChunk(b, s) ==
  /\ Deliver("chunk") /\ Head(down).s = s /\ ~b.closed /\ b.msgs[s].st # "absent"
  /\ m.status \notin {"idle", "joining"} /\ m.msgs[s].st = "streaming" /\ b.chunks = m.chunks
  /\ b.msgs[s].text = MergeChunk(m.msgs[s].text, Head(down).p)

Completes(b, s) ==
  /\ Deliver("done") /\ Head(down).s = s /\ ~b.closed /\ b.msgs[s].st # "absent"
  /\ b.msgs[s].text = Whole
  /\ Len(Whole) >= Len(m.msgs[s].text) \/ m.msgs[s].st = "absent"

Syncs(b, s) ==
  /\ Deliver("answer") /\ Head(down).ok /\ ~b.closed
  /\ b.msgs[s].st = "absent" => m.msgs[s].st = "absent" /\ b.msgs[s].text = m.msgs[s].text
  /\ b.chunks = <<>>
  /\ \E u \in Text : /\ Better(u, m.msgs[s].text, Head(down).snap, s)
                     /\ \/ b.msgs[s].text = u
                        \/ b.msgs[s].text = Merged(u, m.chunks, s)

TextStep(b, s) == Same(b, s) \/ Emptied(b, s) \/ MergesChunk(b, s) \/ Completes(b, s) \/ Syncs(b, s)

ChunksStep(b) ==
  \/ b.chunks = m.chunks \/ b.chunks = <<>>
  \/ /\ Deliver("chunk") /\ m.status \in {"idle", "joining"} /\ b.status = m.status
     /\ b.chunks = Append(m.chunks, [s |-> Head(down).s, p |-> Head(down).p])

DeliveredHead(type) ==
  /\ Head(down) \in Events /\ Head(down).type = type
  /\ type \in {"start", "done", "reply", "chunk"} => Head(down).s \in Subtask
  /\ type = "chunk" => Head(down).p \in Position
  /\ type = "answer" /\ Head(down).ok => Head(down).snap \in Snapshot

LEMMA DeliveredKinds ==
  ASSUME NEW type, Typed, Deliver(type) PROVE DeliveredHead(type)
BY DeliveredTyped, EventKinds DEF DeliveredHead

LEMMA TextSteps ==
  ASSUME Typed, NEW b \in Machine, Reducer(b), NEW s \in Subtask,
         m.msgs[s].st = "absent" => m.msgs[s].text = <<>>
  PROVE  TextStep(b, s)
<1>0. m \in Machine /\ m.closed \in BOOLEAN
  BY DEF Typed, Machine
<1>1. CASE Calm(m, b)
  BY <1>1 DEF Calm, SameTexts, TextStep, Same
<1>2. CASE ~m.closed /\ Deliver("start") /\ b = ChatStart(m, Head(down).s)
  <2>. DEFINE r == Head(down).s
  <2>1. r \in Subtask
    BY <1>2, DeliveredKinds DEF DeliveredHead
  <2>. HIDE DEF r
  <2>2. \/ b = m
        \/ /\ b.chunks = m.chunks /\ b.closed = m.closed /\ b.status = "streaming"
           /\ \A t \in Subtask : t # r => b.msgs[t] = m.msgs[t]
           /\ b.msgs[r].st = "streaming" /\ b.msgs[r].text \in {m.msgs[r].text, <<>>}
    BY <1>0, <1>2, <2>1, StartShows DEF r
  <2>. QED
    BY <1>2, <2>2 DEF TextStep, Same, Emptied, r
<1>3. CASE ~m.closed /\ Deliver("chunk") /\ b = ChatChunk(m, Head(down).s, Head(down).p)
  <2>. DEFINE r == Head(down).s
              p == Head(down).p
  <2>1. r \in Subtask /\ p \in Position
    BY <1>3, DeliveredKinds DEF DeliveredHead
  <2>. HIDE DEF r, p
  <2>c. b = ChatChunk(m, r, p)
    BY <1>3 DEF r, p
  <2>2. \/ b = m
        \/ /\ m.status \in {"idle", "joining"} /\ b.status = m.status
           /\ b.msgs = m.msgs /\ b.closed = m.closed
           /\ b.chunks = Append(m.chunks, [s |-> r, p |-> p])
        \/ /\ m.status \notin {"idle", "joining"} /\ b.status = m.status
           /\ m.msgs[r].st = "streaming" /\ b.closed = m.closed /\ b.chunks = m.chunks
           /\ \A t \in Subtask : /\ b.msgs[t].st = m.msgs[t].st
                                 /\ t # r => b.msgs[t].text = m.msgs[t].text
           /\ b.msgs[r].text = MergeChunk(m.msgs[r].text, p)
    BY <1>0, <2>c, <2>1, ChunkShows
  <2>. QED
    BY <1>3, <2>1, <2>2 DEF TextStep, Same, MergesChunk, r, p
<1>4. CASE ~m.closed /\ Deliver("done") /\ b = ChatDone(m, Head(down).s)
  <2>. DEFINE r == Head(down).s
  <2>1. r \in Subtask
    BY <1>4, DeliveredKinds DEF DeliveredHead
  <2>. HIDE DEF r
  <2>2. \/ b = m
        \/ /\ b.chunks = m.chunks /\ b.closed = m.closed
           /\ \A t \in Subtask : t # r => b.msgs[t] = m.msgs[t]
           /\ b.msgs[r].st \in {"completed", "error"}
           /\ \/ b.msgs[r].text = Whole
                 /\ (Len(Whole) >= Len(m.msgs[r].text) \/ m.msgs[r].st = "absent")
              \/ b.msgs[r].text = m.msgs[r].text
    BY <1>0, <1>4, <2>1, DoneShows DEF r
  <2>. QED
    BY <1>4, <2>2 DEF TextStep, Same, Completes, r
<1>5. CASE ~m.closed /\ Deliver("reply") /\ b = SendAccepted(m, Head(down).s, srv.clock)
  <2>1. Head(down).s \in Subtask /\ srv.clock \in Nat
    BY <1>5, DeliveredKinds, ServerFields DEF DeliveredHead, Typed, ServerTyped
  <2>2. SameView(m, b)
    BY <1>0, <1>5, <2>1, AcceptedShows
  <2>. QED
    BY <2>2 DEF TextStep, Same, SameView
<1>6. CASE /\ ~m.closed /\ Deliver("answer") /\ Head(down).ok
           /\ \E at \in Nat : b = Synced(m, Head(down).snap, at)
  <2>1. PICK at \in Nat : b = Synced(m, Head(down).snap, at)
    BY <1>6
  <2>2. Head(down).snap \in Snapshot
    BY <1>6, DeliveredKinds DEF DeliveredHead
  <2>3. /\ b.chunks = <<>> /\ b.closed = m.closed
        /\ \E u \in Text :
             /\ Better(u, m.msgs[s].text, Head(down).snap, s)
             /\ \/ b.msgs[s].text = u
                \/ b.msgs[s].text = Merged(u, m.chunks, s)
             /\ b.msgs[s].st = "absent" =>
                  m.msgs[s].st = "absent" /\ b.msgs[s].text = m.msgs[s].text
    BY <1>0, <2>1, <2>2, SyncShows
  <2>4. Syncs(b, s)
    BY <1>6, <2>3 DEF Syncs
  <2>. QED
    BY <2>4 DEF TextStep
<1>7. CASE (m.closed \/ b.closed) /\ \E v \in Nat, c \in BOOLEAN : b = Fresh(v, c)
  <2>1. b.msgs = [r \in Subtask |-> NoMessage]
    BY <1>7 DEF Fresh
  <2>2. b.msgs[s].text = <<>>
    BY <2>1 DEF NoMessage
  <2>. QED
    BY <1>7, <2>2 DEF TextStep, Emptied
<1>. QED
  BY <1>1, <1>2, <1>3, <1>4, <1>5, <1>6, <1>7 DEF Reducer

LEMMA ChunksSteps == ASSUME Typed, NEW b \in Machine, Reducer(b) PROVE ChunksStep(b)
<1>0. m \in Machine
  BY DEF Typed
<1>1. CASE Calm(m, b)
  BY <1>1 DEF Calm, HoldsNoMore, ChunksStep
<1>2. CASE ~m.closed /\ Deliver("start") /\ b = ChatStart(m, Head(down).s)
  <2>1. b.chunks = m.chunks
    BY <1>0, <1>2, DeliveredKinds, StartShows DEF DeliveredHead
  <2>. QED
    BY <2>1 DEF ChunksStep
<1>3. CASE ~m.closed /\ Deliver("chunk") /\ b = ChatChunk(m, Head(down).s, Head(down).p)
  <2>. DEFINE r == Head(down).s
              p == Head(down).p
  <2>1. r \in Subtask /\ p \in Position
    BY <1>3, DeliveredKinds DEF DeliveredHead
  <2>. HIDE DEF r, p
  <2>2. \/ b.chunks = m.chunks
        \/ /\ m.status \in {"idle", "joining"} /\ b.status = m.status
           /\ b.chunks = Append(m.chunks, [s |-> r, p |-> p])
    BY <1>0, <1>3, <2>1, ChunkShows DEF r, p
  <2>. QED
    BY <1>3, <2>2 DEF ChunksStep, r, p
<1>4. CASE ~m.closed /\ Deliver("done") /\ b = ChatDone(m, Head(down).s)
  <2>1. b.chunks = m.chunks
    BY <1>0, <1>4, DeliveredKinds, DoneShows DEF DeliveredHead
  <2>. QED
    BY <2>1 DEF ChunksStep
<1>5. CASE ~m.closed /\ Deliver("reply") /\ b = SendAccepted(m, Head(down).s, srv.clock)
  <2>1. Head(down).s \in Subtask /\ srv.clock \in Nat
    BY <1>5, DeliveredKinds, ServerFields DEF DeliveredHead, Typed, ServerTyped
  <2>2. SameView(m, b)
    BY <1>0, <1>5, <2>1, AcceptedShows
  <2>. QED
    BY <2>2 DEF ChunksStep, SameView
<1>6. CASE /\ ~m.closed /\ Deliver("answer") /\ Head(down).ok
           /\ \E at \in Nat : b = Synced(m, Head(down).snap, at)
  <2>1. PICK at \in Nat : b = Synced(m, Head(down).snap, at)
    BY <1>6
  <2>2. Head(down).snap \in Snapshot
    BY <1>6, DeliveredKinds DEF DeliveredHead
  <2>3. SnapshotApplied(m, Head(down).snap, at) \in Machine
    BY <1>0, <2>2, AppliedTyped
  <2>4. b.chunks = <<>>
    BY <2>1, <2>3, PendingTyped DEF Synced
  <2>. QED
    BY <2>4 DEF ChunksStep
<1>7. CASE (m.closed \/ b.closed) /\ \E v \in Nat, c \in BOOLEAN : b = Fresh(v, c)
  BY <1>7 DEF Fresh, ChunksStep
<1>. QED
  BY <1>1, <1>2, <1>3, <1>4, <1>5, <1>6, <1>7 DEF Reducer

(***************************************************************************)
(* The socket, and the order of what it carries.                           *)
(***************************************************************************)
LEMMA ConnSteps ==
  ASSUME Typed, [Next]_vars
  PROVE  \/ conn'.on = conn.on
         \/ Disconnect
         \/ Reconnect
<1>1. CASE DeliverStart \/ DeliverChunk \/ DeliverDone \/ DeliverError \/ DeliverCancelled
           \/ DeliverStatus \/ DetailArrives \/ DeliverReply \/ DeliverAnswer \/ Reconcile
           \/ Select \/ Deselect
  BY <1>1, EventTyped, StatusStepTyped, ReplyTyped, AnswerTyped, ReconcileTyped, SelectionTyped
  DEF Tabbed
<1>2. CASE Elsewhere /\ ~Disconnect /\ ~Reconnect
  <2>1. conn \in [on : BOOLEAN, room : BOOLEAN, joinedTask : BOOLEAN]
    BY DEF Typed
  <2>2. \/ conn' = conn \/ \E x : conn' = [conn EXCEPT !.room = x]
        \/ \E x : conn' = [conn EXCEPT !.joinedTask = x]
    <3>1. CASE DropAnswer \/ Receive \/ Send \/ \E j \in joins : Enter(j)
      BY <3>1 DEF DropAnswer, Receive, Send, Enter
    <3>2. CASE ~(DropAnswer \/ Receive \/ Send \/ \E j \in joins : Enter(j))
      BY <1>2, <3>2 DEF Elsewhere, DropEvent, Probe, BecomeVisible, DetailRead, CheckRead, Reply,
         Begin, Start, Produce, Persist, Tell, CheckFails, ReadStream, ReadSubtasks, Answer, Refuse
    <3>. QED
      BY <3>1, <3>2
  <2>. QED
    BY <2>1, <2>2
<1>3. CASE UNCHANGED vars
  BY <1>3 DEF vars
<1>. QED
  BY <1>1, <1>2, <1>3, TabOrElsewhere

\* While the socket is lost nothing travels.
LEMMA ConnectedNext == ASSUME Typed, Connected, [Next]_vars PROVE Connected'
<1>1. CASE Disconnect
  <2>1. srv'.reply = FALSE
    BY <1>1, RestedFields
  <2>. QED
    BY <1>1, <2>1 DEF Disconnect, Connected
<1>2. CASE Reconnect
  <2>1. conn'.on
    BY <1>2 DEF Reconnect, Typed
  <2>. QED
    BY <2>1 DEF Connected
<1>3. CASE conn.on /\ conn'.on = conn.on
  BY <1>3 DEF Connected
<1>4. CASE ~conn.on /\ ~Disconnect /\ ~Reconnect
  <2>1. ~conn.room /\ down = <<>> /\ up = <<>> /\ joins = {} /\ ~srv.reply
    BY <1>4 DEF Connected
  <2>2. ~(DeliverStart \/ DeliverChunk \/ DeliverDone \/ DeliverError \/ DeliverCancelled
          \/ DeliverStatus \/ DeliverReply \/ DeliverAnswer \/ DropAnswer \/ DropEvent
          \/ Send \/ Receive \/ Reply)
    BY <1>4, <2>1 DEF DeliverStart, DeliverChunk, DeliverDone, DeliverError, DeliverCancelled,
       DeliverStatus, DeliverReply, DeliverAnswer, DropAnswer, DropEvent, Deliver, Send, Receive,
       Reply
  <2>3. CASE DetailArrives \/ Probe \/ BecomeVisible \/ DetailRead \/ CheckRead \/ CheckFails
             \/ UNCHANGED vars
    BY <2>1, <2>3 DEF DetailArrives, Probe, BecomeVisible, DetailRead, CheckRead, CheckFails, vars,
       Connected
  <2>4. CASE Reconcile \/ Select \/ Deselect
    <3>1. conn'.room = conn.room /\ down' = down /\ joins' = joins /\ srv' = srv
      BY <2>4, ReconcileTyped, SelectionTyped DEF Tabbed, Reconcile, Select, Deselect
    <3>2. up' = up
      BY <1>4, <2>4 DEF Reconcile, Select, Deselect, Perform, PerformAfter
    <3>. QED
      BY <2>1, <3>1, <3>2 DEF Connected
  <2>5. CASE Begin \/ Start \/ Produce \/ Persist \/ Tell
    <3>1. down' = down
      BY <1>4, <2>5 DEF Begin, Start, Produce, Persist, Tell, ToRoom
    <3>2. srv'.reply = srv.reply
      BY <2>5, BegunFields, RestedFields, PersistedFields DEF RowFields
    <3>3. conn' = conn /\ up' = up /\ joins' = joins
      BY <2>5 DEF Begin, Start, Produce, Persist, Tell
    <3>. QED
      BY <2>1, <3>1, <3>2, <3>3 DEF Connected
  <2>. QED
    BY <1>4, <2>1, <2>2, <2>3, <2>4, <2>5, TabOrElsewhere DEF Elsewhere
<1>. QED
  BY <1>1, <1>2, <1>3, <1>4, ConnSteps

LEMMA QueuesTyped ==
  ASSUME Typed
  PROVE  /\ m \in Machine /\ m.chunks \in Seq(Chunk) /\ down \in Seq(Events)
         /\ \A i \in 1..Len(m.chunks) : /\ m.chunks[i] \in Chunk /\ m.chunks[i].s \in Subtask
                                        /\ m.chunks[i].p \in Nat
         /\ \A i \in 1..Len(down) : down[i] \in Events
<1>1. m \in Machine /\ down \in Seq(Events)
  BY DEF Typed
<1>2. m.chunks \in Seq(Chunk)
  BY <1>1 DEF Machine, Chunk
<1>3. \A i \in 1..Len(m.chunks) : m.chunks[i] \in Chunk
  BY <1>2
<1>4. \A k \in Chunk : k.s \in Subtask /\ k.p \in Nat
  BY DEF Chunk, Position
<1>5. \A i \in 1..Len(down) : down[i] \in Events
  BY <1>1
<1>. QED
  BY <1>1, <1>2, <1>3, <1>4, <1>5

LEMMA ChunksSentNext ==
  ASSUME Typed, Typed', Grows, AllSent, NEW b \in Machine, ChunksStep(b)
  PROVE  ChunksSent(srv', b.chunks)
<1>0. /\ \A s \in Subtask : srv.out[s] \in Nat /\ srv'.out[s] \in Nat /\ srv'.out[s] >= srv.out[s]
      /\ m.chunks \in Seq(Chunk) /\ Position \subseteq Nat
  <2>1. srv.out \in [Subtask -> 0..Length] /\ srv'.out \in [Subtask -> 0..Length]
    BY DEF Typed, ServerTyped, Servers
  <2>2. \A s \in Subtask : srv'.out[s] >= srv.out[s]
    BY DEF Grows
  <2>3. \A s \in Subtask : srv.out[s] \in Nat /\ srv'.out[s] \in Nat
    BY <2>1, MachineAssumption
  <2>. QED
    BY <2>2, <2>3, QueuesTyped DEF Position
<1>1. ASSUME NEW k \in Chunk, k.p <= srv.out[k.s] PROVE k.p <= srv'.out[k.s]
  <2>1. k.s \in Subtask /\ k.p \in Nat
    BY DEF Chunk, Position
  <2>. QED
    BY <1>0, <1>1, <2>1
<1>2. ChunksSent(srv', m.chunks)
  <2>1. \A i \in 1..Len(m.chunks) : m.chunks[i] \in Chunk /\ m.chunks[i].p <= srv.out[m.chunks[i].s]
    BY QueuesTyped DEF AllSent, ChunksSent
  <2>. QED
    BY <1>1, <2>1 DEF ChunksSent
<1>3. ChunksSent(srv', <<>>)
  BY DEF ChunksSent
<1>4. CASE Deliver("chunk") /\ b.chunks = Append(m.chunks, [s |-> Head(down).s, p |-> Head(down).p])
  <2>. DEFINE k == [s |-> Head(down).s, p |-> Head(down).p]
  <2>1. k \in Chunk /\ k.s = Head(down).s /\ k.p = Head(down).p /\ Head(down).type = "chunk"
    BY <1>4, DeliveredKinds DEF DeliveredHead, Chunk
  <2>2. down \in Seq(Events) /\ down # <<>>
    BY <1>4 DEF Typed, Deliver
  <2>3. 1 \in 1..Len(down) /\ Head(down) = down[1]
    BY <2>2
  <2>4. k.p <= srv.out[k.s]
    BY <2>1, <2>3 DEF AllSent, DownSent, Sent
  <2>5. b.chunks = Append(m.chunks, k)
    BY <1>4
  <2>. HIDE DEF k
  <2>6. /\ Len(b.chunks) = Len(m.chunks) + 1 /\ Len(m.chunks) \in Nat
        /\ \A i \in 1..Len(m.chunks) : b.chunks[i] = m.chunks[i]
        /\ b.chunks[Len(m.chunks) + 1] = k
    BY <1>0, <2>5, AppendIs
  <2>7. \A i \in 1..Len(b.chunks) : i \in 1..Len(m.chunks) \/ i = Len(m.chunks) + 1
    BY <2>6
  <2>. QED
    BY <1>1, <1>2, <2>1, <2>4, <2>6, <2>7 DEF ChunksSent
<1>. QED
  BY <1>2, <1>3, <1>4 DEF ChunksStep

LEMMA OrderedStays ==
  ASSUME Typed, Served, AllSent, Ordered, DownStep PROVE OrderedIn(down', m.chunks)
<1>0. /\ down \in Seq(Events) /\ m.chunks \in Seq(Chunk)
      /\ \A i \in 1..Len(down) : down[i] \in Events /\ Sent(srv, down[i])
      /\ \A i \in 1..Len(m.chunks) : /\ m.chunks[i] \in Chunk
                                     /\ m.chunks[i].p <= srv.out[m.chunks[i].s]
  BY QueuesTyped DEF AllSent, DownSent, ChunksSent
<1>1. ASSUME NEW e, Issued(e) PROVE OrderedIn(Append(down, e), m.chunks)
  <2>1. OfTurn(e) => /\ \A i \in 1..Len(down) : OfTurn(down[i])
                           => Before(down[i].s, Stage(down[i]), e.s, Stage(e))
                     /\ \A i \in 1..Len(m.chunks) :
                          Before(m.chunks[i].s, 1 + m.chunks[i].p, e.s, Stage(e))
    BY <1>0, <1>1 DEF Issued, Newest
  <2>. QED
    BY <1>0, <2>1, OrderedAppend DEF Ordered
<1>2. ASSUME NEW e, NEW f, Issued(e), Issued(f), ~OfTurn(f)
      PROVE  OrderedIn(Append(Append(down, e), f), m.chunks)
  <2>. DEFINE q == Append(down, e)
  <2>1. q \in Seq(Events) /\ OrderedIn(q, m.chunks)
    BY <1>0, <1>1, <1>2 DEF Issued
  <2>. HIDE DEF q
  <2>2. OrderedIn(Append(q, f), m.chunks)
    BY <1>2, <2>1, OrderedAppend
  <2>. QED
    BY <2>2 DEF q
<1>3. CASE down' = down
  BY <1>3 DEF Ordered
<1>4. CASE down # <<>> /\ down' = Tail(down)
  BY <1>0, <1>4, OrderedTail DEF Ordered
<1>5. CASE down' = <<>>
  BY <1>5, OrderedEmpty DEF Ordered
<1>6. CASE \E e : Issued(e) /\ down' = Append(down, e)
  BY <1>1, <1>6
<1>7. CASE \E e, f : Issued(e) /\ Issued(f) /\ ~OfTurn(f) /\ down' = Append(Append(down, e), f)
  BY <1>2, <1>7
<1>. QED
  BY <1>3, <1>4, <1>5, <1>6, <1>7 DEF DownStep

LEMMA OrderedNext ==
  ASSUME Typed, Served, AllSent, Ordered, DownStep, NEW b \in Machine, ChunksStep(b)
  PROVE  OrderedIn(down', b.chunks)
<1>1. CASE b.chunks = m.chunks \/ b.chunks = <<>>
  BY <1>1, OrderedStays, OrderedEmpty
<1>2. CASE Deliver("chunk") /\ b.chunks = Append(m.chunks, [s |-> Head(down).s, p |-> Head(down).p])
  <2>. DEFINE k == [s |-> Head(down).s, p |-> Head(down).p]
  <2>1. k \in Chunk /\ k.s = Head(down).s /\ k.p = Head(down).p /\ Head(down).type = "chunk"
    BY <1>2, DeliveredKinds DEF DeliveredHead, Chunk
  <2>2. down \in Seq(Events) /\ down # <<>> /\ down' = Tail(down) /\ m.chunks \in Seq(Chunk)
    BY <1>2, QueuesTyped DEF Deliver
  <2>3. b.chunks = Append(m.chunks, k)
    BY <1>2
  <2>. HIDE DEF k
  <2>. QED
    BY <2>1, <2>2, <2>3, OrderedMoved DEF Ordered
<1>. QED
  BY <1>1, <1>2 DEF ChunksStep

(***************************************************************************)
(* What is shown after a step.                                             *)
(***************************************************************************)
LEMMA EmptyShown ==
  ASSUME NEW n \in Nat PROVE Rising(<<>>) /\ Upto(<<>>, n) /\ IsPart(<<>>)
BY DEF Rising, Upto, IsPart

LEMMA PartShown ==
  ASSUME NEW t \in Text, IsPart(t), NEW n \in Nat, Len(t) <= n PROVE Rising(t) /\ Upto(t, n)
<1>1. DOMAIN t = 1..Len(t) /\ Len(t) \in Nat
  BY DEF Text
<1>. QED
  BY <1>1 DEF Rising, Upto, IsPart

LEMMA Outs ==
  ASSUME Typed, Typed', Grows, NEW s \in Subtask
  PROVE  srv.out[s] \in Nat /\ srv'.out[s] \in Nat /\ srv.out[s] <= srv'.out[s]
         /\ srv.out[s] <= Length
<1>1. srv.out[s] \in 0..Length /\ srv'.out[s] \in 0..Length
  BY DEF Typed, ServerTyped, Servers
<1>. QED
  BY <1>1, MachineAssumption DEF Grows

\* The chunks that are still to come come after a text that does not change.
LEMMA ComesNext ==
  ASSUME Typed, DownStep, NEW b \in Machine, ChunksStep(b), NEW s \in Subtask, NEW t \in Text,
         Upto(t, srv.out[s]), Comes(down, m, s, t), srv.out[s] \in Nat
  PROVE  Comes(down', b, s, t)
<1>1. ASSUME NEW i \in 1..Len(down'), down'[i].type = "chunk", down'[i].s = s
      PROVE  Upto(t, down'[i].p - 1)
  <2>1. CASE Issued(down'[i])
    <3>1. down'[i].p - 1 = srv.out[s]
      BY <1>1, <2>1 DEF Issued
    <3>. QED
      BY <3>1
  <2>2. CASE \E j \in 1..Len(down) : down'[i] = down[j]
    BY <1>1, <2>2 DEF Comes
  <2>. QED
    BY <2>1, <2>2, EventsNext
<1>2. ASSUME NEW i \in 1..Len(b.chunks), b.chunks[i].s = s PROVE Upto(t, b.chunks[i].p - 1)
  <2>1. CASE b.chunks = m.chunks
    BY <1>2, <2>1 DEF Comes
  <2>2. CASE b.chunks = <<>>
    BY <1>2, <2>2
  <2>3. CASE /\ Deliver("chunk")
             /\ b.chunks = Append(m.chunks, [s |-> Head(down).s, p |-> Head(down).p])
    <3>. DEFINE k == [s |-> Head(down).s, p |-> Head(down).p]
    <3>1. Head(down).type = "chunk" /\ Head(down) = down[1] /\ 1 \in 1..Len(down)
      BY <2>3, QueuesTyped DEF Deliver
    <3>2. k.s = s => Upto(t, k.p - 1)
      BY <3>1 DEF Comes
    <3>3. b.chunks = Append(m.chunks, k)
      BY <2>3
    <3>. HIDE DEF k
    <3>4. /\ Len(b.chunks) = Len(m.chunks) + 1 /\ Len(m.chunks) \in Nat
          /\ \A j \in 1..Len(m.chunks) : b.chunks[j] = m.chunks[j]
          /\ b.chunks[Len(m.chunks) + 1] = k
      BY <3>3, QueuesTyped, AppendIs
    <3>5. i \in 1..Len(m.chunks) \/ i = Len(m.chunks) + 1
      BY <3>4
    <3>. QED
      BY <1>2, <3>2, <3>4, <3>5 DEF Comes
  <2>. QED
    BY <2>1, <2>2, <2>3 DEF ChunksStep
<1>. QED
  BY <1>1, <1>2 DEF Comes

\* What a step must make of one text.
Lasts(b, s) ==
  ShownOf(srv', down', b, s) /\ (b.closed \/ Len(b.msgs[s].text) >= Len(m.msgs[s].text))

ShownBefore(s) ==
  /\ m.msgs[s].text \in Text /\ Rising(m.msgs[s].text) /\ Upto(m.msgs[s].text, srv.out[s])
  /\ m.msgs[s].st = "absent" \/ m.closed => m.msgs[s].text = <<>>
  /\ IsPart(m.msgs[s].text) \/ Comes(down, m, s, m.msgs[s].text)
  /\ Len(m.msgs[s].text) \in Nat

LEMMA ShownTexts == ASSUME Typed, Shown, NEW s \in Subtask PROVE ShownBefore(s)
<1>1. m.msgs[s] \in Message
  BY DEF Typed, Machine
<1>2. m.msgs[s].text \in Text
  BY <1>1 DEF Message, Text
<1>3. Len(m.msgs[s].text) \in Nat
  BY <1>2 DEF Text
<1>. QED
  BY <1>2, <1>3 DEF Shown, ShownIn, ShownOf, ShownBefore

LEMMA SameLasts ==
  ASSUME Typed, Typed', Grows, DownStep, NEW b \in Machine, ChunksStep(b), NEW s \in Subtask,
         ShownBefore(s), Same(b, s)
  PROVE  Lasts(b, s)
<1>. DEFINE t == m.msgs[s].text
<1>1. /\ t \in Text /\ Rising(t) /\ Upto(t, srv.out[s]) /\ Len(t) \in Nat
      /\ m.msgs[s].st = "absent" \/ m.closed => t = <<>>
      /\ IsPart(t) \/ Comes(down, m, s, t)
  BY DEF ShownBefore
<1>2. /\ b.msgs[s].text = t /\ (b.closed => m.closed)
      /\ b.msgs[s].st = "absent" => m.msgs[s].st = "absent"
  BY DEF Same
<1>. HIDE DEF t
<1>3. srv.out[s] \in Nat /\ srv'.out[s] \in Nat /\ srv.out[s] <= srv'.out[s]
  BY Outs
<1>4. Upto(t, srv'.out[s])
  BY <1>1, <1>3, UptoMore
<1>5. IsPart(t) \/ Comes(down', b, s, t)
  BY <1>1, <1>3, ComesNext
<1>. QED
  BY <1>1, <1>2, <1>4, <1>5 DEF Lasts, ShownOf, t

LEMMA EmptiedLasts ==
  ASSUME Typed, Typed', Grows, NEW b \in Machine, NEW s \in Subtask,
         ShownBefore(s), Silent, Emptied(b, s)
  PROVE  Lasts(b, s)
<1>1. srv'.out[s] \in Nat
  BY Outs
<1>2. m.closed => m.msgs[s].text = <<>>
  BY DEF ShownBefore
<1>3. Deliver("start") /\ Head(down).s = s => m.msgs[s].text = <<>>
  <2>. SUFFICES ASSUME Deliver("start"), Head(down).s = s PROVE m.msgs[s].text = <<>>
    OBVIOUS
  <2>1. Head(down).type = "start" /\ Head(down) = down[1] /\ 1 \in 1..Len(down)
    BY QueuesTyped DEF Deliver
  <2>. QED
    BY <2>1 DEF Silent, SilentIn
<1>4. b.msgs[s].text = <<>>
  BY DEF Emptied
<1>5. b.closed \/ m.msgs[s].text = <<>>
  BY <1>2, <1>3 DEF Emptied
<1>. QED
  BY <1>1, <1>4, <1>5, EmptyShown DEF Lasts, ShownOf

\* A chunk is merged only when no chunk of its turn waits.
LEMMA NoneWaits ==
  ASSUME Typed, Held, Deliver("chunk"), NEW s, Head(down).s = s,
         m.status \notin {"idle", "joining"}, m.msgs[s].st = "streaming"
  PROVE  \A n \in 1..Len(m.chunks) : m.chunks[n].s # s
<1>1. Head(down).type = "chunk" /\ Head(down) = down[1] /\ 1 \in 1..Len(down)
  BY QueuesTyped DEF Deliver
<1>2. ~Drained(down, s)
  BY <1>1 DEF Drained
<1>. QED
  BY <1>2 DEF Held, HeldIn, Past, CutOff

LEMMA MergesLasts ==
  ASSUME Typed, Typed', Grows, AllSent, Ordered, Held, NEW b \in Machine, NEW s \in Subtask,
         ShownBefore(s), MergesChunk(b, s)
  PROVE  Lasts(b, s)
<1>. DEFINE t == m.msgs[s].text
            p == Head(down).p
            u == MergeChunk(t, p)
<1>1. /\ t \in Text /\ Rising(t) /\ Upto(t, srv.out[s]) /\ Len(t) \in Nat
      /\ IsPart(t) \/ Comes(down, m, s, t)
  BY DEF ShownBefore
<1>2. /\ b.msgs[s].text = u /\ ~b.closed /\ b.msgs[s].st # "absent" /\ b.chunks = m.chunks
      /\ Deliver("chunk") /\ Head(down).s = s
      /\ m.status \notin {"idle", "joining"} /\ m.msgs[s].st = "streaming"
  BY DEF MergesChunk
<1>3. /\ Head(down) = down[1] /\ 1 \in 1..Len(down) /\ Head(down).type = "chunk"
      /\ p \in Position /\ p \in Nat /\ down' = Tail(down) /\ down # <<>>
      /\ down \in Seq(Events)
  BY <1>2, QueuesTyped, DeliveredKinds DEF Deliver, DeliveredHead, Position
<1>4. p <= srv.out[s]
  BY <1>2, <1>3 DEF AllSent, DownSent, Sent
<1>5. IsPart(t) \/ Upto(t, p - 1)
  BY <1>1, <1>2, <1>3 DEF Comes
<1>6. srv.out[s] \in Nat /\ srv'.out[s] \in Nat /\ srv.out[s] <= srv'.out[s]
  BY Outs
<1>7. \A i \in 1..Len(down') : down'[i].type = "chunk" /\ down'[i].s = s
        => down'[i].p \in Nat /\ p <= down'[i].p - 1
  <2>1. \A i \in 1..Len(Tail(down)) : /\ i + 1 \in 1..Len(down) /\ 1 < i + 1
                                      /\ Tail(down)[i] = down[i + 1]
    BY <1>3, TailIs
  <2>2. ASSUME NEW j \in 1..Len(down), 1 < j, down[j].type = "chunk", down[j].s = s
        PROVE  down[j].p \in Nat /\ p <= down[j].p - 1
    <3>1. Before(down[1].s, Stage(down[1]), down[j].s, Stage(down[j]))
      BY <1>3, <2>2 DEF Ordered, OrderedIn, OfTurn
    <3>2. Stage(down[1]) = 1 + p /\ Stage(down[j]) = 1 + down[j].p
      BY <1>3, <2>2 DEF Stage
    <3>3. down[j].p \in Nat
      BY <2>2, QueuesTyped, EventKinds DEF Position
    <3>4. s \in Nat
      BY SubtaskNumbers
    <3>. QED
      BY <1>2, <1>3, <2>2, <3>1, <3>2, <3>3, <3>4 DEF Before
  <2>. QED
    BY <1>3, <2>1, <2>2
<1>8. \A n \in 1..Len(b.chunks) : b.chunks[n].s # s
  BY <1>2, NoneWaits
<1>. HIDE DEF t, p
<1>9. /\ Rising(u) /\ Len(u) >= Len(t) /\ (IsPart(u) \/ Upto(u, p)) /\ u \in Text
      /\ \A n \in Nat : p <= n /\ Upto(t, n) => Upto(u, n)
  BY <1>1, <1>3, <1>5, MergeKeeps, MergeOne
<1>. HIDE DEF u
<1>10. Upto(u, srv'.out[s])
  <2>1. Upto(u, srv.out[s])
    BY <1>1, <1>4, <1>6, <1>9
  <2>. QED
    BY <1>6, <1>9, <2>1, UptoMore
<1>11. IsPart(u) \/ Comes(down', b, s, u)
  <2>1. ASSUME Upto(u, p), NEW i \in 1..Len(down'), down'[i].type = "chunk", down'[i].s = s
        PROVE  Upto(u, down'[i].p - 1)
    <3>1. down'[i].p - 1 \in Int /\ p <= down'[i].p - 1 /\ p \in Int
      BY <1>3, <1>7, <2>1
    <3>. QED
      BY <1>9, <2>1, <3>1, UptoMore
  <2>. QED
    BY <1>8, <1>9, <2>1 DEF Comes
<1>12. ShownOf(srv', down', b, s)
  BY <1>2, <1>9, <1>10, <1>11 DEF ShownOf
<1>. QED
  BY <1>2, <1>9, <1>12 DEF Lasts, t

LEMMA CompletesLasts ==
  ASSUME Typed, Typed', Grows, AllSent, NEW b \in Machine, NEW s \in Subtask,
         ShownBefore(s), Completes(b, s)
  PROVE  Lasts(b, s)
<1>1. /\ Deliver("done") /\ Head(down).s = s /\ ~b.closed /\ b.msgs[s].st # "absent"
      /\ b.msgs[s].text = Whole
      /\ Len(Whole) >= Len(m.msgs[s].text) \/ m.msgs[s].st = "absent"
  BY DEF Completes
<1>2. /\ Head(down) = down[1] /\ 1 \in 1..Len(down) /\ Head(down).type = "done"
  BY <1>1, QueuesTyped DEF Deliver
<1>3. srv.out[s] = Length
  BY <1>1, <1>2 DEF AllSent, DownSent, Sent
<1>4. srv.out[s] \in Nat /\ srv'.out[s] \in Nat /\ srv.out[s] <= srv'.out[s]
  BY Outs
<1>5. Whole \in Text /\ Len(Whole) = Length /\ Length \in Nat /\ IsPart(Whole)
  <2>1. \A i \in DOMAIN Whole : Whole[i] = i
    BY DEF Whole
  <2>. QED
    BY <2>1, WholeText, MachineAssumption DEF IsPart
<1>6. Rising(Whole) /\ Upto(Whole, srv'.out[s])
  BY <1>3, <1>4, <1>5, PartShown
<1>7. Len(Whole) >= Len(m.msgs[s].text)
  BY <1>1, <1>5 DEF ShownBefore
<1>. QED
  BY <1>1, <1>5, <1>6, <1>7 DEF Lasts, ShownOf

LEMMA OfferShown ==
  ASSUME Typed, NEW snap \in Snapshot, SnapSent(srv, snap), NEW s \in Subtask,
         NEW u \in Offers(snap, s)
  PROVE  u \in Text /\ IsPart(u) /\ Rising(u) /\ Upto(u, srv.out[s])
<1>1. snap.text[s] \in Text /\ snap.cached \in Text
  BY SnapshotParts
<1>2. Produced(srv, snap.text[s], s)
  BY DEF SnapSent
<1>3. CASE u = snap.text[s]
  <2>1. IsPart(u) /\ Len(u) <= srv.out[s] /\ u \in Text
    BY <1>1, <1>2, <1>3 DEF Produced
  <2>2. srv.out[s] \in Nat
    BY DEF Typed, ServerTyped, Servers
  <2>. QED
    BY <2>1, <2>2, PartShown
<1>4. CASE snap.stream = s /\ u = snap.cached
  <2>0. s # 0
    BY DEF Subtask
  <2>1. IsPart(u) /\ Len(u) <= srv.out[s] /\ u \in Text
    BY <1>1, <1>4, <2>0 DEF Produced, SnapSent
  <2>2. srv.out[s] \in Nat
    BY DEF Typed, ServerTyped, Servers
  <2>. QED
    BY <2>1, <2>2, PartShown
<1>. QED
  BY <1>3, <1>4 DEF Offers

\* The text u that an answer leaves is shown, and no chunk to come overtakes it.
LEMMA BetterShown ==
  ASSUME Typed, AllSent, Deliver("answer"), Head(down).ok, NEW s \in Subtask, ShownBefore(s),
         NEW u \in Text, Better(u, m.msgs[s].text, Head(down).snap, s)
  PROVE  /\ Rising(u) /\ Upto(u, srv.out[s]) /\ (IsPart(u) \/ Comes(down, m, s, u))
         /\ Len(u) >= Len(m.msgs[s].text)
<1>1. DeliveredHead("answer") /\ down # <<>>
  BY DeliveredKinds DEF Deliver
<1>2. Head(down).snap \in Snapshot
  BY <1>1 DEF DeliveredHead
<1>3. SnapSent(srv, Head(down).snap)
  <2>1. down[1] = Head(down) /\ 1 \in 1..Len(down)
    BY <1>1, TailIs DEF Typed
  <2>2. Sent(srv, Head(down))
    BY <2>1 DEF AllSent, DownSent
  <2>. QED
    BY <2>2, <1>1 DEF Sent, DeliveredHead
<1>4. CASE u = m.msgs[s].text
  BY <1>4 DEF ShownBefore
<1>5. CASE u \in Offers(Head(down).snap, s) /\ Len(u) >= Len(m.msgs[s].text)
  BY <1>2, <1>3, <1>5, OfferShown
<1>. QED
  BY <1>4, <1>5 DEF Better

\* The chunks that waited come before those that follow: what they leave is shown.
LEMMA MergedShown ==
  ASSUME Typed, AllSent, Ordered, NEW s \in Subtask, NEW u \in Text,
         Rising(u), Upto(u, srv.out[s]), IsPart(u) \/ Comes(down, m, s, u),
         down # <<>>
  PROVE  LET w == Merged(u, m.chunks, s)
         IN /\ w \in Text /\ Rising(w) /\ Upto(w, srv.out[s]) /\ Len(w) >= Len(u)
            /\ \/ IsPart(w)
               \/ \A i \in 1..Len(down) : down[i].type = "chunk" /\ down[i].s = s
                    => Upto(w, down[i].p - 1)
<1>. DEFINE w == Merged(u, m.chunks, s)
            c == m.chunks
<1>1. c \in Seq(Chunk) /\ \A i \in 1..Len(c) : c[i].s \in Subtask /\ c[i].p \in Nat
  BY QueuesTyped
<1>2. srv.out[s] \in Nat /\ s \in Nat
  BY SubtaskNumbers DEF Typed, ServerTyped, Servers
<1>3. \A i, j \in 1..Len(c) :
         i < j /\ c[i].s = s /\ c[j].s = s => c[i].p < c[j].p
  BY SMTT(20), <1>1, <1>2 DEF Ordered, OrderedIn, Before
<1>4. \A i \in 1..Len(c) : c[i].s = s => c[i].p <= srv.out[s]
  BY DEF AllSent, ChunksSent
<1>5. IsPart(u) \/ \A i \in 1..Len(c) : c[i].s = s => Upto(u, c[i].p - 1)
  BY DEF Comes
<1>6. ASSUME NEW i \in 1..Len(down), down[i].type = "chunk", down[i].s = s
      PROVE  /\ down[i].p \in Nat /\ down[i].p - 1 \in Nat
             /\ \A n \in 1..Len(c) : c[n].s = s => c[n].p <= down[i].p - 1
             /\ IsPart(u) \/ Upto(u, down[i].p - 1)
  <2>1. down[i].p \in Nat /\ down[i].p - 1 \in Nat
    BY <1>6, QueuesTyped, EventKinds DEF Position
  <2>2. ASSUME NEW n \in 1..Len(c), c[n].s = s PROVE c[n].p <= down[i].p - 1
    <3>1. Before(c[n].s, 1 + c[n].p, down[i].s, Stage(down[i]))
      BY <1>6 DEF Ordered, OrderedIn, OfTurn
    <3>2. Stage(down[i]) = 1 + down[i].p
      BY <1>6 DEF Stage
    <3>. QED
      BY <1>1, <1>2, <1>6, <2>1, <2>2, <3>1, <3>2 DEF Before
  <2>3. IsPart(u) \/ Upto(u, down[i].p - 1)
    BY <1>6 DEF Comes
  <2>. QED
    BY <2>1, <2>2, <2>3
<1>. HIDE DEF c
<1>7. /\ Rising(Merged(u, c, s)) /\ Upto(Merged(u, c, s), srv.out[s])
      /\ Len(Merged(u, c, s)) >= Len(u)
      /\ \A q \in Nat : /\ IsPart(u) \/ Upto(u, q)
                        /\ \A i \in 1..Len(c) : c[i].s = s => c[i].p <= q
                        => IsPart(Merged(u, c, s)) \/ Upto(Merged(u, c, s), q)
  BY <1>1, <1>2, <1>3, <1>4, <1>5, MergedKeeps
<1>8. Merged(u, c, s) \in Text
  BY <1>1, MergedTyped
<1>9. w = Merged(u, c, s)
  BY DEF c
<1>. HIDE DEF w
<1>10. ASSUME NEW i \in 1..Len(down), down[i].type = "chunk", down[i].s = s
       PROVE  IsPart(w) \/ Upto(w, down[i].p - 1)
  BY <1>6, <1>7, <1>9, <1>10
<1>11. IsPart(w) \/ \A i \in 1..Len(down) : down[i].type = "chunk" /\ down[i].s = s
                    => Upto(w, down[i].p - 1)
  BY <1>10
<1>. QED
  BY <1>7, <1>8, <1>9, <1>11 DEF w

LEMMA SyncsLasts ==
  ASSUME Typed, Typed', Grows, AllSent, Ordered, DownStep, NEW b \in Machine,
         NEW s \in Subtask, ShownBefore(s), Syncs(b, s)
  PROVE  Lasts(b, s)
<1>1. /\ Deliver("answer") /\ Head(down).ok /\ ~b.closed
      /\ b.msgs[s].st = "absent" => m.msgs[s].st = "absent" /\ b.msgs[s].text = m.msgs[s].text
      /\ b.chunks = <<>>
  BY DEF Syncs
<1>2. PICK u \in Text : /\ Better(u, m.msgs[s].text, Head(down).snap, s)
                        /\ \/ b.msgs[s].text = u
                           \/ b.msgs[s].text = Merged(u, m.chunks, s)
  BY DEF Syncs
<1>3. /\ Rising(u) /\ Upto(u, srv.out[s]) /\ (IsPart(u) \/ Comes(down, m, s, u))
      /\ Len(u) >= Len(m.msgs[s].text)
  BY <1>1, <1>2, BetterShown
<1>4. srv.out[s] \in Nat /\ srv'.out[s] \in Nat /\ srv.out[s] <= srv'.out[s]
  BY Outs
<1>5. b.msgs[s].st = "absent" => b.msgs[s].text = <<>>
  BY <1>1 DEF ShownBefore
<1>6. down # <<>> /\ down' = Tail(down) /\ down \in Seq(Events)
  BY <1>1, QueuesTyped DEF Deliver
<1>7. CASE b.msgs[s].text = u
  <2>1. Upto(u, srv'.out[s])
    BY <1>3, <1>4, UptoMore
  <2>2. ChunksStep(b)
    BY <1>1 DEF ChunksStep
  <2>3. IsPart(u) \/ Comes(down', b, s, u)
    BY <1>3, <1>4, <2>2, ComesNext
  <2>. QED
    BY <1>1, <1>3, <1>5, <1>7, <2>1, <2>3 DEF Lasts, ShownOf
<1>8. CASE b.msgs[s].text = Merged(u, m.chunks, s)
  <2>. DEFINE w == Merged(u, m.chunks, s)
  <2>1. /\ w \in Text /\ Rising(w) /\ Upto(w, srv.out[s]) /\ Len(w) >= Len(u)
        /\ \/ IsPart(w)
           \/ \A i \in 1..Len(down) : down[i].type = "chunk" /\ down[i].s = s
                => Upto(w, down[i].p - 1)
    BY <1>3, <1>6, MergedShown
  <2>. HIDE DEF w
  <2>2. Upto(w, srv'.out[s])
    BY <1>4, <2>1, UptoMore
  <2>3. \A i \in 1..Len(Tail(down)) : i + 1 \in 1..Len(down) /\ Tail(down)[i] = down[i + 1]
    BY <1>6, TailIs
  <2>4. IsPart(w) \/ Comes(down', b, s, w)
    BY <1>1, <1>6, <2>1, <2>3 DEF Comes
  <2>5. b.msgs[s].text = w
    BY <1>8 DEF w
  <2>6. Len(w) >= Len(m.msgs[s].text)
    <3>1. Len(w) \in Nat /\ Len(u) \in Nat /\ Len(m.msgs[s].text) \in Nat
      BY <1>2, <2>1 DEF Text, ShownBefore
    <3>. QED
      BY <1>3, <2>1, <3>1
  <2>. QED
    BY <1>1, <1>5, <2>1, <2>2, <2>4, <2>5, <2>6 DEF Lasts, ShownOf
<1>. QED
  BY <1>2, <1>7, <1>8

LEMMA TextLasts ==
  ASSUME Typed, Typed', Grows, AllSent, Ordered, Silent, Shown, Held, DownStep,
         NEW b \in Machine, Reducer(b), NEW s \in Subtask
  PROVE  Lasts(b, s)
<1>1. ShownBefore(s)
  BY ShownTexts
<1>2. TextStep(b, s)
  BY <1>1, TextSteps DEF ShownBefore
<1>3. ChunksStep(b)
  BY ChunksSteps
<1>. QED
  BY <1>1, <1>2, <1>3, SameLasts, EmptiedLasts, MergesLasts, CompletesLasts, SyncsLasts
  DEF TextStep

LEMMA ReachedView == ASSUME NEW b, Reached(b) PROVE SameView(b, m')
BY DEF Reached, Pauses, SameView

\* No text that is shown gets shorter and what is shown stays shown.
LEMMA ShownNext ==
  ASSUME Typed, Typed', Grows, AllSent, Ordered, Silent, Shown, Held, DownStep, [Next]_vars
  PROVE  /\ Shown'
         /\ m'.closed \/ \A s \in Subtask : Len(m'.msgs[s].text) >= Len(m.msgs[s].text)
<1>1. PICK b \in Machine : Reached(b) /\ Reducer(b)
  BY Reaches
<1>2. \A s \in Subtask : Lasts(b, s)
  BY <1>1, TextLasts
<1>3. b.msgs = m'.msgs /\ b.chunks = m'.chunks /\ b.closed = m'.closed
  BY <1>1, ReachedView DEF SameView
<1>4. \A s \in Subtask : ShownOf(srv', down', m', s)
  BY <1>2, <1>3 DEF Lasts, ShownOf, Comes
<1>. QED
  BY <1>2, <1>3, <1>4 DEF Lasts, Shown, ShownIn

(***************************************************************************)
(* Before the start of a turn nothing of it is shown or on its way.        *)
(***************************************************************************)
LEMMA UptoZero == ASSUME NEW t \in Text, Upto(t, 0) PROVE t = <<>>
<1>1. Len(t) \in Nat /\ DOMAIN t = 1..Len(t) /\ \A i \in 1..Len(t) : t[i] \in Position
  BY DEF Text
<1>2. \A i \in 1..Len(t) : t[i] >= 1 /\ t[i] <= 0
  BY <1>1, MachineAssumption DEF Upto, Position
<1>3. ASSUME Len(t) # 0 PROVE FALSE
  <2>1. 1 \in 1..Len(t)
    BY <1>1, <1>3
  <2>. QED
    BY <1>1, <1>2, <2>1, MachineAssumption DEF Position
<1>. QED
  BY <1>3 DEF Text

LEMMA NothingBegun ==
  ASSUME Typed, Served, Shown, NEW s \in Subtask, ~Begun(srv, s)
  PROVE  /\ m.msgs[s].text = <<>>
         /\ \A e \in Events : Sent(srv, e) => Mute(e, s)
<1>1. srv.out[s] = 0
  <2>1. srv.out[s] \in Nat
    BY DEF Typed, ServerTyped, Servers
  <2>. QED
    BY <2>1 DEF Served
<1>2. m.msgs[s].text = <<>>
  BY <1>1, ShownTexts, UptoZero DEF ShownBefore
<1>3. ASSUME NEW e \in Events, Sent(srv, e) PROVE Mute(e, s)
  <2>1. e.type = "done" => e.s # s
    BY <1>3 DEF Sent, Begun
  <2>2. ASSUME e.type = "answer"
        PROVE  e.snap.text[s] = <<>> /\ (e.snap.stream = s => e.snap.cached = <<>>)
    <3>1. SnapSent(srv, e.snap) /\ e.snap \in Snapshot
      BY <1>3, <2>2, EventKinds DEF Sent
    <3>2. Len(e.snap.text[s]) <= 0 /\ e.snap.text[s] \in Text
      BY <1>1, <3>1, SnapshotParts DEF SnapSent, Produced
    <3>3. e.snap.stream = s => Len(e.snap.cached) <= 0 /\ s # 0
      BY <1>1, <3>1 DEF SnapSent, Produced, Subtask
    <3>4. e.snap.cached \in Text
      BY <3>1, SnapshotParts
    <3>5. \A t \in Text : Len(t) <= 0 => t = <<>>
      BY DEF Text
    <3>. QED
      BY <3>2, <3>3, <3>4, <3>5
  <2>. QED
    BY <2>1, <2>2 DEF Mute
<1>. QED
  BY <1>2, <1>3

\* A text that is empty stays so when no event is delivered.
LEMMA UndeliveredStays ==
  ASSUME Typed, Shown, NEW b \in Machine, Reducer(b), NEW s \in Subtask,
         m.msgs[s].text = <<>>, \A type : ~Deliver(type)
  PROVE  b.msgs[s].text = <<>>
<1>1. TextStep(b, s)
  BY TextSteps
<1>. QED
  BY <1>1 DEF TextStep, Same, Emptied, MergesChunk, Completes, Syncs

\* Nor when an event that is delivered before the start of its turn is mute.
LEMMA MuteStays ==
  ASSUME Typed, AllSent, Ordered, Shown, NEW b \in Machine, Reducer(b), NEW j \in 1..Len(down),
         down[j].type = "start", down # <<>>, m.msgs[down[j].s].text = <<>>, j # 1,
         Mute(down[1], down[j].s)
  PROVE  b.msgs[down[j].s].text = <<>>
<1>. DEFINE s == down[j].s
<1>1. /\ s \in Subtask /\ Head(down) = down[1] /\ 1 \in 1..Len(down) /\ s \in Nat
      /\ 1 < j /\ Stage(down[j]) = 1 /\ OfTurn(down[j]) /\ Len(down) \in Nat
  <2>1. down \in Seq(Events) /\ down[j] \in Events
    BY QueuesTyped
  <2>2. s \in Subtask
    BY <2>1, EventKinds
  <2>3. Stage(down[j]) = 1 /\ OfTurn(down[j])
    BY DEF Stage, OfTurn
  <2>4. Head(down) = down[1] /\ 1 \in 1..Len(down) /\ 1 < j /\ Len(down) \in Nat
    BY <2>1, TailIs
  <2>. QED
    BY <2>2, <2>3, <2>4, SubtaskNumbers
<1>2. TextStep(b, s)
  BY <1>1, TextSteps
<1>3. \A n \in 1..Len(m.chunks) : m.chunks[n].s # s
  <2>. SUFFICES ASSUME NEW n \in 1..Len(m.chunks), m.chunks[n].s = s PROVE FALSE
    OBVIOUS
  <2>1. Before(m.chunks[n].s, 1 + m.chunks[n].p, down[j].s, Stage(down[j]))
    BY <1>1 DEF Ordered, OrderedIn
  <2>2. m.chunks[n].p \in Nat
    BY QueuesTyped
  <2>. QED
    BY <1>1, <2>1, <2>2 DEF Before
<1>4. CASE Same(b, s) \/ Emptied(b, s)
  BY <1>4 DEF Same, Emptied
<1>5. CASE MergesChunk(b, s)
  <2>1. down[1].type = "chunk" /\ down[1].s = s
    BY <1>1, <1>5 DEF MergesChunk, Deliver
  <2>2. Before(s, Stage(down[1]), s, 1)
    BY <1>1, <2>1 DEF Ordered, OrderedIn, OfTurn
  <2>3. Stage(down[1]) = 1 + down[1].p /\ down[1].p \in Nat
    BY <1>1, <2>1, QueuesTyped, EventKinds DEF Stage, Position
  <2>. QED
    BY <1>1, <2>2, <2>3 DEF Before
<1>6. CASE Completes(b, s)
  BY <1>1, <1>6 DEF Completes, Mute, Deliver
<1>7. CASE Syncs(b, s)
  <2>1. PICK u \in Text : /\ Better(u, m.msgs[s].text, Head(down).snap, s)
                          /\ \/ b.msgs[s].text = u
                             \/ b.msgs[s].text = Merged(u, m.chunks, s)
    BY <1>7 DEF Syncs
  <2>2. down[1].type = "answer"
    BY <1>1, <1>7 DEF Syncs, Deliver
  <2>3. u = <<>>
    BY <1>1, <2>1, <2>2 DEF Mute, Better, Offers
  <2>4. CASE b.msgs[s].text = Merged(u, m.chunks, s)
    <3>1. m.chunks \in Seq(Chunk)
      BY QueuesTyped
    <3>2. Rising(u) /\ Upto(u, 0) /\ IsPart(u)
      BY <2>3, EmptyShown
    <3>3. Upto(Merged(u, m.chunks, s), 0)
      BY <1>3, <2>1, <3>1, <3>2, MergedKeeps
    <3>. QED
      BY <2>1, <2>4, <3>1, <3>3, MergedTyped, UptoZero
  <2>. QED
    BY <2>1, <2>3, <2>4
<1>. QED
  BY <1>2, <1>4, <1>5, <1>6, <1>7 DEF TextStep

\* A start that is sent or that was on its way.
SilentStart(b, j) ==
  /\ b.msgs[down'[j].s].text = <<>>
  /\ \A i \in 1..Len(down') : i < j => Mute(down'[i], down'[j].s)

LEMMA LongerThanTail ==
  ASSUME Typed, NEW q \in Seq(Events), down' = q, Len(q) >= Len(down)
  PROVE  \A type : ~Deliver(type)
<1>1. \A type : Deliver(type) => down # <<>> /\ q = Tail(down)
  BY DEF Deliver
<1>2. down # <<>> => Len(Tail(down)) = Len(down) - 1 /\ Len(down) \in Nat
  BY QueuesTyped, TailIs
<1>. QED
  BY <1>1, <1>2

LEMMA OldSilent ==
  ASSUME Typed, AllSent, Silent, NEW j \in 1..Len(down), down[j].type = "start"
  PROVE  /\ down[j].s \in Subtask /\ m.msgs[down[j].s].text = <<>>
         /\ \A i \in 1..Len(down) : i < j => Mute(down[i], down[j].s)
<1>1. down[j] \in Events
  BY QueuesTyped
<1>2. down[j].s \in Subtask
  BY <1>1, EventKinds
<1>. QED
  BY <1>2 DEF Silent, SilentIn

LEMMA NewSilent ==
  ASSUME Typed, Served, AllSent, Shown, NEW e, Issued(e), e.type = "start"
  PROVE  /\ e.s \in Subtask /\ m.msgs[e.s].text = <<>>
         /\ \A i \in 1..Len(down) : Mute(down[i], e.s)
<1>1. e.s \in Subtask /\ ~Begun(srv, e.s)
  BY EventKinds DEF Issued
<1>2. \A i \in 1..Len(down) : down[i] \in Events /\ Sent(srv, down[i])
  BY QueuesTyped DEF AllSent, DownSent
<1>. QED
  BY <1>1, <1>2, NothingBegun

LEMMA SilentNext ==
  ASSUME Typed, Served, AllSent, Ordered, Silent, Shown, DownStep,
         NEW b \in Machine, Reducer(b)
  PROVE  SilentIn(down', b)
<1>0. down \in Seq(Events) /\ Len(down) \in Nat
  BY QueuesTyped
<1>. SUFFICES ASSUME NEW j \in 1..Len(down'), down'[j].type = "start"
              PROVE  SilentStart(b, j)
  BY DEF SilentIn, SilentStart
<1>1. CASE down' = down
  <2>1. \A type : ~Deliver(type)
    BY <1>0, <1>1, LongerThanTail
  <2>2. /\ down[j].s \in Subtask /\ m.msgs[down[j].s].text = <<>>
        /\ \A i \in 1..Len(down) : i < j => Mute(down[i], down[j].s)
    BY <1>1, OldSilent
  <2>3. b.msgs[down[j].s].text = <<>>
    BY <2>1, <2>2, UndeliveredStays
  <2>. QED
    BY <1>1, <2>2, <2>3 DEF SilentStart
<1>2. CASE down # <<>> /\ down' = Tail(down)
  <2>1. /\ Len(Tail(down)) = Len(down) - 1
        /\ \A i \in 1..Len(Tail(down)) : i + 1 \in 1..Len(down) /\ 1 < i + 1
                                         /\ Tail(down)[i] = down[i + 1]
    BY <1>0, <1>2, TailIs
  <2>2. j + 1 \in 1..Len(down) /\ down[j + 1] = down'[j] /\ j + 1 # 1 /\ 1 \in 1..Len(down)
        /\ 1 < j + 1
    BY <1>0, <1>2, <2>1
  <2>3. /\ down[j + 1].s \in Subtask /\ m.msgs[down[j + 1].s].text = <<>>
        /\ \A i \in 1..Len(down) : i < j + 1 => Mute(down[i], down[j + 1].s)
    BY <2>2, OldSilent
  <2>4. b.msgs[down[j + 1].s].text = <<>>
    BY <1>2, <2>2, <2>3, MuteStays
  <2>5. \A i \in 1..Len(down') : i < j => Mute(down'[i], down'[j].s)
    BY <1>2, <2>1, <2>2, <2>3
  <2>. QED
    BY <2>2, <2>4, <2>5 DEF SilentStart
<1>3. CASE down' = <<>>
  BY <1>3
<1>4. ASSUME NEW e, Issued(e), NEW q \in Seq(Events),
             \/ q = down' /\ q = Append(down, e)
             \/ \E f : Issued(f) /\ ~OfTurn(f) /\ q = Append(down, e) /\ down' = Append(q, f)
      PROVE  SilentStart(b, j)
  <2>1. /\ \A i \in 1..Len(down) : q[i] = down[i]
        /\ Len(q) = Len(down) + 1 /\ q[Len(down) + 1] = e
    BY <1>0, <1>4, AppendIs
  <2>2. /\ \A i \in 1..Len(q) : down'[i] = q[i]
        /\ Len(down') >= Len(down) /\ down' \in Seq(Events)
        /\ j \in 1..Len(q)
    <3>1. CASE down' = q
      BY <1>0, <1>4, <2>1, <3>1
    <3>2. CASE \E f : Issued(f) /\ ~OfTurn(f) /\ down' = Append(q, f)
      <4>1. PICK f : Issued(f) /\ ~OfTurn(f) /\ down' = Append(q, f)
        BY <3>2
      <4>2. /\ Len(q) \in Nat /\ Len(down') = Len(q) + 1 /\ down'[Len(q) + 1] = f
            /\ \A i \in 1..Len(q) : down'[i] = q[i]
        BY <1>4, <4>1, AppendIs
      <4>3. f.type # "start" /\ f \in Events
        BY <4>1 DEF OfTurn, Issued
      <4>4. j # Len(q) + 1
        BY <4>2, <4>3
      <4>. QED
        BY <1>0, <1>4, <2>1, <4>1, <4>2, <4>3, <4>4
    <3>. QED
      BY <1>4, <3>1, <3>2
  <2>3. \A type : ~Deliver(type)
    BY <2>2, LongerThanTail
  <2>4. CASE j \in 1..Len(down)
    <3>1. down'[j] = down[j] /\ \A i \in 1..Len(down) : down'[i] = down[i]
      BY <1>0, <2>1, <2>2, <2>4
    <3>2. /\ down[j].s \in Subtask /\ m.msgs[down[j].s].text = <<>>
          /\ \A i \in 1..Len(down) : i < j => Mute(down[i], down[j].s)
      BY <2>4, <3>1, OldSilent
    <3>3. b.msgs[down[j].s].text = <<>>
      BY <2>3, <3>2, UndeliveredStays
    <3>4. \A i \in 1..Len(down') : i < j => i \in 1..Len(down)
      BY <1>0, <2>4
    <3>. QED
      BY <3>1, <3>2, <3>3, <3>4 DEF SilentStart
  <2>5. CASE j = Len(down) + 1
    <3>1. down'[j] = e /\ \A i \in 1..Len(down) : down'[i] = down[i]
      BY <1>0, <2>1, <2>2, <2>5
    <3>2. /\ e.s \in Subtask /\ m.msgs[e.s].text = <<>>
          /\ \A i \in 1..Len(down) : Mute(down[i], e.s)
      BY <1>4, <3>1, NewSilent
    <3>3. b.msgs[e.s].text = <<>>
      BY <2>3, <3>2, UndeliveredStays
    <3>4. \A i \in 1..Len(down') : i < j => i \in 1..Len(down)
      BY <1>0, <2>2, <2>5
    <3>. QED
      BY <3>1, <3>2, <3>3, <3>4 DEF SilentStart
  <2>. QED
    BY <1>0, <2>1, <2>2, <2>4, <2>5
<1>5. ASSUME NEW e, Issued(e) PROVE Append(down, e) \in Seq(Events)
  BY <1>0, <1>5 DEF Issued
<1>. QED
  BY <1>1, <1>2, <1>3, <1>4, <1>5 DEF DownStep

(***************************************************************************)
(* Why chunks wait.                                                        *)
(***************************************************************************)
LEMMA HoldsKept ==
  ASSUME Typed, Typed', Grows, Held, DownStep, NEW b \in Machine, HoldsNoMore(m, b)
  PROVE  HeldIn(b, Past(srv', down'), CutOff)
<1>1. Past(srv, down) \subseteq Past(srv', down')
  BY PastStays
<1>2. CASE b.chunks = <<>>
  BY <1>2 DEF HeldIn
<1>3. CASE b.chunks = m.chunks /\ \A s \in Subtask : b.msgs[s].st # "streaming"
  BY <1>3, QueuesTyped DEF HeldIn
<1>4. CASE /\ b.chunks = m.chunks
           /\ \A s \in Subtask : b.msgs[s].st = "streaming" => m.msgs[s].st = "streaming"
           /\ b.status = m.status \/ {m.status, b.status} \subseteq Settled
  <2>1. ASSUME NEW n \in 1..Len(b.chunks)
        PROVE  \/ b.status \in {"idle", "joining"}
               \/ b.msgs[b.chunks[n].s].st # "streaming"
               \/ b.chunks[n].s \in Past(srv', down')
               \/ b.status = "waiting_socket" /\ b.chunks[n].s \in CutOff
    <3>1. b.chunks[n].s \in Subtask
      BY <1>4, QueuesTyped
    <3>2. \/ m.status \in {"idle", "joining"}
          \/ m.msgs[b.chunks[n].s].st # "streaming"
          \/ b.chunks[n].s \in Past(srv, down)
          \/ m.status = "waiting_socket" /\ b.chunks[n].s \in CutOff
      BY <1>4 DEF Held, HeldIn
    <3>3. m.status \in {"idle", "joining", "waiting_socket"} => b.status = m.status
      BY <1>4 DEF Settled
    <3>. HIDE DEF CutOff, Past
    <3>. QED
      BY <1>1, <1>4, <3>1, <3>2, <3>3
  <2>. QED
    BY <2>1 DEF HeldIn
<1>. QED
  BY <1>2, <1>3, <1>4 DEF HoldsNoMore

\* The turn of what is sent is there.
LEMMA SentTurn ==
  ASSUME Typed, Served, NEW s \in Subtask, Begun(srv, s) PROVE s <= srv.turn
<1>1. srv.turn \in Nat /\ s \in Nat
  <2>1. srv.turn \in Subtask
    BY DEF Typed, ServerTyped, Servers
  <2>. QED
    BY <2>1, SubtaskNumbers
<1>2. srv.redis = s => s = srv.turn
  BY <1>1 DEF Served, Subtask
<1>3. srv.sub[s] \in Terminal => ~(s > srv.turn)
  BY DEF Served, Terminal
<1>. QED
  BY <1>1, <1>2, <1>3 DEF Begun

\* The reply or the start of a turn comes after every chunk that waits, and no chunk
\* of an earlier turn follows it.
LEMMA PassedTurn ==
  ASSUME Typed, Typed', Served, Grows, AllSent, Ordered, down # <<>>, down' = Tail(down),
         Head(down).type \in {"reply", "start"}, NEW n \in 1..Len(m.chunks)
  PROVE  m.chunks[n].s \in Past(srv', down')
<1>. DEFINE e == down[1]
            s == m.chunks[n].s
<1>1. /\ Head(down) = e /\ 1 \in 1..Len(down) /\ Len(down) \in Nat /\ down \in Seq(Events)
      /\ \A i \in 1..Len(Tail(down)) : i + 1 \in 1..Len(down) /\ 1 < i + 1
                                       /\ Tail(down)[i] = down[i + 1]
  BY QueuesTyped, TailIs
<1>2. e \in Events /\ e.type \in {"reply", "start"} /\ e.s \in Subtask
  BY <1>1, EventKinds
<1>3. /\ s \in Subtask /\ s \in Nat /\ e.s \in Nat /\ m.chunks[n].p \in Nat
      /\ srv.turn \in Nat /\ srv'.turn \in Nat /\ srv'.turn >= srv.turn
  <2>1. s \in Subtask /\ m.chunks[n].p \in Nat
    BY QueuesTyped
  <2>2. srv.turn \in Subtask /\ srv'.turn \in Subtask
    BY DEF Typed, ServerTyped, Servers
  <2>. QED
    BY <1>2, <2>1, <2>2, SubtaskNumbers DEF Grows
<1>4. e.s <= srv.turn
  <2>1. Sent(srv, e)
    BY <1>1 DEF AllSent, DownSent
  <2>2. CASE e.type = "reply"
    BY <2>1, <2>2 DEF Sent
  <2>3. CASE e.type = "start"
    BY <1>2, <2>1, <2>3, SentTurn DEF Sent
  <2>. QED
    BY <1>2, <2>2, <2>3
<1>5. OfTurn(e) /\ Stage(e) \in 0..1
  BY <1>2 DEF OfTurn, Stage
<1>6. s < e.s
  <2>1. Before(s, 1 + m.chunks[n].p, e.s, Stage(e))
    BY <1>1, <1>5 DEF Ordered, OrderedIn
  <2>2. 1 + m.chunks[n].p >= 1
    BY <1>3
  <2>3. m.chunks[n].p >= 1
    BY QueuesTyped, MachineAssumption DEF Chunk, Position
  <2>. QED
    BY <1>2, <1>3, <1>5, <2>1, <2>3 DEF Before
<1>7. ASSUME NEW i \in 1..Len(down'), down'[i].type = "chunk", down'[i].s = s PROVE FALSE
  <2>1. i + 1 \in 1..Len(down) /\ 1 < i + 1 /\ down'[i] = down[i + 1]
    BY <1>1, <1>7
  <2>2. Before(e.s, Stage(e), down[i + 1].s, Stage(down[i + 1]))
    BY <1>1, <1>5, <1>7, <2>1 DEF Ordered, OrderedIn, OfTurn
  <2>. QED
    BY <1>2, <1>3, <1>6, <1>7, <2>1, <2>2 DEF Before
<1>8. Drained(down', s)
  BY <1>7 DEF Drained
<1>. HIDE DEF s, e
<1>9. s < srv'.turn
  BY <1>2, <1>3, <1>4, <1>6
<1>. QED
  BY <1>3, <1>8, <1>9 DEF Past, s

LEMMA HeldReduced ==
  ASSUME Typed, Typed', Served, Grows, AllSent, Ordered, Held, DownStep,
         NEW b \in Machine, Reducer(b)
  PROVE  HeldIn(b, Past(srv', down'), CutOff)
<1>0. m \in Machine
  BY QueuesTyped
<1>. DEFINE e == Head(down)
<1>1. CASE Calm(m, b)
  BY <1>1, HoldsKept DEF Calm
<1>2. CASE Deliver("start") /\ b = ChatStart(m, e.s)
  <2>1. e.s \in Subtask /\ e.type = "start" /\ down # <<>> /\ down' = Tail(down)
    BY <1>2, DeliveredTyped, EventKinds
  <2>. HIDE DEF e
  <2>2. b = m \/ b.chunks = m.chunks
    BY <1>0, <1>2, <2>1, StartShows
  <2>3. CASE b = m
    <3>1. HoldsNoMore(m, b)
      BY <2>3 DEF HoldsNoMore
    <3>. QED
      BY <3>1, HoldsKept
  <2>4. CASE b.chunks = m.chunks
    <3>1. \A n \in 1..Len(b.chunks) : b.chunks[n].s \in Past(srv', down')
      BY <2>1, <2>4, PassedTurn DEF e
    <3>. QED
      BY <3>1 DEF HeldIn
  <2>. QED
    BY <2>2, <2>3, <2>4
<1>3. CASE Deliver("chunk") /\ b = ChatChunk(m, e.s, e.p)
  <2>1. e.s \in Subtask /\ e.p \in Position
    BY <1>3, DeliveredTyped, EventKinds
  <2>. HIDE DEF e
  <2>2. CASE m.status \in {"idle", "joining"} /\ b.status = m.status
    BY <2>2 DEF HeldIn
  <2>3. CASE ~(m.status \in {"idle", "joining"} /\ b.status = m.status)
    <3>1. \/ b = m
          \/ /\ b.status = m.status /\ b.chunks = m.chunks
             /\ \A r \in Subtask : b.msgs[r].st = m.msgs[r].st
      BY <1>0, <1>3, <2>1, <2>3, ChunkShows
    <3>2. HoldsNoMore(m, b)
      BY <3>1 DEF HoldsNoMore
    <3>. QED
      BY <3>2, HoldsKept
  <2>. QED
    BY <2>2, <2>3
<1>4. CASE Deliver("done") /\ b = ChatDone(m, e.s)
  <2>1. e.s \in Subtask
    BY <1>4, DeliveredTyped, EventKinds
  <2>. HIDE DEF e
  <2>2. \/ b = m
        \/ /\ b.chunks = m.chunks
           /\ \/ b.status = m.status
              \/ m.status = "streaming" /\ b.status = "ready"
           /\ \A r \in Subtask : r # e.s => b.msgs[r] = m.msgs[r]
           /\ b.msgs[e.s].st \in {"completed", "error"}
    BY <1>0, <1>4, <2>1, DoneShows
  <2>3. HoldsNoMore(m, b)
    <3>1. CASE b = m
      BY <3>1 DEF HoldsNoMore
    <3>2. CASE b # m
      <4>1. \A r \in Subtask : b.msgs[r].st = "streaming" => m.msgs[r].st = "streaming"
        BY <2>2, <3>2
      <4>. QED
        BY <2>2, <3>2, <4>1 DEF HoldsNoMore, Settled
    <3>. QED
      BY <3>1, <3>2
  <2>. QED
    BY <2>3, HoldsKept
<1>5. CASE Deliver("reply") /\ b = SendAccepted(m, e.s, srv.clock)
  <2>1. e.s \in Subtask /\ e.type = "reply" /\ down # <<>> /\ down' = Tail(down)
    BY <1>5, DeliveredTyped, EventKinds
  <2>2. srv.clock \in Nat
    BY DEF Typed, ServerTyped, Servers
  <2>. HIDE DEF e
  <2>3. b.chunks = m.chunks
    BY <1>0, <1>5, <2>1, <2>2, AcceptedShows DEF SameView
  <2>4. \A n \in 1..Len(b.chunks) : b.chunks[n].s \in Past(srv', down')
    BY <2>1, <2>3, PassedTurn DEF e
  <2>. QED
    BY <2>4 DEF HeldIn
<1>6. CASE Deliver("answer") /\ e.ok /\ \E at \in Nat : b = Synced(m, e.snap, at)
  <2>1. e.snap \in Snapshot
    BY <1>6, DeliveredTyped, EventKinds
  <2>. HIDE DEF e
  <2>2. b.chunks = <<>>
    BY <1>0, <1>6, <2>1, AppliedTyped, PendingTyped DEF Synced
  <2>. QED
    BY <2>2 DEF HeldIn
<1>7. CASE \E v \in Nat, c \in BOOLEAN : b = Fresh(v, c)
  <2>1. b.chunks = <<>>
    BY <1>7 DEF Fresh
  <2>. QED
    BY <2>1 DEF HeldIn
<1>. QED
  BY <1>1, <1>2, <1>3, <1>4, <1>5, <1>6, <1>7 DEF Reducer

(***************************************************************************)
(* A tab that waits for the socket is in no room, unless it sends.         *)
(***************************************************************************)
Joinless(q) == \A i \in 1..Len(q) : q[i].type # "join"

\* A step that sends a join leaves the machine in joining.
JoinsOnly(step) == step.sent = <<>> \/ step.m.status = "joining"

LEMMA RecoverJoinsOnly ==
  ASSUME NEW a \in Machine, NEW full, NEW after, NEW upd
  PROVE  JoinsOnly(Recover(a, full, after, upd))
<1>1. CASE a.status = "joining"
  BY <1>1 DEF Recover, Step, JoinsOnly
<1>2. CASE a.status # "joining" /\ ~conn.on
  BY <1>2 DEF Recover, Step, JoinsOnly
<1>3. CASE a.status # "joining" /\ conn.on
  <2>. DEFINE cursor == IF full THEN NoCursor
                        ELSE IF after # NoCursor THEN after ELSE LastOf(KnownIds(a))
              call == [type |-> "join", v |-> EnterJoining(a).version,
                       after |-> cursor, upd |-> upd]
  <2>1. Recover(a, full, after, upd) = Step(EnterJoining(a), <<call>>)
    BY <1>3 DEF Recover
  <2>. HIDE DEF call
  <2>2. EnterJoining(a).status = "joining"
    BY DEF EnterJoining, Machine
  <2>. QED
    BY <2>1, <2>2 DEF Step, JoinsOnly
<1>. QED
  BY <1>1, <1>2, <1>3

LEMMA DispatchJoinsOnly == ASSUME NEW a \in Machine PROVE JoinsOnly(Dispatched(a))
<1>. DEFINE c == [a EXCEPT !.pend = NoRecovery]
<1>1. c \in Machine
  BY RecoveryTyped
<1>. HIDE DEF c
<1>2. JoinsOnly(Recover(c, a.pend.full, a.pend.after, 0))
  BY <1>1, RecoverJoinsOnly
<1>. QED
  BY <1>2 DEF Dispatched, Step, JoinsOnly, c

LEMMA SilentJoinsOnly == ASSUME NEW a PROVE JoinsOnly(Step(a, <<>>))
BY DEF JoinsOnly, Step

LEMMA PerformedJoinless ==
  ASSUME NEW step, NEW leaves, NEW refused, Typed, Joinless(up), JoinsOnly(step),
         PerformAfter(step, leaves, refused), m'.status = "waiting_socket"
  PROVE  Joinless(up')
<1>1. up \in Seq(Calls)
  BY DEF Typed
<1>2. m' = step.m /\ (~conn.on => up' = up)
  BY DEF PerformAfter
<1>3. step.sent = <<>>
  BY <1>2 DEF JoinsOnly
<1>4. conn.on => up' = up \o (IF leaves THEN <<[type |-> "leave"]>> ELSE <<>>) \o <<>>
  BY <1>3 DEF PerformAfter
<1>. DEFINE leave == [type |-> "leave"]
<1>5. leave.type # "join"
  OBVIOUS
<1>. HIDE DEF leave
<1>6. CASE conn.on /\ leaves
  <2>1. up' = up \o <<leave>> \o <<>>
    BY <1>4, <1>6 DEF leave
  <2>2. /\ Len(up') = Len(up) + 1 /\ Len(up) \in Nat /\ up'[Len(up) + 1] = leave
        /\ \A i \in 1..Len(up) : up'[i] = up[i]
    BY <1>1, <2>1
  <2>. QED
    BY <1>5, <2>2 DEF Joinless
<1>7. CASE conn.on /\ ~leaves
  <2>1. up' = up \o <<>> \o <<>>
    BY <1>4, <1>7
  <2>2. Len(up') = Len(up) /\ Len(up) \in Nat /\ \A i \in 1..Len(up) : up'[i] = up[i]
    BY <1>1, <2>1
  <2>. QED
    BY <2>2 DEF Joinless
<1>. QED
  BY <1>2, <1>6, <1>7

LEMMA ReducedJoinless ==
  ASSUME Typed, Joinless(up), NEW b \in Machine, Reduced(b), m'.status = "waiting_socket"
  PROVE  Joinless(up')
<1>1. PerformAfter(Dispatched(b), FALSE, FALSE)
  BY DEF Reduced, Perform
<1>. QED
  BY <1>1, DispatchJoinsOnly, PerformedJoinless

LEMMA EventJoinless ==
  ASSUME Typed, Joinless(up), m'.status = "waiting_socket",
         DeliverStart \/ DeliverChunk \/ DeliverDone \/ DeliverError \/ DeliverCancelled
  PROVE  Joinless(up')
<1>. DEFINE e == Head(down)
<1>0. m \in Machine
  BY DEF Typed
<1>1. CASE DeliverStart
  BY <1>0, <1>1, DeliveredTyped, EventKinds, StartTyped, ReducedJoinless DEF DeliverStart
<1>2. CASE DeliverChunk
  BY <1>0, <1>2, DeliveredTyped, EventKinds, ChunkTyped, ReducedJoinless DEF DeliverChunk
<1>3. CASE DeliverDone
  BY <1>0, <1>3, DeliveredTyped, EventKinds, DoneTyped, ReducedJoinless DEF DeliverDone
<1>4. CASE DeliverError
  BY <1>0, <1>4, DeliveredTyped, EventKinds, ErrorTyped, ReducedJoinless DEF DeliverError
<1>5. CASE DeliverCancelled
  BY <1>0, <1>5, DeliveredTyped, EventKinds, CancelledTyped, ReducedJoinless
  DEF DeliverCancelled
<1>. QED
  BY <1>1, <1>2, <1>3, <1>4, <1>5

\* A reply that arrives finds the socket there.
LEMMA ReplyWaitsNever ==
  ASSUME Typed, Connected, DeliverReply PROVE m'.status # "waiting_socket"
<1>. DEFINE e == Head(down)
            b == SendAccepted(m, e.s, srv.clock)
            st == Dispatched(b)
            sent == IF conn.joinedTask \/ st.sent # <<>> THEN st.sent
                    ELSE Append(st.sent, [type |-> "join", v |-> 0, after |-> NoCursor, upd |-> 0])
<1>1. e \in Events /\ e.type = "reply" /\ Deliver("reply") /\ ~m.closed
  BY DeliveredTyped DEF DeliverReply
<1>2. e.s \in Subtask /\ m \in Machine /\ srv.clock \in Nat
  BY <1>1, EventKinds DEF Typed, ServerTyped, Servers
<1>3. b \in Machine
  BY <1>2, AcceptedTyped
<1>4. m' = [st EXCEPT !.sent = sent].m
  BY DEF DeliverReply, Perform, PerformAfter
<1>5. "m" \in DOMAIN st
  BY DEF Dispatched, Recover, Step
<1>6. b.status \in Settled
  BY <1>2, AcceptedShows
<1>. HIDE DEF st, sent
<1>7. m' = st.m
  BY <1>4, <1>5
<1>8. conn.on
  BY <1>1 DEF Connected, Deliver
<1>. HIDE DEF b
<1>9. m' = b \/ Pauses(b, m')
  BY <1>3, <1>7, DispatchPauses DEF st
<1>. QED
  BY <1>6, <1>8, <1>9 DEF Pauses, Settled

LEMMA AnswerJoinless ==
  ASSUME Typed, Joinless(up), m'.status = "waiting_socket", DeliverAnswer PROVE Joinless(up')
<1>. DEFINE answer == Head(down)
            upd == IF answer.upd # 0 THEN answer.upd ELSE m.upd
            current == ~m.closed /\ answer.v = m.version
            late == ~m.closed /\ answer.v >= m.since
            step == IF current THEN Dispatched(Answered(answer))
                    ELSE IF late THEN Dispatched(m) ELSE Step(m, <<>>)
<1>1. answer \in Events /\ answer.type = "answer"
  BY DeliveredTyped DEF DeliverAnswer
<1>2. /\ m \in Machine /\ upd \in Nat /\ answer.ok \in BOOLEAN
      /\ answer.ok => answer.snap \in Snapshot
  BY <1>1, EventKinds DEF Typed, Machine
<1>3. Answered(answer) \in Machine
  <2>1. answer.ok => Synced(m, answer.snap, upd) \in Machine
    BY <1>2, SyncTyped
  <2>2. EnterRecoveryError(m) \in Machine
    BY <1>2, RecoveryTyped
  <2>. QED
    BY <2>1, <2>2 DEF Answered
<1>4. JoinsOnly(step)
  BY <1>2, <1>3, DispatchJoinsOnly, SilentJoinsOnly
<1>5. PerformAfter(step, ~current, ~answer.ok)
  BY DEF DeliverAnswer
<1>. HIDE DEF step, current
<1>. QED
  BY <1>4, <1>5, PerformedJoinless

LEMMA ReconcileJoinless ==
  ASSUME Typed, Joinless(up), m'.status = "waiting_socket", Reconcile PROVE Joinless(up')
<1>. DEFINE after == IF check.stream # 0 THEN NoCursor ELSE CursorBefore(m)
            known == TaskLifecycle(m, check.task, check.upd)
            step == Recover(known, check.reconnect, after, check.upd)
            idle == IF check.stream = 0 /\ check.task = "RUNNING"
                    THEN StreamAbsent(known) ELSE known
<1>1. m \in Machine /\ check.task \in Execution /\ check.upd \in Nat
  BY ReadKinds DEF Typed, Reconcile
<1>2. known \in Machine
  BY <1>1, LifecycleTyped
<1>. HIDE DEF known, after
<1>3. /\ JoinsOnly(step) /\ JoinsOnly(Step(EnterWaitingSocket(known), <<>>))
      /\ JoinsOnly(Step(idle, <<>>))
  BY <1>2, RecoverJoinsOnly, SilentJoinsOnly
<1>4. \/ PerformAfter(step, FALSE, FALSE)
      \/ PerformAfter(Step(EnterWaitingSocket(known), <<>>), FALSE, FALSE)
      \/ PerformAfter(Step(idle, <<>>), FALSE, FALSE)
  BY DEF Reconcile, Perform, known, after
<1>. HIDE DEF step, idle
<1>. QED
  BY <1>3, <1>4, PerformedJoinless

LEMMA SelectionJoinless ==
  ASSUME Typed, Joinless(up), m'.status = "waiting_socket", Select \/ Deselect
  PROVE  Joinless(up')
<1>0. m.version \in Nat /\ m.version + 1 \in Nat
  BY DEF Typed, Machine
<1>1. CASE Select
  <2>1. JoinsOnly(Recover(Fresh(m.version, FALSE), FALSE, NoCursor, 0))
    BY <1>0, FreshTyped, RecoverJoinsOnly
  <2>2. PerformAfter(Recover(Fresh(m.version, FALSE), FALSE, NoCursor, 0), FALSE, FALSE)
    BY <1>1 DEF Select, Perform
  <2>. QED
    BY <2>1, <2>2, PerformedJoinless
<1>2. CASE Deselect
  <2>1. PerformAfter(Step(Fresh(m.version + 1, TRUE), <<>>), TRUE, FALSE)
    BY <1>2 DEF Deselect, Perform
  <2>. QED
    BY <2>1, SilentJoinsOnly, PerformedJoinless
<1>. QED
  BY <1>1, <1>2

LEMMA TailJoinless == ASSUME Typed, up # <<>>, Joinless(up) PROVE Joinless(Tail(up))
<1>1. \A i \in 1..Len(Tail(up)) : i + 1 \in 1..Len(up) /\ Tail(up)[i] = up[i + 1]
  BY TailIs DEF Typed
<1>. QED
  BY <1>1 DEF Joinless

LEMMA ElsewhereJoinless ==
  ASSUME Typed, Joinless(up), Elsewhere \/ UNCHANGED vars PROVE Joinless(up')
<1>1. \/ up' = up \/ (up # <<>> /\ up' = Tail(up)) \/ up' = <<>>
  BY DEF Elsewhere, vars, DropAnswer, DropEvent, Probe, BecomeVisible, Send, Receive, DetailRead,
         CheckRead, Reply, Begin, Start, Produce, Persist, Tell, Disconnect, Reconnect,
         CheckFails, Enter, ReadStream, ReadSubtasks, Answer, Refuse
<1>. QED
  BY <1>1, TailJoinless DEF Joinless

LEMMA JoinlessNext ==
  ASSUME Typed, Connected, Joinless(up), m'.status = "waiting_socket", [Next]_vars
  PROVE  Joinless(up')
<1>1. CASE DeliverStatus \/ DetailArrives
  BY <1>1, StatusStepTyped DEF Joinless
<1>. QED
  BY <1>1, TabOrElsewhere, EventJoinless, ReplyWaitsNever, AnswerJoinless, ReconcileJoinless,
     SelectionJoinless, ElsewhereJoinless

LEMMA RoomStays ==
  ASSUME Typed, ~conn.room, joins = {}, [Next]_vars, ~Send PROVE ~conn'.room
<1>0. conn \in [on : BOOLEAN, room : BOOLEAN, joinedTask : BOOLEAN]
  BY DEF Typed
<1>1. CASE \/ DeliverStart \/ DeliverChunk \/ DeliverDone \/ DeliverError \/ DeliverCancelled
           \/ DeliverReply \/ DeliverAnswer \/ Reconcile \/ Select \/ Deselect
  BY <1>1, EventTyped, ReplyTyped, AnswerTyped, ReconcileTyped, SelectionTyped DEF Tabbed
<1>2. CASE DeliverStatus \/ DetailArrives
  BY <1>2, StatusStepTyped
<1>3. CASE Elsewhere \/ UNCHANGED vars
  <2>1. \/ conn' = conn
        \/ conn' = [conn EXCEPT !.joinedTask = @ /\ Head(down).ok]
        \/ conn' = [conn EXCEPT !.room = FALSE]
        \/ conn' = [on |-> FALSE, room |-> FALSE, joinedTask |-> FALSE]
        \/ conn' = [conn EXCEPT !.on = TRUE]
    BY <1>3 DEF Elsewhere, vars, DropAnswer, DropEvent, Probe, BecomeVisible, Receive, DetailRead,
           CheckRead, Reply, Begin, Start, Produce, Persist, Tell, Disconnect, Reconnect,
           CheckFails
  <2>2. "room" \in DOMAIN conn
    BY <1>0
  <2>. QED
    BY <2>1, <2>2
<1>. QED
  BY <1>1, <1>2, <1>3, TabOrElsewhere

LEMMA JoinsStayNone ==
  ASSUME Typed, Joinless(up), joins = {}, [Next]_vars PROVE joins' = {}
<1>1. CASE Receive
  <2>1. up # <<>> /\ up \in Seq(Calls)
    BY <1>1 DEF Receive, Typed
  <2>2. Head(up) = up[1] /\ 1 \in 1..Len(up) /\ up[1] \in Calls
    BY <2>1
  <2>3. Head(up).type = "leave"
    BY <2>2, CallKinds DEF Joinless, Joins
  <2>. QED
    BY <1>1, <2>3 DEF Receive
<1>2. CASE Disconnect
  BY <1>2 DEF Disconnect
<1>. QED
  BY <1>1, <1>2, JoinSteps

\* A chunk that waits is of a turn that was begun.
LEMMA ChunkTurn ==
  ASSUME Typed, Served, AllSent, NEW n \in 1..Len(m.chunks) PROVE m.chunks[n].s <= srv.turn
<1>. DEFINE c == m.chunks[n]
<1>1. c \in Chunk /\ c.s \in Subtask /\ c.p \in Position
  BY QueuesTyped DEF Chunk
<1>2. c.p <= srv.out[c.s] /\ c.p \in Nat /\ c.p >= 1
  BY <1>1, MachineAssumption DEF AllSent, ChunksSent, Position
<1>. HIDE DEF c
<1>3. srv.out[c.s] \in Nat
  BY <1>1 DEF Typed, ServerTyped, Servers
<1>4. Begun(srv, c.s)
  BY <1>1, <1>2, <1>3 DEF Served
<1>. QED
  BY <1>1, <1>4, SentTurn DEF c

LEMMA SeveredNext ==
  ASSUME Typed, Typed', Connected, Severed, DownStep, [Next]_vars, ~Send,
         m'.status = "waiting_socket", NEW s \in Subtask, Drained(down, s)
  PROVE  s \in CutOff'
<1>1. Joinless(up) /\ joins = {} /\ ~conn.room
  BY DEF Severed, Joinless
<1>2. Joinless(up') /\ joins' = {} /\ ~conn'.room
  BY <1>1, JoinlessNext, JoinsStayNone, RoomStays
<1>3. Drained(down', s)
  BY <1>1, DrainedStays
<1>. QED
  BY <1>2, <1>3 DEF CutOff, Severed, Joinless

LEMMA CutSent ==
  ASSUME Typed, Typed', Served, AllSent, Send, NEW n \in 1..Len(m.chunks),
         Drained(down, m.chunks[n].s)
  PROVE  m.chunks[n].s \in Past(srv', down')
<1>1. m.chunks[n].s <= srv.turn /\ m.chunks[n].s \in Subtask
  BY ChunkTurn, QueuesTyped
<1>2. srv'.turn = srv.turn + 1
  BY SentFields DEF SendFields
<1>3. srv.turn \in Nat /\ m.chunks[n].s \in Nat
  <2>1. srv.turn \in Subtask
    BY DEF Typed, ServerTyped, Servers
  <2>. QED
    BY <1>1, <2>1, SubtaskNumbers
<1>4. down' = down
  BY DEF Send
<1>5. m.chunks[n].s < srv'.turn
  BY <1>1, <1>2, <1>3
<1>. QED
  BY <1>1, <1>4, <1>5 DEF Past

LEMMA HeldNext ==
  ASSUME Typed, Typed', Served, Connected, Grows, AllSent, Ordered, Held, DownStep, [Next]_vars
  PROVE  Held'
<1>1. PICK b \in Machine : Reached(b) /\ Reducer(b)
  BY Reaches
<1>2. HeldIn(b, Past(srv', down'), CutOff)
  BY <1>1, HeldReduced
<1>3. b.msgs = m'.msgs /\ b.chunks = m'.chunks
  BY <1>1, ReachedView DEF SameView
<1>4. ASSUME NEW n \in 1..Len(m'.chunks)
      PROVE  \/ m'.status \in {"idle", "joining"}
             \/ m'.msgs[m'.chunks[n].s].st # "streaming"
             \/ m'.chunks[n].s \in Past(srv', down')
             \/ m'.status = "waiting_socket" /\ m'.chunks[n].s \in CutOff'
  <2>. DEFINE s == m'.chunks[n].s
  <2>0. s \in Subtask
    <3>1. b.chunks \in Seq(Chunk) /\ n \in 1..Len(b.chunks)
      BY <1>3 DEF Machine, Chunk
    <3>2. b.chunks[n] \in Chunk
      BY <3>1
    <3>. QED
      BY <1>3, <3>2 DEF Chunk
  <2>1. \/ b.status \in {"idle", "joining"}
        \/ b.msgs[s].st # "streaming"
        \/ s \in Past(srv', down')
        \/ b.status = "waiting_socket" /\ s \in CutOff
    BY <1>2, <1>3 DEF HeldIn
  <2>2. CASE m' = b /\ ~(b.status = "waiting_socket" /\ s \in CutOff)
    BY <2>1, <2>2
  <2>3. CASE m' = b /\ b.status = "waiting_socket" /\ s \in CutOff
    <3>1. Severed /\ Drained(down, s)
      BY <2>3 DEF CutOff
    <3>2. CASE ~Send
      BY <2>0, <2>3, <3>1, <3>2, SeveredNext
    <3>3. CASE Send
      <4>1. m' = m
        BY <3>3 DEF Send
      <4>. QED
        BY <3>1, <3>3, <4>1, CutSent
    <3>. QED
      BY <3>2, <3>3
  <2>4. CASE Pauses(b, m')
    <3>1. CASE m'.status = "joining"
      BY <3>1
    <3>2. CASE ~conn.on /\ m'.status = "waiting_socket"
      <4>1. Severed /\ Drained(down, s)
        BY <3>2 DEF Connected, Severed, Drained
      <4>2. ~Send
        BY <3>2 DEF Send
      <4>. QED
        BY <2>0, <3>2, <4>1, <4>2, SeveredNext
    <3>. QED
      BY <2>4, <3>1, <3>2 DEF Pauses
  <2>. QED
    BY <1>1, <2>2, <2>3, <2>4 DEF Reached
<1>. QED
  BY <1>4 DEF Held, HeldIn

(***************************************************************************)
(* The invariant, as long as no join was refused.                          *)
(***************************************************************************)
Lengthens == m'.closed \/ \A s \in Subtask : Len(m'.msgs[s].text) >= Len(m.msgs[s].text)

LEMMA InvNext == ASSUME Typed, Typed', Inv, [Next]_vars, Admits PROVE Inv' /\ Lengthens
<1>1. Served /\ Connected /\ AllSent /\ Ordered /\ Silent /\ Shown /\ Held
  BY DEF Inv
<1>2. Grows /\ Served' /\ Connected'
  BY <1>1, ServerGrows, ServedNext, ConnectedNext
<1>3. DownStep
  BY <1>1, DownSteps
<1>4. PICK b \in Machine : Reached(b) /\ Reducer(b)
  BY <1>1, Reaches
<1>5. b.msgs = m'.msgs /\ b.chunks = m'.chunks
  BY <1>4, ReachedView DEF SameView
<1>6. ChunksStep(b)
  BY <1>4, ChunksSteps
<1>7. AllSent'
  <2>1. DownSent(srv', down')
    BY <1>1, DownSentNext
  <2>2. ChunksSent(srv', b.chunks)
    BY <1>1, <1>2, <1>6, ChunksSentNext
  <2>3. RowsSent(srv', joins')
    BY <1>1, RowsNext DEF AllSent
  <2>. QED
    BY <1>5, <2>1, <2>2, <2>3 DEF AllSent
<1>8. Ordered'
  <2>1. OrderedIn(down', b.chunks)
    BY <1>1, <1>3, <1>6, OrderedNext
  <2>. QED
    BY <1>5, <2>1 DEF Ordered
<1>9. Silent'
  <2>1. SilentIn(down', b)
    BY <1>1, <1>3, <1>4, SilentNext
  <2>. QED
    BY <1>5, <2>1 DEF Silent, SilentIn
<1>10. Shown' /\ Lengthens
  BY <1>1, <1>2, <1>3, ShownNext DEF Lengthens
<1>11. Held'
  BY <1>1, <1>2, <1>3, HeldNext
<1>. QED
  BY <1>2, <1>7, <1>8, <1>9, <1>10, <1>11 DEF Inv

LEMMA InvAtFirst == ASSUME Init PROVE Inv
<1>. DEFINE none == [s \in Subtask |-> NoMessage]
<1>1. /\ srv.turn = 1 /\ srv.redis = 0 /\ ~srv.reply
      /\ srv.task = IF FirstOver THEN "COMPLETED" ELSE "RUNNING"
      /\ srv.sub = [s \in Subtask |-> IF s > 1 THEN "absent"
                                      ELSE IF FirstOver THEN "COMPLETED" ELSE "PENDING"]
      /\ srv.out = [s \in Subtask |-> IF s = 1 /\ FirstOver THEN Length ELSE 0]
      /\ conn.on /\ ~conn.room /\ down = <<>> /\ up = <<>> /\ joins = {}
  BY DEF Init
<1>2. m = Fresh(0, TRUE)
  BY DEF Init
<1>3. /\ m.chunks = <<>> /\ m.closed /\ \A s \in Subtask : m.msgs[s].text = <<>>
  BY <1>2 DEF Fresh, NoMessage
<1>4. Served
  <2>1. 1 \in Subtask /\ \A s \in Subtask : s \in Nat /\ s >= 1
    BY MachineAssumption DEF Subtask
  <2>2. Length \in Nat
    BY MachineAssumption
  <2>3. srv.sub[1] = IF FirstOver THEN "COMPLETED" ELSE "PENDING"
    BY <1>1, <2>1
  <2>4. \A s \in Subtask : /\ s > 1 => srv.sub[s] = "absent" /\ srv.out[s] = 0
                           /\ s > 1 \/ s = 1
    BY <1>1, <2>1
  <2>5. srv.out[1] = IF FirstOver THEN Length ELSE 0
    BY <1>1, <2>1
  <2>6. \A s \in Subtask : srv.out[s] > 0 => Begun(srv, s)
    BY <2>2, <2>3, <2>4, <2>5 DEF Begun, Terminal
  <2>7. \A s \in Subtask : srv.sub[s] = "COMPLETED" => srv.out[s] = Length
    BY <2>3, <2>4, <2>5
  <2>. QED
    BY <1>1, <2>3, <2>4, <2>6, <2>7 DEF Served, Terminal, Active
<1>5. Connected
  BY <1>1 DEF Connected
<1>6. AllSent
  BY <1>1, <1>3 DEF AllSent, DownSent, ChunksSent, RowsSent
<1>7. Ordered
  BY <1>1, <1>3 DEF Ordered, OrderedIn
<1>8. Silent
  BY <1>1 DEF Silent, SilentIn
<1>9. Shown
  <2>1. ASSUME NEW s \in Subtask PROVE ShownOf(srv, down, m, s)
    <3>1. srv.out[s] \in Nat
      BY <1>1, MachineAssumption
    <3>2. Rising(<<>>) /\ Upto(<<>>, srv.out[s]) /\ IsPart(<<>>)
      BY <3>1, EmptyShown
    <3>. QED
      BY <1>3, <3>2 DEF ShownOf
  <2>. QED
    BY <2>1 DEF Shown, ShownIn
<1>10. Held
  BY <1>3 DEF Held, HeldIn
<1>. QED
  BY <1>4, <1>5, <1>6, <1>7, <1>8, <1>9, <1>10 DEF Inv

Unrefused == used.refusals = 0
Kept == Typed /\ (Unrefused => Inv)

LEMMA KeptNext ==
  ASSUME Kept, [Next]_vars PROVE Kept' /\ (Unrefused' => Lengthens)
<1>1. Typed /\ Typed'
  BY TypedNext DEF Kept
<1>2. ASSUME Unrefused' PROVE Inv' /\ Lengthens
  <2>1. used \in Counters /\ used'.refusals >= used.refusals /\ used'.refusals = 0
    BY <1>1, <1>2, UsedTyped DEF Typed, Unrefused
  <2>2. used.refusals \in Nat
    BY <2>1 DEF Counters
  <2>3. Inv
    BY <2>1, <2>2 DEF Kept, Unrefused
  <2>4. Admits
    BY <1>1, <2>1, RefusalCounts DEF Admits
  <2>. QED
    BY <1>1, <2>3, <2>4, InvNext
<1>. QED
  BY <1>1, <1>2 DEF Kept

LEMMA KeptHolds == Spec => []Kept
<1>1. Init => Kept
  BY TypedAtFirst, InvAtFirst DEF Kept
<1>2. Kept /\ [Next]_vars => Kept'
  BY KeptNext
<1>. QED
  BY <1>1, <1>2, PTL DEF Spec

\* What the tab shows of an answer was produced, once and in order, as long as the server
\* refused none of the tab's joins (mergeChunkContent, buildMessagesFromSubtasks,
\* applyPendingChunksToState).
THEOREM ProducedIsShown == Spec => [](used.refusals = 0 => TextIsProduced)
<1>1. Kept => (used.refusals = 0 => TextIsProduced)
  BY DEF Kept, Unrefused, Inv, Shown, ShownIn, ShownOf, Rising, Upto, TextIsProduced
<1>. QED
  BY <1>1, KeptHolds, PTL

\* While the task stays open no text gets shorter, in a behaviour in which the server
\* refuses none of the tab's joins: neither a snapshot that is older than what is shown nor
\* the chunks that waited for it (syncMessagesFromJoinPayload) take anything back.
THEOREM TextOnlyGrows == Spec /\ [](used.refusals = 0) => TextNeverShrinks
<1>1. Kept /\ [Next]_vars /\ (used.refusals = 0)'
        => [m'.closed \/ \A s \in Subtask : Len(m'.msgs[s].text) >= Len(m.msgs[s].text)]_vars
  BY KeptNext DEF Unrefused, Lengthens
<1>. QED
  BY <1>1, KeptHolds, PTL DEF Spec, TextNeverShrinks
=============================================================================

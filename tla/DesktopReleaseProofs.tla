-------------------------- MODULE DesktopReleaseProofs --------------------------
(***************************************************************************)
(* What holds of the desktop release store for every number of versions,   *)
(* activations and stops, and for every choice of schemas: every plan of   *)
(* writes has its activation and the one that runs it, and nothing that    *)
(* the user added is lost.                                                 *)
(***************************************************************************)
EXTENDS DesktopRelease, FiniteSetTheorems, TLAPS

(***************************************************************************)
(* The writes, by what they are for, and the writes that may follow one.   *)
(***************************************************************************)
Activating == {"journal", "trial", "select"}
Restorings == {"aside", "copy", "mark"}
Returning  == {"quarantine", "keep", "return", "rebridge", "forget"}
Confirming == {"previous", "last", "bridge", "healthy"}
Closing    == {"untrial", "unfail", "close"}

Word == Activating \cup Restorings \cup Returning \cup Confirming \cup Closing
        \cup {"request", "drop", "restart", "launch"}

After(w) ==
  CASE w = "journal" -> {"trial"} [] w = "trial" -> {"select"} [] w = "select" -> {"restart"}
    [] w = "aside" -> {"copy"} [] w = "copy" -> {"mark"} [] w = "mark" -> {"quarantine"}
    [] w = "quarantine" -> {"keep"} [] w = "keep" -> {"return"} [] w = "return" -> {"rebridge"}
    [] w = "rebridge" -> {"forget"} [] w = "forget" -> {"untrial"}
    [] w = "previous" -> {"last"} [] w = "last" -> {"bridge"} [] w = "bridge" -> {"healthy"}
    [] w = "healthy" -> {"untrial"}
    [] w = "untrial" -> {"unfail"} [] w = "unfail" -> {"close"}
    [] w = "close" -> {"restart", "launch"} [] w = "drop" -> {"restart"}
    [] OTHER -> {}

\* A sequence of writes of the given kinds, each followed by one that may follow.
Planned(plan, words) ==
  /\ plan \in Seq(words)
  /\ \A i \in 1..(Len(plan) - 1) : plan[i + 1] \in After(plan[i])

LEMMA TailPlanned ==
  ASSUME NEW words, NEW s, Planned(s, words), s # <<>>
  PROVE  /\ Planned(Tail(s), words)
         /\ Head(s) \in words
         /\ Tail(s) # <<>> => Head(Tail(s)) \in After(Head(s)) \cap words
<1>1. s \in Seq(words) /\ Len(s) \in Nat /\ Len(s) > 0
  BY DEF Planned
<1>2. /\ Tail(s) \in Seq(words) /\ Len(Tail(s)) = Len(s) - 1
      /\ \A i \in 1..Len(Tail(s)) : Tail(s)[i] = s[i + 1]
  BY <1>1
<1>3. Head(s) = s[1] /\ s[1] \in words
  BY <1>1
<1>4. ASSUME NEW i \in 1..(Len(Tail(s)) - 1) PROVE Tail(s)[i + 1] \in After(Tail(s)[i])
  <2>1. /\ Tail(s)[i] = s[i + 1] /\ Tail(s)[i + 1] = s[(i + 1) + 1]
        /\ i + 1 \in 1..(Len(s) - 1)
    BY <1>1, <1>2
  <2> QED
    BY <2>1 DEF Planned
<1>5. ASSUME Tail(s) # <<>> PROVE Head(Tail(s)) \in After(Head(s)) \cap words
  <2>1. Len(Tail(s)) \in Nat /\ Len(Tail(s)) > 0
    BY <1>2, <1>5
  <2>2. Head(Tail(s)) = s[2] /\ 1 \in 1..(Len(s) - 1) /\ 2 \in 1..Len(s)
    BY <1>1, <1>2, <2>1
  <2>3. s[1 + 1] \in After(s[1])
    BY <2>2 DEF Planned
  <2> QED
    BY <1>1, <1>3, <2>2, <2>3
<1> QED
  BY <1>2, <1>3, <1>4, <1>5 DEF Planned

LEMMA JoinPlanned ==
  ASSUME NEW words, NEW s, NEW t, Planned(s, words), Planned(t, words),
         s # <<>>, t # <<>>, Head(t) \in After(s[Len(s)])
  PROVE  Planned(s \o t, words)
<1> DEFINE u == s \o t
<1>1. s \in Seq(words) /\ t \in Seq(words) /\ Len(s) \in Nat /\ Len(t) \in Nat
      /\ Len(s) > 0 /\ Len(t) > 0 /\ Head(t) = t[1]
  BY DEF Planned
<1>2. /\ u \in Seq(words) /\ Len(u) = Len(s) + Len(t)
      /\ \A i \in 1..Len(u) : u[i] = IF i <= Len(s) THEN s[i] ELSE t[i - Len(s)]
  BY <1>1
<1>3. ASSUME NEW i \in 1..(Len(u) - 1) PROVE u[i + 1] \in After(u[i])
  <2>1. CASE i < Len(s)
    <3>1. u[i] = s[i] /\ u[i + 1] = s[i + 1] /\ i \in 1..(Len(s) - 1)
      BY <1>1, <1>2, <2>1
    <3> QED
      BY <3>1 DEF Planned
  <2>2. CASE i = Len(s)
    <3>1. u[i] = s[Len(s)] /\ u[i + 1] = t[1]
      BY <1>1, <1>2, <2>2
    <3> QED
      BY <1>1, <3>1
  <2>3. CASE i > Len(s)
    <3> DEFINE k == i - Len(s)
    <3>1. u[i] = t[k] /\ u[i + 1] = t[k + 1] /\ k \in 1..(Len(t) - 1)
      <4>1. i \in 1..Len(u) /\ i + 1 \in 1..Len(u) /\ ~(i <= Len(s)) /\ ~(i + 1 <= Len(s))
        BY <1>1, <1>2, <2>3
      <4>2. (i + 1) - Len(s) = k + 1
        BY <1>1
      <4> QED
        BY <1>1, <1>2, <4>1, <4>2
    <3> QED
      BY <3>1 DEF Planned
  <2> QED
    BY <1>1, <2>1, <2>2, <2>3
<1> QED
  BY <1>2, <1>3 DEF Planned

LEMMA OnePlanned ==
  ASSUME NEW words, NEW w \in words PROVE Planned(<<w>>, words) /\ <<w>> # <<>>
BY DEF Planned

EntryWords == Restorings \cup Returning \cup Confirming \cup Closing \cup {"launch"}
HostWords  == Confirming \cup Closing
StopWords  == Activating \cup Restorings \cup Returning \cup Closing
              \cup {"request", "drop", "restart"}

LEMMA PlansArePlanned ==
  /\ \A words \in {EntryWords, HostWords} : Planned(Confirm, words)
  /\ \A words \in {EntryWords, StopWords} :
        Planned(Rollback, words) /\ Planned(Restore, words)
  /\ Planned(Activate, StopWords)
<1>1. \A words \in {EntryWords, HostWords} : Planned(Confirm, words)
  BY DEF Planned, Confirm, After, EntryWords, HostWords, Restorings, Returning, Confirming, Closing
<1>2. \A words \in {EntryWords, StopWords} : Planned(Rollback, words)
  BY DEF Planned, Rollback, After, EntryWords, StopWords, Activating,
     Restorings, Returning, Confirming, Closing
<1>3. \A words \in {EntryWords, StopWords} : Planned(Restore, words)
  BY DEF Planned, Restore, After, EntryWords, StopWords, Activating,
     Restorings, Returning, Confirming, Closing
<1>4. Planned(Activate, StopWords)
  BY DEF Planned, Activate, After, StopWords, Activating, Restorings, Returning, Closing
<1> QED
  BY <1>1, <1>2, <1>3, <1>4

(***************************************************************************)
(* Who runs and what it still has to write.                                *)
(***************************************************************************)
At(w)          == todo # <<>> /\ Head(todo) = w
AtOneOf(words) == todo # <<>> /\ Head(todo) \in words

Disk == [active : {0} \cup Release, bridge : {0} \cup Release, previous : {0} \cup Release,
         last : Journal, journal : Journal, trial : {0} \cup Token,
         attempted : {0} \cup Token, failed : {0} \cup Token, healthy : {0} \cup Token,
         opened : {0} \cup Token, quarantine : SUBSET Release, slots : SUBSET Release,
         snapshots : SUBSET Token, kept : SUBSET Release]

DataType ==
  data \in [live : Content, snap : [Token -> Content], aside : [Token -> Content],
            restored : SUBSET Token]

Types ==
  /\ disk \in Disk
  /\ DataType
  /\ host \in [id : {0} \cup Release,
               at : {"none", "boot", "opening", "running", "stopping"},
               prepared : {0} \cup Release]
  /\ launcher \in [at : {"none", "decide", "armed", "watch", "kill", "recover"},
                   token : {0} \cup Token]
  /\ shell \in {"none", "route", "working"}
  /\ used \in [activations : 0..MaxActivations, writes : 0..MaxWrites,
               stops : Nat, quits : Nat, started : SUBSET Token]

\* What the one that runs may write.
Words == IF shell = "working" THEN EntryWords
         ELSE IF host.at = "running" THEN HostWords
         ELSE IF host.at = "stopping" THEN StopWords ELSE {}

Plans == Planned(todo, Words)

Actors ==
  /\ shell # "none" => host.at = "none" /\ launcher.at = "none"
  /\ launcher.at \in {"decide", "armed", "recover"} => host.at = "none"
  /\ launcher.at # "none" => host.at # "stopping"
  /\ launcher.at = "none" => launcher.token = 0
  /\ launcher.at \in {"armed", "watch"} => launcher.token # 0
  /\ shell # "none" \/ launcher.at # "none" \/ host.at = "stopping" => disk.active # 0
  /\ host.at = "none" => host = NoHost
  /\ host.at \in {"boot", "opening", "running"} => host.id # 0 /\ disk.active \in {0, host.id}
  /\ host.prepared # 0 => host.at \in {"running", "stopping"} /\ disk.active # 0
  /\ host.at = "running" => host.prepared # disk.active \/ disk.active = 0

\* An activation names two releases; a plan has its activation.
Records ==
  /\ \A j \in {disk.journal, disk.last} :
       /\ j.token # 0 => j.from # 0 /\ j.to # 0 /\ j.from # j.to
       /\ j.token = 0 => j = NoJournal
       /\ j.token <= used.activations
  /\ Pending \/ disk.previous # 0 => disk.active # 0
  /\ ~disk.last.manual
  /\ AtOneOf(Word \ {"journal", "request", "restart", "launch"}) => Pending
  /\ At("journal") => /\ ~Pending /\ used.activations < MaxActivations
                      /\ host.prepared # 0 /\ host.prepared # disk.active
  /\ At("request") => ~Pending
  /\ AtOneOf(Activating \cup Confirming \cup {"launch"}) => ~disk.journal.manual
  /\ disk.journal.manual => host.at \in {"none", "stopping"} /\ launcher.at = "none"

LEMMA SchemaType == \A v \in Release : Schema(v) \in 0..Cardinality(Breaking)
<1>1. IsFiniteSet(Breaking)
  <2>1. IsFiniteSet(2..Versions)
    BY ReleaseAssumption, FS_Interval
  <2> QED
    BY <2>1, ReleaseAssumption, FS_Subset
<1>2. ASSUME NEW v \in Release PROVE Schema(v) \in 0..Cardinality(Breaking)
  <2> DEFINE S == {b \in Breaking : b <= v}
  <2>1. Cardinality(S) <= Cardinality(Breaking) /\ IsFiniteSet(S)
    BY <1>1, FS_Subset
  <2>2. Cardinality(S) \in Nat /\ Cardinality(Breaking) \in Nat
    BY <1>1, <2>1, FS_CardinalityType
  <2> QED
    BY <2>1, <2>2 DEF Schema
<1> QED
  BY <1>2

LEMMA NothingIsContent == Nothing \in Content
<1>1. IsFiniteSet(2..Versions)
  BY ReleaseAssumption, FS_Interval
<1>2. Cardinality(Breaking) \in Nat
  BY <1>1, ReleaseAssumption, FS_Subset, FS_CardinalityType
<1> QED
  BY <1>2 DEF Nothing, Content

\* A write goes on to a write that may follow.
LEMMA WriteGoesOn ==
  ASSUME NEW w, Plans, Doing(w), UNCHANGED <<host, shell>>
  PROVE  /\ Plans' /\ w \in Words
         /\ todo' # <<>> => Head(todo') \in After(w) \cap Words
<1>1. Words' = Words
  BY DEF Words
<1>2. Planned(todo, Words) /\ todo # <<>> /\ todo' = Tail(todo) /\ Head(todo) = w
  BY DEF Plans, Doing
<1> QED
  BY <1>1, <1>2, TailPlanned DEF Plans

\* Who runs nothing has nothing to write.
LEMMA IdleHasNothing == ASSUME Plans, Words = {} PROVE todo = <<>>
<1>1. todo \in Seq({})
  BY DEF Plans, Planned
<1> QED
  BY <1>1

LEMMA NothingIsPlanned == \A words : Planned(<<>>, words)
BY DEF Planned

LEMMA EndOfPlan ==
  ASSUME NEW words, NEW w \in words, w \in {"restart", "launch"},
         Planned(Rollback, words), Planned(Restore, words)
  PROVE  /\ Planned(Rollback \o <<w>>, words)
         /\ \A j : Planned(RestoreAndRollback(j) \o <<w>>, words)
<1>1. /\ Rollback # <<>> /\ Rollback[Len(Rollback)] = "close" /\ Head(Rollback) = "quarantine"
      /\ Restore # <<>> /\ Restore[Len(Restore)] = "mark"
      /\ After("close") = {"restart", "launch"} /\ After("mark") = {"quarantine"}
  BY DEF Rollback, Restore, After
<1>2. Planned(Rollback \o <<w>>, words)
  BY <1>1, JoinPlanned, OnePlanned
<1>3. \E plan : /\ plan = Restore \o Rollback /\ Planned(plan, words)
               /\ plan # <<>> /\ plan[Len(plan)] = "close"
  <2>1. Planned(Restore \o Rollback, words)
    BY <1>1, JoinPlanned
  <2>2. /\ Restore \o Rollback # <<>>
        /\ (Restore \o Rollback)[Len(Restore \o Rollback)] = "close"
    BY DEF Restore, Rollback
  <2> QED
    BY <2>1, <2>2
<1>4. Planned(<<w>>, words) /\ <<w>> # <<>> /\ Head(<<w>>) = w
  BY OnePlanned
<1>5. Planned((Restore \o Rollback) \o <<w>>, words)
  BY <1>1, <1>3, <1>4, JoinPlanned
<1>6. <<>> \o Rollback = Rollback
  BY DEF Rollback
<1> QED
  BY <1>2, <1>5, <1>6 DEF RestoreAndRollback

(***************************************************************************)
(* Types, actors and records are inductive together.                       *)
(***************************************************************************)
Base == Types /\ Plans /\ Actors /\ Records

LEMMA BaseInit == Init => Base
<1> SUFFICES ASSUME Init PROVE Base
  OBVIOUS
<1>1. 1 \in Release /\ Schema(1) \in 0..Cardinality(Breaking)
  BY SchemaType, ReleaseAssumption DEF Release
<1>2. Types
  <2>1. Nothing \in Content
    BY NothingIsContent
  <2>2. data.live \in Content /\ 1 \in {0} \cup Release
    BY <1>1, ReleaseAssumption DEF Init, Content, Release
  <2>3. DataType
    BY <2>1, <2>2 DEF Init, DataType
  <2>4. disk \in Disk
    BY DEF Init, Disk, Journal, NoJournal
  <2>5. host \in [id : {0} \cup Release,
                  at : {"none", "boot", "opening", "running", "stopping"},
                  prepared : {0} \cup Release]
    BY <2>2 DEF Init
  <2> QED
    BY <2>3, <2>4, <2>5, ReleaseAssumption DEF Init, Types, Idle
<1>3. Plans
  BY NothingIsPlanned DEF Init, Plans
<1>4. Actors
  BY DEF Init, Actors, Idle, NoHost
<1>5. Records
  BY DEF Init, Records, Pending, NoJournal, At, AtOneOf
<1> QED
  BY <1>2, <1>3, <1>4, <1>5 DEF Base

\* What becomes of the data.
LEMMA DataStep == Base /\ [Next]_vars => DataType'
<1> SUFFICES ASSUME Base, [Next]_vars PROVE DataType'
  OBVIOUS
<1>0. DataType
  BY DEF Base, Types
<1>1. CASE WriteJournal
  <2>1. data' = [data EXCEPT !.snap[used.activations + 1] = data.live]
    BY <1>1 DEF WriteJournal
  <2> QED
    BY <1>0, <2>1 DEF DataType
<1>2. CASE PutAside
  <2>1. CASE data' = data
    BY <1>0, <2>1 DEF DataType
  <2>2. CASE data' = [data EXCEPT !.aside[disk.journal.token] = data.live, !.live = Nothing]
    BY <1>0, <2>2, NothingIsContent DEF DataType
  <2> QED
    BY <1>2, <2>1, <2>2 DEF PutAside, Restoring, Aside
<1>3. CASE CopySnapshot
  <2>1. disk.journal.token \in Token
    BY <1>3 DEF CopySnapshot, Restoring, Base, Types, Disk
  <2>2. CASE data' = [data EXCEPT !.live = data.snap[disk.journal.token]]
    BY <1>0, <2>1, <2>2 DEF DataType
  <2> QED
    BY <1>0, <1>3, <2>2 DEF CopySnapshot, Restoring, Copied, DataType
<1>4. CASE MarkRestored
  <2>1. disk.journal.token \in Token
    BY <1>4 DEF MarkRestored, Restoring, Base, Types, Disk
  <2> QED
    BY <1>0, <1>4, <2>1 DEF MarkRestored, Restoring, DataType
<1>5. CASE OpenData
  <2>1. host.id \in Release
    BY <1>5 DEF OpenData, Base, Types, Actors
  <2>2. Schema(host.id) \in 0..Cardinality(Breaking)
    BY <2>1, SchemaType
  <2>3. Migrated(data.live) \in Content
    BY <1>0, <2>2 DEF Migrated, DataType, Content
  <2> QED
    BY <1>0, <1>5, <2>3 DEF OpenData, DataType
<1>6. CASE AddData
  <2>1. used.writes \in 0..MaxWrites /\ used.writes < MaxWrites
    BY <1>6 DEF AddData, Base, Types
  <2>2. used.writes + 1 \in 1..MaxWrites
    BY <2>1, ReleaseAssumption
  <2>3. [data.live EXCEPT !.writes = @ \cup {used.writes + 1}] \in Content
    BY <1>0, <2>2 DEF DataType, Content
  <2>4. data' = [data EXCEPT !.live = [data.live EXCEPT !.writes = @ \cup {used.writes + 1}]]
    BY <1>0, <1>6 DEF AddData, DataType, Content
  <2> QED
    BY <1>0, <2>3, <2>4 DEF DataType
<1>7. UNCHANGED data \/ WriteJournal \/ PutAside \/ CopySnapshot \/ MarkRestored
      \/ OpenData \/ AddData
  BY DEF Next, vars, Store, Entry, Launcher, Application, User, Failures,
         WriteTrial, WriteSelect, WritePrevious, WriteLast, WriteBridge, WriteHealthy,
         WriteQuarantine, WriteKeep, WriteReturn, WriteRebridge, WriteForget, RemoveTrial,
         RemoveFailed, RemoveJournal, RemoveRequest, WriteRequest, Write, ResumeRollback,
         ResumeConfirmation, RollBackFailure, ConsentToRestore, Resume, NothingToResume, Launch,
         Restart, LaunchPlainly, RefuseSecondTrial, BeginTrial, SpawnTrial, SeeHealthy, GiveUp,
         KillTarget, Recover, MarkOpened, BecomeReady, StartUp, Install, RequestRollback,
         QuitInstead, Prepare, Exit, SpawnFails, PowerLoss
<1> QED
  BY <1>0, <1>1, <1>2, <1>3, <1>4, <1>5, <1>6, <1>7 DEF DataType

\* What becomes of the files of the store.
LEMMA DiskStep == Base /\ [Next]_vars => disk' \in Disk
<1> SUFFICES ASSUME Base, [Next]_vars PROVE disk' \in Disk
  OBVIOUS
<1>0. disk \in Disk /\ disk.journal \in Journal /\ disk.last \in Journal
  BY DEF Base, Types, Disk
<1>1. CASE WriteJournal
  <2>1. used.activations < MaxActivations
    BY <1>1 DEF WriteJournal, Doing, At, Base, Records
  <2>2. used.activations + 1 \in Token
    BY <2>1, ReleaseAssumption DEF Base, Types, Token
  <2> DEFINE journal == [token |-> used.activations + 1, from |-> disk.active,
                         to |-> host.prepared,
                         restore |-> Schema(host.prepared) > Schema(disk.active),
                         manual |-> FALSE]
  <2>3. journal \in Journal
    BY <1>0, <2>2 DEF Base, Types, Disk, Journal
  <2>4. disk' = [disk EXCEPT !.snapshots = @ \cup {used.activations + 1}, !.journal = journal]
    BY <1>1 DEF WriteJournal
  <2> HIDE DEF journal
  <2> QED
    BY <1>0, <2>2, <2>3, <2>4 DEF Disk
<1>2. CASE WriteTrial \/ WriteSelect \/ WritePrevious \/ WriteBridge \/ WriteHealthy
  BY <1>0, <1>2 DEF WriteTrial, WriteSelect, WritePrevious, WriteBridge, WriteHealthy,
     Write, Disk, Journal
<1>3. CASE WriteLast
  BY <1>0, <1>3 DEF WriteLast, Write, Disk
<1>4. CASE WriteQuarantine
  BY <1>0, <1>4 DEF WriteQuarantine, Write, Disk
<1>5. CASE WriteKeep
  <2>1. Pending
    BY <1>5 DEF WriteKeep, Write, Doing, Base, Records, AtOneOf, Word, Returning
  <2>2. disk.journal.to \in Release
    BY <1>0, <2>1 DEF Base, Records, Pending, Journal
  <2> QED
    BY <1>0, <1>5, <2>2 DEF WriteKeep, Write, Disk
<1>6. CASE WriteReturn \/ WriteRebridge \/ WriteForget \/ RemoveTrial \/ RemoveFailed
  BY <1>0, <1>6 DEF WriteReturn, WriteRebridge, WriteForget, RemoveTrial, RemoveFailed,
     Write, Disk, Journal
<1>7. CASE RemoveJournal \/ RemoveRequest
  <2>1. NoJournal \in Journal
    BY DEF NoJournal, Journal
  <2> QED
    BY <1>0, <1>7, <2>1 DEF RemoveJournal, RemoveRequest, Write, Disk
<1>8. CASE WriteRequest
  <2>1. [disk.last EXCEPT !.manual = TRUE] \in Journal
    BY <1>0 DEF Journal
  <2> QED
    BY <1>0, <1>8, <2>1 DEF WriteRequest, Disk
<1>9. CASE BeginTrial \/ Recover
  BY <1>0, <1>9 DEF BeginTrial, Recover, Base, Types, Disk
<1>10. CASE MarkOpened
  BY <1>0, <1>10 DEF MarkOpened, Disk, Journal
<1>11. ASSUME NEW v \in Release, Prepare(v) PROVE disk' \in Disk
  <2>1. host.id \in Release
    BY <1>11 DEF Prepare, Free, Base, Actors, Types
  <2>2. Registered(disk) \in Disk
    BY <1>0, <2>1 DEF Registered, Disk
  <2>3. Pruned(Registered(disk)) \in Disk
    BY <2>2 DEF Pruned, Disk
  <2> QED
    BY <1>11, <2>3 DEF Prepare, Disk
<1>12. \/ UNCHANGED disk \/ WriteJournal \/ WriteTrial \/ WriteSelect \/ WritePrevious
       \/ WriteBridge \/ WriteHealthy \/ WriteLast \/ WriteQuarantine \/ WriteKeep
       \/ WriteReturn \/ WriteRebridge \/ WriteForget \/ RemoveTrial \/ RemoveFailed
       \/ RemoveJournal \/ RemoveRequest \/ WriteRequest \/ BeginTrial \/ Recover
       \/ MarkOpened \/ \E v \in Release : Prepare(v)
  BY DEF Next, vars, Store, Entry, Launcher, Application, User, Failures, PutAside,
         CopySnapshot, MarkRestored, Restoring, ResumeRollback, ResumeConfirmation,
         RollBackFailure, ConsentToRestore, Resume, NothingToResume, Launch, Restart,
         LaunchPlainly, RefuseSecondTrial, SpawnTrial, SeeHealthy, GiveUp, KillTarget,
         OpenData, BecomeReady, AddData, StartUp, Install, RequestRollback, QuitInstead,
         Exit, SpawnFails, PowerLoss
<1> QED
  BY <1>0, <1>1, <1>2, <1>3, <1>4, <1>5, <1>6, <1>7, <1>8, <1>9, <1>10, <1>11, <1>12

LEMMA TypesStep == Base /\ [Next]_vars => Types'
<1> SUFFICES ASSUME Base, [Next]_vars PROVE Types'
  OBVIOUS
<1>0. disk' \in Disk /\ DataType'
  BY DataStep, DiskStep
<1>1. CASE Store
  <2>1. CASE WriteJournal
    <3>1. used.activations < MaxActivations
      BY <2>1 DEF WriteJournal, Doing, At, Base, Records
    <3>2. used.activations + 1 \in 0..MaxActivations
      BY <3>1, ReleaseAssumption DEF Base, Types
    <3> QED
      BY <1>0, <2>1, <3>2 DEF WriteJournal, Base, Types
  <2>2. CASE UNCHANGED <<host, launcher, shell, used>>
    BY <1>0, <2>2 DEF Base, Types
  <2> QED
    BY <1>1, <2>1, <2>2
    DEF Store, WriteTrial, WriteSelect, WritePrevious, WriteLast, WriteBridge, WriteHealthy,
        WriteQuarantine, WriteKeep, WriteReturn, WriteRebridge, WriteForget, RemoveTrial,
        RemoveFailed, RemoveJournal, RemoveRequest, WriteRequest, Write, PutAside,
        CopySnapshot, MarkRestored, Restoring
<1>2. CASE Entry
  BY <1>0, <1>2 DEF Entry, ResumeRollback, ResumeConfirmation, RollBackFailure, ConsentToRestore,
     NothingToResume, Launch, Restart, Resume, Idle, NoHost, Base, Types
<1>3. CASE Launcher
  <2>1. disk.active \in {0} \cup Release /\ disk.trial \in {0} \cup Token
    BY DEF Base, Types, Disk
  <2>2. CASE SpawnTrial
    <3>1. launcher.token \in Token
      BY <2>2 DEF SpawnTrial, Base, Types, Actors
    <3> QED
      BY <1>0, <2>1, <2>2, <3>1 DEF SpawnTrial, Spawned, NoHost, Base, Types
  <2>3. CASE LaunchPlainly
    <3>1. host' = [id |-> disk.active, at |-> "boot", prepared |-> 0]
      BY <2>3 DEF LaunchPlainly, Spawned, NoHost
    <3>2. launcher' = [at |-> "none", token |-> 0] /\ UNCHANGED <<shell, used>>
      BY <2>3 DEF LaunchPlainly, Idle
    <3> QED
      BY <1>0, <2>1, <3>1, <3>2 DEF Base, Types
  <2>6. CASE SeeHealthy
    BY <1>0, <2>6 DEF SeeHealthy, Idle, Base, Types
  <2>5. CASE RefuseSecondTrial \/ BeginTrial
    BY <1>0, <2>1, <2>5 DEF RefuseSecondTrial, BeginTrial, Base, Types
  <2>4. CASE GiveUp \/ KillTarget \/ Recover
    BY <1>0, <2>1, <2>4 DEF GiveUp, KillTarget, Recover, NoHost, Idle, Base, Types
  <2> QED
    BY <1>3, <2>2, <2>3, <2>4, <2>5, <2>6 DEF Launcher
<1>4. CASE Application
  BY <1>0, <1>4 DEF Application, MarkOpened, OpenData, BecomeReady, Base, Types
<1>5. CASE User
  <2>1. CASE AddData
    <3>1. used.writes + 1 \in 0..MaxWrites
      BY <2>1, ReleaseAssumption DEF AddData, Base, Types
    <3>2. used' = [used EXCEPT !.writes = @ + 1] /\ UNCHANGED <<host, launcher, shell>>
      BY <2>1 DEF AddData
    <3> QED
      BY <1>0, <3>1, <3>2 DEF Base, Types
  <2>2. CASE StartUp
    <3>1. 1 \in Release
      BY ReleaseAssumption DEF Release
    <3>2. host' = [id |-> 1, at |-> "opening", prepared |-> 0] \/ host' = host
      BY <2>2 DEF StartUp, NoHost
    <3>3. shell' \in {shell, "route"} /\ UNCHANGED <<launcher, used>>
      BY <2>2 DEF StartUp
    <3> QED
      BY <1>0, <3>1, <3>2, <3>3 DEF Base, Types
  <2>3. CASE Install \/ RequestRollback \/ QuitInstead
    BY <1>0, <2>3 DEF Install, RequestRollback, QuitInstead, Base, Types
  <2>4. ASSUME NEW v \in Release, Prepare(v) PROVE Types'
    BY <1>0, <2>4 DEF Prepare, Base, Types
  <2> QED
    BY <1>5, <2>1, <2>2, <2>3, <2>4 DEF User
<1>6. CASE Failures
  BY <1>0, <1>6 DEF Failures, Exit, SpawnFails, PowerLoss, NoHost, Idle, Base, Types
<1>7. CASE UNCHANGED vars
  BY <1>0, <1>7 DEF vars, Base, Types
<1> QED
  BY <1>1, <1>2, <1>3, <1>4, <1>5, <1>6, <1>7 DEF Next

LEMMA PlansStep == Base /\ [Next]_vars => Plans'
<1> SUFFICES ASSUME Base, [Next]_vars PROVE Plans'
  OBVIOUS
<1>0. Plans /\ Actors
  BY DEF Base
<1>1. CASE \E w : Doing(w) /\ UNCHANGED <<host, shell>>
  BY <1>0, <1>1, WriteGoesOn
<1>2. CASE WriteRequest
  <2>1. "request" \in Words
    BY <1>0, <1>2, TailPlanned DEF WriteRequest, Plans
  <2>2. Words = StopWords /\ Words' = StopWords
    BY <1>2, <2>1 DEF WriteRequest, Words, EntryWords, HostWords, Restorings, Returning,
                      Confirming, Closing
  <2>3. Planned(Rollback, StopWords) /\ Planned(Restore, StopWords)
    BY PlansArePlanned
  <2>4. "restart" \in StopWords /\ "drop" \in StopWords
    BY DEF StopWords
  <2>5. Planned(<<>> \o <<"restart">>, StopWords)
    <3>1. <<>> \o <<"restart">> = <<"restart">>
      OBVIOUS
    <3> QED
      BY <2>4, <3>1, OnePlanned
  <2>6. Planned(<<"drop">> \o <<"restart">>, StopWords)
    BY <2>4 DEF Planned, After
  <2>7. Planned(RestoreAndRollback(disk.last) \o <<"restart">>, StopWords)
    BY <2>3, <2>4, EndOfPlan
  <2>8. Planned(todo', StopWords)
    BY <1>2, <2>5, <2>6, <2>7 DEF WriteRequest
  <2> QED
    BY <2>2, <2>8 DEF Plans
<1>3. CASE Restart \/ Launch
  <2>1. /\ Planned(todo, Words) /\ todo # <<>> /\ todo' = Tail(todo)
        /\ Head(todo) \in {"restart", "launch"}
    BY <1>0, <1>3 DEF Restart, Launch, Doing, Plans
  <2>2. After("restart") = {} /\ After("launch") = {}
    BY DEF After
  <2> QED
    BY <2>1, <2>2, TailPlanned, NothingIsPlanned DEF Plans
<1>4. CASE todo' = <<>>
  BY <1>4, NothingIsPlanned DEF Plans
<1>5. CASE Words = {} /\ UNCHANGED todo
  BY <1>0, <1>5, IdleHasNothing, NothingIsPlanned DEF Plans
<1>6. CASE UNCHANGED <<todo, shell>> /\ host'.at = host.at
  BY <1>0, <1>6 DEF Plans, Words
<1>7. CASE BecomeReady
  <2>1. Words' = HostWords
    BY <1>0, <1>7 DEF BecomeReady, Free, Words, Actors
  <2> QED
    BY <1>7, <2>1, PlansArePlanned DEF BecomeReady, Plans
<1>8. CASE Install \/ RequestRollback
  <2>1. Words' = StopWords
    BY <1>0, <1>8 DEF Install, RequestRollback, Free, Words, Actors, Base, Types
  <2>2. "restart" \in StopWords /\ "request" \in StopWords
    BY DEF StopWords
  <2>3. Planned(todo', StopWords)
    BY <1>8, <2>2, PlansArePlanned, OnePlanned DEF Install, RequestRollback
  <2> QED
    BY <2>1, <2>3 DEF Plans
<1>9. ASSUME NEW writes, Resume(writes),
             writes \in {Confirm, Rollback, RestoreAndRollback(disk.journal)}
      PROVE  Plans'
  <2>1. Words' = EntryWords /\ todo' = writes \o <<"launch">>
    BY <1>9 DEF Resume, Words
  <2>2. "launch" \in EntryWords /\ Planned(Rollback, EntryWords) /\ Planned(Restore, EntryWords)
        /\ Planned(Confirm, EntryWords)
    BY PlansArePlanned DEF EntryWords
  <2>3. /\ Confirm # <<>> /\ Confirm[Len(Confirm)] = "close" /\ "launch" \in After("close")
    BY DEF Confirm, After
  <2>4. Planned(<<"launch">>, EntryWords) /\ <<"launch">> # <<>> /\ Head(<<"launch">>) = "launch"
    BY <2>2, OnePlanned
  <2>5. Planned(Confirm \o <<"launch">>, EntryWords)
    BY <2>2, <2>3, <2>4, JoinPlanned
  <2>6. Planned(writes \o <<"launch">>, EntryWords)
    BY <1>9, <2>2, <2>5, EndOfPlan
  <2> QED
    BY <2>1, <2>6 DEF Plans
<1>10. CASE Store
  BY <1>1, <1>2, <1>10
  DEF Store, WriteJournal, WriteTrial, WriteSelect, WritePrevious, WriteLast, WriteBridge,
      WriteHealthy, WriteQuarantine, WriteKeep, WriteReturn, WriteRebridge, WriteForget,
      RemoveTrial, RemoveFailed, RemoveJournal, RemoveRequest, Write, PutAside, CopySnapshot,
      MarkRestored, Restoring
<1>11. CASE Entry
  <2>1. CASE ResumeRollback \/ ResumeConfirmation \/ RollBackFailure \/ ConsentToRestore
    BY <1>9, <2>1 DEF ResumeRollback, ResumeConfirmation, RollBackFailure, ConsentToRestore
  <2>2. CASE NothingToResume
    BY <1>0, <1>5, <2>2 DEF NothingToResume, Words, Actors
  <2> QED
    BY <1>3, <1>11, <2>1, <2>2 DEF Entry
<1>12. CASE Launcher
  <2>1. CASE LaunchPlainly \/ SpawnTrial \/ Recover
    BY <1>0, <1>5, <2>1 DEF LaunchPlainly, SpawnTrial, Recover, Words, Actors, Base, Types
  <2> QED
    BY <1>4, <1>6, <1>12, <2>1 DEF Launcher, RefuseSecondTrial, BeginTrial, SeeHealthy, GiveUp,
       KillTarget
<1>13. CASE Application
  BY <1>0, <1>5, <1>7, <1>13 DEF Application, MarkOpened, OpenData, Words, Actors, Base, Types
<1>14. CASE User
  <2>1. CASE StartUp \/ QuitInstead
    BY <1>0, <1>5, <2>1 DEF StartUp, QuitInstead, Words, Actors, Base, Types
  <2>2. ASSUME NEW v \in Release, Prepare(v) PROVE Plans'
    BY <1>6, <2>2 DEF Prepare, Base, Types
  <2> QED
    BY <1>6, <1>8, <1>14, <2>1, <2>2 DEF User, AddData
<1>15. CASE Failures
  BY <1>4, <1>6, <1>15 DEF Failures, Exit, SpawnFails, PowerLoss
<1>16. CASE UNCHANGED vars
  BY <1>6, <1>16 DEF vars
<1> QED
  BY <1>10, <1>11, <1>12, <1>13, <1>14, <1>15, <1>16 DEF Next

\* Who is at a write of a kind.
LEMMA Who ==
  ASSUME Base, NEW w, At(w)
  PROVE  /\ w \in Words
         /\ w \in Activating \cup {"request", "drop", "restart"} =>
              host.at = "stopping" /\ shell = "none" /\ launcher.at = "none"
         /\ w = "launch" => shell = "working"
         /\ w \in Restorings \cup Returning =>
              host.at \in {"none", "stopping"} /\ launcher.at = "none"
         /\ w \in Confirming => shell = "working" \/ host.at = "running"
         /\ w \in Closing \cup Confirming \cup Restorings \cup Returning =>
              host.at \in {"none", "running", "stopping"}
<1>1. Plans /\ Actors /\ Types
  BY DEF Base
<1>2. w \in Words
  BY <1>1, TailPlanned DEF At, Plans
<1> QED
  BY <1>1, <1>2 DEF Words, Actors, Types, EntryWords, HostWords, StopWords, Activating, Restorings,
     Returning, Confirming, Closing

LEMMA ActorsStep == Base /\ [Next]_vars => Actors'
<1> SUFFICES ASSUME Base, [Next]_vars PROVE Actors'
  OBVIOUS
<1>0. Plans /\ Actors /\ Records /\ Types
  BY DEF Base
<1>1. CASE Store
  <2>1. UNCHANGED <<host, launcher, shell>>
    BY <1>1 DEF Store, WriteJournal, WriteTrial, WriteSelect, WritePrevious, WriteLast,
       WriteBridge, WriteHealthy, WriteQuarantine, WriteKeep, WriteReturn, WriteRebridge,
       WriteForget, RemoveTrial, RemoveFailed, RemoveJournal, RemoveRequest, WriteRequest, Write,
       PutAside, CopySnapshot, MarkRestored, Restoring
  <2>2. CASE disk'.active = disk.active
    BY <1>0, <2>1, <2>2 DEF Actors
  <2>3. CASE WriteSelect \/ WriteReturn
    <3>1. /\ At("select") \/ At("return")
          /\ disk'.active \in {disk.journal.to, disk.journal.from}
      BY <1>0, <2>3 DEF WriteSelect, WriteReturn, Write, Doing, At, Types, Disk
    <3>2. disk.journal.to # 0 /\ disk.journal.from # 0
      BY <1>0, <3>1 DEF At, Records, AtOneOf, Word, Activating, Returning, Pending
    <3>3. host.at \notin {"boot", "opening", "running"}
      BY <3>1, Who DEF Activating, Returning
    <3> QED
      BY <1>0, <2>1, <3>1, <3>2, <3>3 DEF Actors
  <2>4. disk'.active = disk.active \/ WriteSelect \/ WriteReturn
    BY <1>0, <1>1 DEF Store, WriteJournal, WriteTrial, WritePrevious, WriteLast,
       WriteBridge, WriteHealthy, WriteQuarantine, WriteKeep, WriteRebridge,
       WriteForget, RemoveTrial, RemoveFailed, RemoveJournal, RemoveRequest, WriteRequest, Write,
       PutAside, CopySnapshot, MarkRestored, Restoring, Types, Disk
  <2> QED
    BY <2>2, <2>3, <2>4
<1>2. CASE Entry
  <2>1. CASE Restart
    <3>1. /\ host.at = "stopping" /\ launcher.at = "none" /\ launcher' = launcher
          /\ host' = NoHost /\ disk' = disk
      BY <2>1, Who DEF Restart, Doing, At
    <3> QED
      BY <1>0, <3>1 DEF Actors, NoHost
  <2>2. CASE Launch
    <3>1. shell = "working"
      BY <2>2, Who DEF Launch, Doing, At
    <3> QED
      BY <1>0, <2>2, <3>1 DEF Launch, Idle, Actors, NoHost
  <2>3. CASE ResumeRollback \/ ResumeConfirmation \/ RollBackFailure \/ ConsentToRestore
    BY <1>0, <2>3 DEF ResumeRollback, ResumeConfirmation, RollBackFailure, ConsentToRestore,
       Resume, Actors
  <2>4. CASE NothingToResume
    BY <1>0, <2>4 DEF NothingToResume, Idle, Actors, NoHost
  <2> QED
    BY <1>2, <2>1, <2>2, <2>3, <2>4 DEF Entry
<1>3. CASE Launcher
  <2>1. CASE LaunchPlainly \/ SpawnTrial
    <3>1. host' = [id |-> disk.active, at |-> "boot", prepared |-> 0] /\ shell = "none"
      BY <1>0, <2>1 DEF LaunchPlainly, SpawnTrial, Spawned, NoHost, Actors, Types
    <3> QED
      BY <1>0, <2>1, <3>1 DEF LaunchPlainly, SpawnTrial, Idle, Actors, Types
  <2>2. CASE RefuseSecondTrial \/ BeginTrial
    BY <1>0, <2>2 DEF RefuseSecondTrial, BeginTrial, Actors, Types, Disk
  <2>3. CASE SeeHealthy \/ GiveUp
    BY <1>0, <2>3 DEF SeeHealthy, GiveUp, Idle, Actors, Types
  <2>4. CASE KillTarget \/ Recover
    BY <1>0, <2>4 DEF KillTarget, Recover, Idle, NoHost, Actors, Types, Disk
  <2> QED
    BY <1>3, <2>1, <2>2, <2>3, <2>4 DEF Launcher
<1>4. CASE Application
  BY <1>0, <1>4 DEF Application, MarkOpened, OpenData, BecomeReady, Actors, Types, Disk
<1>5. CASE User
  <2>1. CASE StartUp
    <3>1. CASE disk.active = 0
      <4>1. host' = [id |-> 1, at |-> "opening", prepared |-> 0]
            /\ UNCHANGED <<disk, launcher, shell>>
        BY <2>1, <3>1 DEF StartUp, NoHost
      <4> QED
        BY <1>0, <2>1, <3>1, <4>1 DEF StartUp, Actors
    <3>2. CASE disk.active # 0
      BY <1>0, <2>1, <3>2 DEF StartUp, Actors, Idle
    <3> QED
      BY <3>1, <3>2
  <2>4. CASE QuitInstead
    BY <1>0, <2>4 DEF QuitInstead, Actors
  <2>2. CASE AddData \/ Install \/ RequestRollback
    BY <1>0, <2>2 DEF AddData, Install, RequestRollback, Free, Actors, Records, Idle, Types
  <2>3. ASSUME NEW v \in Release, Prepare(v) PROVE Actors'
    <3>1. /\ host.at = "running" /\ host.id # 0 /\ v > host.id
          /\ disk.active \in {0, host.id} /\ host.id \in Nat /\ v \in Nat
      BY <1>0, <2>3 DEF Prepare, Free, Actors, Types, Release
    <3>2. disk'.active = host.id
      BY <1>0, <2>3, <3>1 DEF Prepare, Registered, Pruned, Types, Disk
    <3> QED
      BY <1>0, <2>3, <3>1, <3>2 DEF Prepare, Actors, Types
  <2> QED
    BY <1>5, <2>1, <2>2, <2>3, <2>4 DEF User
<1>6. CASE Failures
  BY <1>0, <1>6 DEF Failures, Exit, SpawnFails, PowerLoss, NoHost, Idle, Actors, Types
<1>7. CASE UNCHANGED vars
  BY <1>0, <1>7 DEF vars, Actors
<1> QED
  BY <1>1, <1>2, <1>3, <1>4, <1>5, <1>6, <1>7 DEF Next

LEMMA RecordsStep == Base /\ [Next]_vars => Records'
<1> SUFFICES ASSUME Base, [Next]_vars PROVE Records'
  OBVIOUS
<1>0. Plans /\ Actors /\ Records /\ Types /\ Types' /\ disk \in Disk
  BY TypesStep DEF Base, Types
<1> DEFINE Sound(j, n) == /\ j.token # 0 => j.from # 0 /\ j.to # 0 /\ j.from # j.to
                          /\ j.token = 0 => j = NoJournal
                          /\ j.token <= n
<1>1. CASE WriteJournal
  <2> DEFINE journal == [token |-> used.activations + 1, from |-> disk.active,
                         to |-> host.prepared,
                         restore |-> Schema(host.prepared) > Schema(disk.active),
                         manual |-> FALSE]
  <2>1. /\ At("journal") /\ disk'.journal = journal /\ disk'.last = disk.last
        /\ disk'.active = disk.active /\ disk'.previous = disk.previous
        /\ used'.activations = used.activations + 1
    BY <1>0, <1>1 DEF WriteJournal, Doing, At, Disk, Types
  <2>2. host.prepared # 0 /\ host.prepared # disk.active /\ disk.active # 0
    BY <1>0, <2>1 DEF Records, Actors
  <2>3. todo' # <<>> => Head(todo') = "trial"
    <3>1. Doing("journal") /\ UNCHANGED <<host, shell>>
      BY <1>1 DEF WriteJournal
    <3> QED
      BY <1>0, <3>1, WriteGoesOn DEF After
  <2>4. used.activations \in Nat /\ disk.last.token \in Nat
    BY <1>0 DEF Types, Disk, Journal, Token
  <2>5. Sound(disk'.journal, used'.activations) /\ Sound(disk'.last, used'.activations)
    <3>1. Sound(disk.last, used.activations)
      BY <1>0 DEF Records
    <3> QED
      BY <2>1, <2>2, <2>4, <3>1
  <2>6. Pending' /\ ~disk'.journal.manual
    BY <2>1, <2>4 DEF Pending
  <2> QED
    BY <1>0, <2>1, <2>2, <2>3, <2>5, <2>6 DEF Records, Actors, At, AtOneOf, Word
<1>2. ASSUME NEW w, Doing(w), UNCHANGED <<host, launcher, shell, used>>, w # "journal",
             disk'.active # 0 \/ disk'.active = disk.active,
             disk'.journal = IF w \in {"close", "drop"} THEN NoJournal ELSE disk.journal,
             \/ disk'.last = disk.last
             \/ w \in Confirming /\ disk'.last = disk.journal,
             \/ disk'.previous \in {0, disk.previous}
             \/ w \in Confirming
      PROVE  Records'
  <2>1. At(w) /\ w \in Words
    BY <1>0, <1>2, WriteGoesOn DEF Doing, At
  <2>2. todo' # <<>> => Head(todo') \in After(w) \cap Words
    BY <1>0, <1>2, WriteGoesOn
  <2>3. w \in Word
    BY <2>1 DEF Words, Word, EntryWords, HostWords, StopWords
  <2>4. w \in Word \ {"journal", "request", "restart", "launch"} => Pending
    BY <1>0, <2>1 DEF Records, At, AtOneOf
  <2>5. w \in Activating \cup Confirming => ~disk.journal.manual
    BY <1>0, <2>1 DEF Records, At, AtOneOf
  <2>6. Sound(disk.journal, used.activations) /\ Sound(disk.last, used.activations)
        /\ Sound(NoJournal, used.activations)
    BY <1>0 DEF Records, NoJournal, Types
  <2>7. Sound(disk'.journal, used'.activations) /\ Sound(disk'.last, used'.activations)
    BY <1>2, <2>6
  <2>8. Pending' \/ disk'.previous # 0 => disk'.active # 0
    BY <1>0, <1>2, <2>4 DEF Records, Pending, NoJournal, Confirming, Word
  <2>9. ~disk'.last.manual
    BY <1>0, <1>2, <2>5 DEF Records
  <2>10. ASSUME todo' # <<>>
         PROVE  LET h == Head(todo')
                IN /\ h \in {"restart", "launch"} \/ Pending'
                   /\ h \notin {"journal", "request"}
                   /\ h \in Activating \cup Confirming \cup {"launch"} => ~disk'.journal.manual
    <3>1. Head(todo') \in After(w)
      BY <2>2, <2>10
    <3>2. CASE w \in {"close", "drop", "restart", "launch", "request"}
      BY <1>2, <3>1, <3>2 DEF After, Activating, Confirming, NoJournal
    <3>3. CASE w \in Activating \cup Confirming
      <4>1. Pending' /\ ~disk'.journal.manual
        BY <1>2, <2>4, <2>5, <3>3 DEF Activating, Confirming, Word, Pending
      <4> QED
        BY <1>2, <3>1, <3>3, <4>1 DEF After, Activating, Confirming
    <3>4. CASE w \in Restorings \cup Returning \cup {"untrial", "unfail"}
      <4>1. Pending'
        BY <1>2, <2>4, <3>4 DEF Restorings, Returning, Word, Closing, Pending
      <4> QED
        BY <3>1, <3>4, <4>1 DEF After, Restorings, Returning, Activating, Confirming
    <3> QED
      BY <2>3, <3>2, <3>3, <3>4 DEF Word, Closing
  <2>11. disk'.journal.manual => host'.at \in {"none", "stopping"} /\ launcher'.at = "none"
    BY <1>0, <1>2 DEF Records, NoJournal
  <2> QED
    BY <2>7, <2>8, <2>9, <2>10, <2>11 DEF Records, At, AtOneOf

<1>3. CASE WriteRequest
  <2>1. At("request") /\ ~Pending /\ host.at = "stopping" /\ launcher.at = "none"
    <3>1. At("request")
      BY <1>3 DEF WriteRequest, At
    <3> QED
      BY <1>0, <3>1, Who DEF Records
  <2>2. UNCHANGED <<host, launcher, shell, used>> /\ disk'.last = disk.last
        /\ disk'.active = disk.active /\ disk'.previous = disk.previous
    BY <1>0, <1>3 DEF WriteRequest, Disk
  <2>3. Sound(disk.last, used.activations) /\ disk.journal = NoJournal
    BY <1>0, <2>1 DEF Records, Pending
  <2>4. CASE disk.last.token = 0
    <3>1. disk' = disk /\ todo' = <<>> \o <<"restart">>
      BY <1>3, <2>4 DEF WriteRequest
    <3>2. todo' = <<"restart">>
      BY <3>1
    <3> QED
      BY <1>0, <2>2, <3>1, <3>2 DEF Records, At, AtOneOf, Pending, Activating, Confirming
  <2>5. CASE disk.last.token # 0
    <3>1. disk'.journal = [disk.last EXCEPT !.manual = TRUE]
      BY <1>0, <1>3, <2>5 DEF WriteRequest, Disk
    <3>2. Sound(disk'.journal, used.activations) /\ disk'.journal.token # 0
      BY <1>0, <2>3, <2>5, <3>1 DEF Disk, Journal
    <3>3. Head(todo') \in {"aside", "quarantine", "drop"}
      <4>1. /\ Head(RestoreAndRollback(disk.last) \o <<"restart">>) \in {"aside", "quarantine"}
            /\ Head(<<"drop">> \o <<"restart">>) = "drop"
        BY DEF RestoreAndRollback, Restore, Rollback
      <4> QED
        BY <1>3, <2>5, <4>1 DEF WriteRequest
    <3>4. disk.last.token # 0 \/ disk.previous # 0 => disk.active # 0
      BY <1>0, <2>1 DEF Actors
    <3> QED
      BY <1>0, <2>1, <2>2, <2>3, <3>1, <3>2, <3>3, <3>4
      DEF Records, At, AtOneOf, Pending, Activating, Confirming
  <2> QED
    BY <2>4, <2>5
<1>4. CASE todo' = <<>> /\ UNCHANGED <<disk, used>>
           /\ (disk.journal.manual => host'.at \in {"none", "stopping"} /\ launcher'.at = "none")
  BY <1>0, <1>4 DEF Records, At, AtOneOf, Pending
<1>5. CASE /\ UNCHANGED <<disk, todo>> /\ used'.activations = used.activations
           /\ host' = host \/ todo = <<>>
           /\ disk.journal.manual => host'.at \in {"none", "stopping"} /\ launcher'.at = "none"
  BY <1>0, <1>5 DEF Records, At, AtOneOf, Pending
<1>6. CASE Store
  <2>1. CASE \/ WriteTrial \/ WriteSelect \/ WritePrevious \/ WriteLast \/ WriteBridge
             \/ WriteHealthy \/ WriteReturn
    <3>1. disk.journal.from # 0 /\ disk.journal.to # 0
      BY <1>0, <2>1 DEF WriteTrial, WriteSelect, WritePrevious, WriteLast, WriteBridge,
         WriteHealthy, WriteReturn, Write, Doing, Records, AtOneOf, Word, Activating, Confirming,
         Returning, Pending
    <3> QED
      BY <1>0, <1>2, <2>1, <3>1 DEF WriteTrial, WriteSelect, WritePrevious, WriteLast, WriteBridge,
         WriteHealthy, WriteReturn, Write, Confirming, Disk
  <2>2. CASE WriteQuarantine \/ WriteKeep \/ WriteRebridge \/ WriteForget \/ RemoveTrial
             \/ RemoveFailed
    BY <1>0, <1>2, <2>2 DEF WriteQuarantine, WriteKeep, WriteRebridge, WriteForget, RemoveTrial,
       RemoveFailed, Write, Disk
  <2>3. CASE RemoveJournal \/ RemoveRequest
    BY <1>0, <1>2, <2>3 DEF RemoveJournal, RemoveRequest, Write, Disk
  <2>4. CASE PutAside \/ CopySnapshot \/ MarkRestored
    BY <1>0, <1>2, <2>4 DEF PutAside, CopySnapshot, MarkRestored, Restoring
  <2> QED
    BY <1>1, <1>3, <1>6, <2>1, <2>2, <2>3, <2>4 DEF Store
<1>7. CASE Entry
  <2>1. CASE Restart \/ Launch
    <3>1. todo' = <<>>
      <4>1. Planned(todo, Words) /\ todo # <<>> /\ todo' = Tail(todo)
            /\ Head(todo) \in {"restart", "launch"}
        BY <1>0, <2>1 DEF Restart, Launch, Doing, Plans
      <4>2. After("restart") = {} /\ After("launch") = {}
        BY DEF After
      <4> QED
        BY <4>1, <4>2, TailPlanned
    <3>2. disk.journal.manual => host'.at \in {"none", "stopping"} /\ launcher'.at = "none"
      <4>1. CASE Restart
        BY <1>0, <4>1 DEF Restart, NoHost, Records
      <4>2. CASE Launch
        BY <1>0, <4>2 DEF Launch, Doing, Records, AtOneOf
      <4> QED
        BY <2>1, <4>1, <4>2
    <3> QED
      BY <1>4, <2>1, <3>1, <3>2 DEF Restart, Launch
  <2>2. ASSUME NEW writes, Resume(writes), Pending,
               \/ writes = Confirm /\ ~disk.journal.manual
               \/ writes \in {Rollback, RestoreAndRollback(disk.journal)}
        PROVE  Records'
    <3>1. /\ UNCHANGED <<disk, host, launcher, used>> /\ todo' = writes \o <<"launch">>
      BY <2>2 DEF Resume
    <3>2. /\ Head(Confirm \o <<"launch">>) = "previous"
          /\ Head(Rollback \o <<"launch">>) = "quarantine"
          /\ Head(RestoreAndRollback(disk.journal) \o <<"launch">>) \in {"aside", "quarantine"}
      BY DEF Confirm, RestoreAndRollback, Restore, Rollback
    <3>3. \/ Head(todo') = "previous" /\ ~disk.journal.manual
          \/ Head(todo') \in {"aside", "quarantine"}
      BY <2>2, <3>1, <3>2
    <3> QED
      BY <1>0, <2>2, <3>1, <3>3 DEF Records, At, AtOneOf, Pending, Activating, Confirming
  <2>3. CASE ResumeRollback \/ ResumeConfirmation \/ RollBackFailure \/ ConsentToRestore
    BY <2>2, <2>3 DEF ResumeRollback, ResumeConfirmation, RollBackFailure, ConsentToRestore, Failure
  <2>4. CASE NothingToResume
    <3>1. ~disk.journal.manual
      BY <1>0, <2>4 DEF NothingToResume, Records, Pending, NoJournal
    <3> QED
      BY <1>5, <2>4, <3>1 DEF NothingToResume
  <2> QED
    BY <1>7, <2>1, <2>3, <2>4 DEF Entry
<1>8. CASE Launcher
  <2>1. launcher.at # "none" /\ ~disk.journal.manual
    BY <1>0, <1>8 DEF Launcher, LaunchPlainly, RefuseSecondTrial, BeginTrial, SpawnTrial,
       SeeHealthy,
       GiveUp, KillTarget, Recover, Records
  <2>2. CASE LaunchPlainly \/ SpawnTrial
    <3>1. todo = <<>>
      BY <1>0, <2>2, IdleHasNothing DEF LaunchPlainly, SpawnTrial, Words, Actors
    <3> QED
      BY <1>0, <1>5, <2>1, <2>2, <3>1 DEF LaunchPlainly, SpawnTrial, Types
  <2>3. CASE RefuseSecondTrial \/ SeeHealthy \/ GiveUp
    BY <1>5, <2>1, <2>3 DEF RefuseSecondTrial, SeeHealthy, GiveUp
  <2>4. CASE KillTarget
    BY <1>4, <2>1, <2>4 DEF KillTarget
  <2>5. CASE BeginTrial \/ Recover
    <3>1. todo = <<>> /\ todo' = <<>> /\ disk'.journal = disk.journal /\ disk'.last = disk.last
          /\ disk'.active = disk.active /\ disk'.previous = disk.previous /\ used' = used
      BY <1>0, <2>5, IdleHasNothing DEF BeginTrial, Recover, Words, Actors, Disk
    <3> QED
      BY <1>0, <2>1, <3>1 DEF Records, At, AtOneOf, Pending
  <2> QED
    BY <1>8, <2>2, <2>3, <2>4, <2>5 DEF Launcher
<1>9. CASE Application
  <2>1. host.at \in {"boot", "opening", "running"} /\ ~disk.journal.manual
    BY <1>0, <1>9 DEF Application, MarkOpened, OpenData, BecomeReady, Free, Records
  <2>2. CASE MarkOpened
    <3>1. todo = <<>> /\ todo' = <<>> /\ disk'.journal = disk.journal /\ disk'.last = disk.last
          /\ disk'.active = disk.active /\ disk'.previous = disk.previous /\ used' = used
      BY <1>0, <2>2, IdleHasNothing DEF MarkOpened, Words, Actors, Disk
    <3> QED
      BY <1>0, <2>1, <3>1 DEF Records, At, AtOneOf, Pending
  <2>3. CASE OpenData
    <3>1. todo = <<>>
      BY <1>0, <2>3, IdleHasNothing DEF OpenData, Words, Actors
    <3> QED
      BY <1>5, <2>1, <2>3, <3>1 DEF OpenData
  <2>4. CASE BecomeReady
    <3>1. Head(todo') = "previous" /\ Pending /\ UNCHANGED <<disk, host, launcher, used>>
      BY <2>4 DEF BecomeReady, Confirm
    <3> QED
      BY <1>0, <2>1, <3>1 DEF Records, At, AtOneOf, Pending, Activating, Confirming
  <2> QED
    BY <1>9, <2>2, <2>3, <2>4 DEF Application
<1>10. CASE User
  <2>1. CASE StartUp
    <3>1. todo = <<>>
      BY <1>0, <2>1, IdleHasNothing DEF StartUp, Words, Actors
    <3>2. disk.journal.manual => disk.active # 0
      BY <1>0 DEF Records, Pending, NoJournal
    <3> QED
      BY <1>0, <1>5, <2>1, <3>1, <3>2 DEF StartUp, Records
  <2>2. CASE AddData \/ QuitInstead
    BY <1>0, <1>5, <2>2 DEF AddData, QuitInstead, Records, Types
  <2>3. CASE Install
    <3>1. ~disk.journal.manual
      BY <1>0, <2>3 DEF Install, Free, Records
    <3>2. Head(todo') = "restart" \/ (Head(todo') = "journal" /\ ~Pending)
      BY <2>3 DEF Install, Activate
    <3>3. UNCHANGED <<disk, used, launcher>> /\ used.activations < MaxActivations
          /\ host'.prepared = host.prepared /\ host.prepared # 0 /\ host.at = "running"
      BY <1>0, <2>3 DEF Install, Free, Types
    <3>4. host.prepared # disk.active
      BY <1>0, <3>3 DEF Actors
    <3> QED
      BY <1>0, <3>1, <3>2, <3>3, <3>4 DEF Records, At, AtOneOf, Pending
  <2>4. CASE RequestRollback
    <3>1. ~disk.journal.manual
      BY <1>0, <2>4 DEF RequestRollback, Free, Records
    <3>2. Head(todo') = "restart" \/ (Head(todo') = "request" /\ ~Pending)
      BY <2>4 DEF RequestRollback
    <3>3. UNCHANGED <<disk, used, launcher>>
      BY <2>4 DEF RequestRollback
    <3> QED
      BY <1>0, <3>1, <3>2, <3>3 DEF Records, At, AtOneOf, Pending, Activating, Confirming
  <2>5. ASSUME NEW v \in Release, Prepare(v) PROVE Records'
    <3>1. todo = <<>> /\ todo' = <<>> /\ used' = used /\ launcher' = launcher
          /\ host.at = "running" /\ host.id # 0
      BY <1>0, <2>5 DEF Prepare, Free, Actors
    <3>2. /\ disk'.journal = disk.journal /\ disk'.last = disk.last
          /\ disk'.previous = disk.previous
          /\ disk'.active = IF disk.active = 0 THEN host.id ELSE disk.active
      BY <1>0, <2>5 DEF Prepare, Registered, Pruned, Disk
    <3>3. ~disk.journal.manual
      BY <1>0, <3>1 DEF Records
    <3> QED
      BY <1>0, <3>1, <3>2, <3>3 DEF Records, At, AtOneOf, Pending
  <2> QED
    BY <1>10, <2>1, <2>2, <2>3, <2>4, <2>5 DEF User
<1>11. CASE Failures
  <2>1. CASE Exit \/ PowerLoss
    BY <1>0, <1>11, <2>1 DEF Exit, PowerLoss, NoHost, Idle, Records, At, AtOneOf, Pending, Types
  <2>2. CASE SpawnFails
    BY <1>0, <1>5, <2>2 DEF SpawnFails, Records
  <2> QED
    BY <1>11, <2>1, <2>2 DEF Failures
<1>12. CASE UNCHANGED vars
  BY <1>0, <1>5, <1>12 DEF vars, Records
<1> QED
  BY <1>6, <1>7, <1>8, <1>9, <1>10, <1>11, <1>12 DEF Next

LEMMA BaseStep == Base /\ [Next]_vars => Base'
BY TypesStep, PlansStep, ActorsStep, RecordsStep DEF Base

LEMMA BaseHolds == Spec => []Base
BY BaseInit, BaseStep, PTL DEF Spec

\* Every variable keeps its kind.
THEOREM TypesHold == Spec => []TypeOK
<1>1. Base => TypeOK
  BY DEF Base, Types, DataType, Disk, TypeOK
<1> QED
  BY <1>1, BaseHolds, PTL

(***************************************************************************)
(* A restore under way.  From the moment the data of a token is put aside  *)
(* until its copy is marked, nothing runs that could open the data: the    *)
(* journal of that very token makes the entry go on with the restore.      *)
(***************************************************************************)
\* Why the entry will restore: the user asked for it, or the trial failed after
\* its release had opened the data.
Judgement ==
  \/ disk.journal.manual
  \/ /\ disk.attempted = disk.journal.token /\ disk.failed = disk.journal.token
     /\ disk.healthy # disk.journal.token /\ disk.opened = disk.journal.token

Half(t) == data.aside[t].there /\ t \notin data.restored
NoHalf  == \A t \in Token : ~Half(t)

Restored ==
  /\ AtOneOf(Restorings) => disk.journal.restore /\ Judgement
  /\ \A t \in Token : Half(t) =>
       /\ t = disk.journal.token /\ disk.journal.restore /\ Judgement
       /\ launcher.at = "none" /\ host.at \in {"none", "stopping"}
       /\ todo # <<>> => AtOneOf(Restorings)

LEMMA RestoredInit == Init => Restored
BY DEF Init, Restored, AtOneOf, Half, Nothing

\* The first write of what the entry resumes.
LEMMA FirstWrites ==
  ASSUME NEW j, NEW end \in {"restart", "launch"}
  PROVE  /\ Head(Confirm \o <<end>>) = "previous"
         /\ Head(Rollback \o <<end>>) = "quarantine"
         /\ Head(RestoreAndRollback(j) \o <<end>>) = IF j.restore THEN "aside" ELSE "quarantine"
BY DEF Confirm, RestoreAndRollback, Restore, Rollback

LEMMA RestoredStep == Base /\ Restored /\ [Next]_vars => Restored'
<1> SUFFICES ASSUME Base, Restored, [Next]_vars PROVE Restored'
  OBVIOUS
<1>0. Plans /\ Actors /\ Records /\ Types /\ disk \in Disk /\ DataType
  BY DEF Base, Types
<1>1. CASE NoHalf /\ data'.aside = data.aside /\ data'.restored = data.restored
           /\ ~AtOneOf(Restorings)'
  BY <1>1 DEF NoHalf, Half, Restored
<1>2. host.at \in {"boot", "opening", "running"} \/ launcher.at # "none" \/ ~Pending => NoHalf
  BY <1>0 DEF Restored, NoHalf, Pending, Token
<1>3. host.at \in {"boot", "opening", "running"} \/ launcher.at # "none" => ~AtOneOf(Restorings)
  BY Who DEF AtOneOf, At
<1>4. ASSUME NEW w, Doing(w), w \notin Restorings
      PROVE  NoHalf
  BY <1>4 DEF Restored, NoHalf, Doing, AtOneOf
<1>5. ASSUME NEW w, Doing(w), UNCHANGED <<host, shell>>, w \notin {"aside", "copy"}
      PROVE  ~AtOneOf(Restorings)'
  <2>1. w \in Word /\ (todo' # <<>> => Head(todo') \in After(w))
    <3>1. w \in Words /\ (todo' # <<>> => Head(todo') \in After(w))
      BY <1>0, <1>5, WriteGoesOn
    <3> QED
      BY <3>1 DEF Words, Word, EntryWords, HostWords, StopWords
  <2>2. After(w) \cap Restorings = {}
    BY <1>5, <2>1 DEF After, Restorings
  <2> QED
    BY <2>1, <2>2 DEF AtOneOf
<1>6. CASE Store
  <2>1. CASE \/ WriteTrial \/ WriteSelect \/ WritePrevious \/ WriteLast \/ WriteBridge
             \/ WriteHealthy \/ WriteQuarantine \/ WriteKeep \/ WriteReturn \/ WriteRebridge
             \/ WriteForget \/ RemoveTrial \/ RemoveFailed \/ RemoveJournal \/ RemoveRequest
    <3>1. \E w \in Word \ Restorings : Doing(w) /\ UNCHANGED <<host, shell, data>>
      BY <2>1 DEF WriteTrial, WriteSelect, WritePrevious, WriteLast, WriteBridge, WriteHealthy,
         WriteQuarantine, WriteKeep, WriteReturn, WriteRebridge, WriteForget, RemoveTrial,
         RemoveFailed, RemoveJournal, RemoveRequest, Write, Word, Activating, Restorings,
         Confirming, Returning, Closing
    <3> QED
      BY <1>1, <1>4, <1>5, <3>1 DEF Restorings
  <2>2. CASE WriteJournal
    <3>1. Doing("journal") /\ UNCHANGED <<host, shell>>
          /\ data'.aside = data.aside /\ data'.restored = data.restored
      BY <1>0, <2>2 DEF WriteJournal, DataType
    <3> QED
      BY <1>1, <1>4, <1>5, <3>1 DEF Restorings
  <2>3. CASE WriteRequest
    <3>1. At("request") /\ data' = data
      BY <2>3 DEF WriteRequest, At
    <3>2. NoHalf
      BY <3>1 DEF Restored, NoHalf, At, AtOneOf, Restorings
    <3>3. CASE disk.last.token # 0 /\ disk.active = disk.last.to
      <4>1. /\ todo' = RestoreAndRollback(disk.last) \o <<"restart">>
            /\ disk'.journal = [disk.last EXCEPT !.manual = TRUE]
        BY <1>0, <2>3, <3>3 DEF WriteRequest, Disk
      <4>2. disk'.journal.manual /\ disk'.journal.restore = disk.last.restore
        BY <1>0, <4>1 DEF Disk, Journal
      <4>3. Head(todo') = IF disk.last.restore THEN "aside" ELSE "quarantine"
        BY <4>1, FirstWrites
      <4> QED
        BY <3>1, <3>2, <4>2, <4>3 DEF Restored, NoHalf, Half, AtOneOf, Judgement, Restorings
    <3>4. CASE ~(disk.last.token # 0 /\ disk.active = disk.last.to)
      <4>1. todo' \in {<<>> \o <<"restart">>, <<"drop">> \o <<"restart">>}
        BY <2>3, <3>4 DEF WriteRequest
      <4>2. Head(todo') \in {"restart", "drop"}
        BY <4>1
      <4> QED
        BY <1>1, <3>1, <3>2, <4>2 DEF AtOneOf, Restorings
    <3> QED
      BY <3>3, <3>4
  <2>4. CASE PutAside
    <3>1. /\ At("aside") /\ Doing("aside") /\ UNCHANGED <<disk, host, launcher, shell>>
          /\ data' = Aside(disk.journal.token) /\ disk.journal.token \in Token
      BY <1>0, <2>4 DEF PutAside, Restoring, Doing, At, Disk
    <3>2. disk.journal.restore /\ Judgement /\ launcher.at = "none"
          /\ host.at \in {"none", "stopping"}
      BY <3>1, Who DEF Restored, At, AtOneOf, Restorings
    <3>3. todo' # <<>> => Head(todo') = "copy"
      BY <1>0, <3>1, WriteGoesOn DEF After
    <3>4. \A t \in Token : Half(t)' => t = disk.journal.token
      BY <1>0, <3>1 DEF Aside, Half, Restored, DataType
    <3> QED
      BY <3>1, <3>2, <3>3, <3>4 DEF Restored, Judgement, AtOneOf, Restorings
  <2>5. CASE CopySnapshot
    <3>1. /\ At("copy") /\ Doing("copy") /\ UNCHANGED <<disk, host, launcher, shell>>
          /\ data'.aside = data.aside /\ data'.restored = data.restored
      BY <1>0, <2>5 DEF CopySnapshot, Restoring, Copied, Doing, At, DataType
    <3>2. todo' # <<>> => Head(todo') = "mark"
      BY <1>0, <3>1, WriteGoesOn DEF After
    <3> QED
      BY <3>1, <3>2 DEF Restored, Judgement, Half, At, AtOneOf, Restorings
  <2>6. CASE MarkRestored
    <3>1. /\ At("mark") /\ Doing("mark") /\ UNCHANGED <<host, shell>>
          /\ data'.aside = data.aside
          /\ data'.restored = data.restored \cup {disk.journal.token}
      BY <1>0, <2>6 DEF MarkRestored, Restoring, Doing, At, DataType
    <3>2. \A t \in Token : ~Half(t)'
      BY <3>1 DEF Half, Restored
    <3> QED
      BY <1>5, <3>1, <3>2 DEF Restored
  <2> QED
    BY <1>6, <2>1, <2>2, <2>3, <2>4, <2>5, <2>6 DEF Store
<1>7. CASE Entry
  <2>1. CASE Restart \/ Launch
    <3>1. /\ Planned(todo, Words) /\ todo # <<>> /\ todo' = Tail(todo)
          /\ Head(todo) \in {"restart", "launch"} /\ data' = data
      BY <1>0, <2>1 DEF Restart, Launch, Doing, Plans
    <3>2. After("restart") = {} /\ After("launch") = {}
      BY DEF After
    <3>3. todo' = <<>> /\ NoHalf
      BY <3>1, <3>2, TailPlanned DEF Restored, NoHalf, AtOneOf, Restorings
    <3> QED
      BY <1>1, <3>1, <3>3 DEF AtOneOf
  <2>2. CASE ResumeRollback \/ ConsentToRestore
    <3>1. /\ todo' = RestoreAndRollback(disk.journal) \o <<"launch">>
          /\ UNCHANGED <<disk, data, host, launcher>>
      BY <2>2 DEF ResumeRollback, ConsentToRestore, Resume
    <3>2. Judgement
      BY <2>2 DEF ResumeRollback, ConsentToRestore, Failure, MustRestore, Judged, Judgement
    <3>3. Head(todo') = IF disk.journal.restore THEN "aside" ELSE "quarantine"
      BY <3>1, FirstWrites
    <3> QED
      BY <3>1, <3>2, <3>3 DEF Restored, Judgement, Half, AtOneOf, Restorings
  <2>3. CASE ResumeConfirmation \/ RollBackFailure
    <3>1. /\ todo' \in {Confirm \o <<"launch">>, Rollback \o <<"launch">>}
          /\ data' = data
      BY <2>3 DEF ResumeConfirmation, RollBackFailure, Resume
    <3>2. Head(todo') \in {"previous", "quarantine"}
      BY <3>1, FirstWrites
    <3>3. NoHalf
      BY <2>3 DEF ResumeConfirmation, RollBackFailure, Failure, MustRestore, Judged, Judgement,
         Restored, NoHalf
    <3> QED
      BY <1>1, <3>1, <3>2, <3>3 DEF AtOneOf, Restorings
  <2>4. CASE NothingToResume
    <3>1. NoHalf
      <4>1. Pending => ~Judgement
        BY <2>4 DEF NothingToResume, Judged, Judgement
      <4> QED
        BY <1>2, <4>1 DEF Restored, NoHalf
    <3>2. UNCHANGED <<data, todo>> /\ todo = <<>>
      BY <1>0, <2>4, IdleHasNothing DEF NothingToResume, Words, Actors
    <3> QED
      BY <1>1, <3>1, <3>2 DEF AtOneOf
  <2> QED
    BY <1>7, <2>1, <2>2, <2>3, <2>4 DEF Entry
<1>8. CASE Launcher \/ SpawnFails
  <2>1. launcher.at # "none" /\ data' = data /\ (todo' = todo \/ todo' = <<>>)
    BY <1>8 DEF Launcher, LaunchPlainly, RefuseSecondTrial, BeginTrial, SpawnTrial, SeeHealthy,
       GiveUp, KillTarget, Recover, SpawnFails
  <2> QED
    BY <1>1, <1>2, <1>3, <2>1 DEF AtOneOf
<1>9. CASE Application \/ Exit \/ AddData \/ Install \/ RequestRollback
           \/ \E v \in Release : Prepare(v)
  <2>1. host.at \in {"boot", "opening", "running"}
    BY <1>9 DEF Application, MarkOpened, OpenData, BecomeReady, Exit, AddData, Install,
       RequestRollback, Prepare, Free
  <2>2. data'.aside = data.aside /\ data'.restored = data.restored
    BY <1>0, <1>9 DEF Application, MarkOpened, OpenData, BecomeReady, Exit, AddData, Install,
       RequestRollback, Prepare, DataType
  <2>3. \/ todo' \in {todo, <<>>, Confirm, Activate, <<"restart">>, <<"request">>}
    BY <1>9 DEF Application, MarkOpened, OpenData, BecomeReady, Exit, AddData, Install,
       RequestRollback, Prepare, Free
  <2>4. ~AtOneOf(Restorings)'
    BY <1>3, <2>1, <2>3 DEF AtOneOf, Restorings, Confirm, Activate
  <2> QED
    BY <1>1, <1>2, <2>1, <2>2, <2>4
<1>10. CASE StartUp
  <2>1. CASE disk.active = 0
    <3>1. ~Pending /\ UNCHANGED <<data, todo>> /\ todo = <<>>
      BY <1>0, <1>10, <2>1, IdleHasNothing DEF StartUp, Records, Words, Actors
    <3> QED
      BY <1>1, <1>2, <3>1 DEF AtOneOf
  <2>2. CASE disk.active # 0
    <3>1. UNCHANGED <<disk, data, host, launcher, todo>>
      BY <1>10, <2>2 DEF StartUp
    <3> QED
      BY <3>1 DEF Restored, Judgement, Half, AtOneOf
  <2> QED
    BY <2>1, <2>2
<1>11. CASE QuitInstead \/ UNCHANGED vars
  <2>1. UNCHANGED <<disk, data, host, launcher, todo>>
    BY <1>11 DEF QuitInstead, vars
  <2> QED
    BY <2>1 DEF Restored, Judgement, Half, AtOneOf
<1>12. CASE PowerLoss
  BY <1>12 DEF PowerLoss, NoHost, Idle, Restored, Judgement, Half, AtOneOf
<1> QED
  BY <1>6, <1>7, <1>8, <1>9, <1>10, <1>11, <1>12 DEF Next, User, Failures

(***************************************************************************)
(* What was put aside keeps what a half restore has taken from the data.   *)
(***************************************************************************)
Away == UNION {data.aside[t].writes : t \in Token}

Kept ==
  /\ \A t \in Token : /\ ~data.aside[t].there => data.aside[t].writes = {}
                      /\ ~data.snap[t].there => data.snap[t].writes = {}
                      /\ data.snap[t].writes \subseteq 1..used.writes
  /\ data.live.writes \subseteq 1..used.writes
  /\ ~data.live.there => data.live.writes = {}
  /\ host.at = "running" => data.live.there
  /\ ~NoHalf => data.live.writes \subseteq Away
  /\ At("copy") /\ disk.journal.token \notin data.restored => data.live.writes \subseteq Away
  /\ 1..used.writes \subseteq data.live.writes \cup Away

LEMMA KeptInit == Init => Kept
BY DEF Init, Kept, Nothing, NoHalf, Half, At, Away

\* Only putting the data aside is followed by the copy.
LEMMA CopyFollowsAside ==
  ASSUME Base, [Next]_vars, At("copy")'
  PROVE  PutAside \/ (At("copy") /\ disk'.journal = disk.journal /\ data' = data)
<1>0. Plans /\ Actors /\ Types /\ disk \in Disk /\ todo' # <<>> /\ Head(todo') = "copy"
  BY DEF Base, Types, At
<1>1. ASSUME NEW w, Doing(w), UNCHANGED <<host, shell>> PROVE w = "aside"
  <2>1. w \in Word /\ "copy" \in After(w)
    <3>1. w \in Words /\ Head(todo') \in After(w)
      BY <1>0, <1>1, WriteGoesOn
    <3> QED
      BY <1>0, <3>1 DEF Words, Word, EntryWords, HostWords, StopWords
  <2> QED
    BY <2>1 DEF After
<1>2. CASE Store
  <2>1. CASE WriteRequest
    <3>1. todo' \in {RestoreAndRollback(disk.last) \o <<"restart">>, <<>> \o <<"restart">>,
                     <<"drop">> \o <<"restart">>}
      BY <2>1 DEF WriteRequest
    <3>2. Head(<<>> \o <<"restart">>) = "restart" /\ Head(<<"drop">> \o <<"restart">>) = "drop"
      OBVIOUS
    <3> QED
      BY <1>0, <3>1, <3>2, FirstWrites
  <2> QED
    BY <1>1, <1>2, <2>1
    DEF Store, WriteJournal, WriteTrial, WriteSelect, WritePrevious, WriteLast, WriteBridge,
        WriteHealthy, WriteQuarantine, WriteKeep, WriteReturn, WriteRebridge, WriteForget,
        RemoveTrial, RemoveFailed, RemoveJournal, RemoveRequest, Write, PutAside, CopySnapshot,
        MarkRestored, Restoring
<1>3. CASE Entry
  <2>1. CASE Restart \/ Launch
    <3>1. /\ Planned(todo, Words) /\ todo # <<>> /\ todo' = Tail(todo)
          /\ Head(todo) \in {"restart", "launch"}
      BY <1>0, <2>1 DEF Restart, Launch, Doing, Plans
    <3>2. After("restart") = {} /\ After("launch") = {}
      BY DEF After
    <3> QED
      BY <1>0, <3>1, <3>2, TailPlanned
  <2>2. ASSUME NEW writes \in {Confirm, Rollback, RestoreAndRollback(disk.journal)},
               Resume(writes)
        PROVE  FALSE
    BY <1>0, <2>2, FirstWrites DEF Resume
  <2>3. CASE NothingToResume
    BY <2>3, <1>0 DEF NothingToResume, At
  <2> QED
    BY <1>3, <2>1, <2>2, <2>3 DEF Entry, ResumeRollback, ResumeConfirmation, RollBackFailure,
       ConsentToRestore
<1>4. CASE Launcher \/ Failures
  BY <1>0, <1>4 DEF Launcher, LaunchPlainly, RefuseSecondTrial, BeginTrial, SpawnTrial, SeeHealthy,
     GiveUp, KillTarget, Recover, Failures, Exit, SpawnFails, PowerLoss, At, Disk
<1>5. CASE User
  <2>1. CASE Install \/ RequestRollback
    BY <1>0, <2>1 DEF Install, RequestRollback, Activate
  <2>2. CASE AddData
    BY <1>0, <2>2 DEF AddData, Free
  <2>3. ASSUME NEW v \in Release, Prepare(v) PROVE FALSE
    BY <1>0, <2>3 DEF Prepare, Free
  <2>4. CASE StartUp \/ QuitInstead
    BY <1>0, <2>4 DEF StartUp, QuitInstead, At
  <2> QED
    BY <1>5, <2>1, <2>2, <2>3, <2>4 DEF User
<1>6. CASE Application
  <2>1. CASE MarkOpened \/ OpenData
    <3>1. todo = <<>> /\ todo' = todo
      BY <1>0, <2>1, IdleHasNothing DEF MarkOpened, OpenData, Words, Actors
    <3> QED
      BY <1>0, <3>1
  <2>2. CASE BecomeReady
    BY <1>0, <2>2 DEF BecomeReady, Confirm
  <2> QED
    BY <1>6, <2>1, <2>2 DEF Application
<1>7. CASE UNCHANGED vars
  BY <1>7 DEF vars, At
<1> QED
  BY <1>2, <1>3, <1>4, <1>5, <1>6, <1>7 DEF Next

LEMMA KeptStep == Base /\ Restored /\ Restored' /\ Kept /\ [Next]_vars => Kept'
<1> SUFFICES ASSUME Base, Restored, Restored', Kept, [Next]_vars PROVE Kept'
  OBVIOUS
<1>0. Plans /\ Actors /\ Types /\ DataType /\ disk \in Disk /\ used.writes \in Nat
  BY DEF Base, Types
<1>1. CASE data' = data /\ used'.writes = used.writes
  <2>1. At("copy")' => (At("copy") /\ disk'.journal = disk.journal) \/ PutAside
    BY CopyFollowsAside
  <2>2. CASE PutAside
    <3>1. /\ Aside(disk.journal.token) = data /\ disk.journal.token \in Token
          /\ disk' = disk /\ host' = host
      BY <1>0, <1>1, <2>2 DEF PutAside, Restoring, Disk
    <3>2. \/ disk.journal.token \in data.restored \/ ~data.live.there
          \/ data.aside[disk.journal.token].there
      <4> SUFFICES ASSUME ~(\/ disk.journal.token \in data.restored \/ ~data.live.there
                            \/ data.aside[disk.journal.token].there)
                   PROVE  FALSE
        OBVIOUS
      <4>1. data = [data EXCEPT !.aside[disk.journal.token] = data.live, !.live = Nothing]
        BY <3>1 DEF Aside
      <4>2. data.live = Nothing
        BY <1>0, <4>1 DEF DataType
      <4> QED
        BY <4>2 DEF Nothing
    <3>3. disk.journal.token \notin data.restored => data.live.writes \subseteq Away
      BY <3>1, <3>2 DEF Kept, NoHalf, Half
    <3> QED
      BY <1>1, <3>1, <3>3 DEF Kept, NoHalf, Half, Away
  <2>3. CASE ~PutAside
    <3>1. host'.at = "running" => data.live.there
      <4>1. host'.at = "running" => host.at = "running" \/ OpenData
        <5>1. Store => host' = host
          BY DEF Store, WriteJournal, WriteTrial, WriteSelect, WritePrevious, WriteLast,
             WriteBridge,
             WriteHealthy, WriteQuarantine, WriteKeep, WriteReturn, WriteRebridge, WriteForget,
             RemoveTrial, RemoveFailed, RemoveJournal, RemoveRequest, WriteRequest, Write,
             PutAside, CopySnapshot, MarkRestored, Restoring
        <5>2. Entry => host' \in {host, NoHost}
          BY DEF Entry, ResumeRollback, ResumeConfirmation, RollBackFailure,
             ConsentToRestore, Resume, NothingToResume, Launch, Restart
        <5>3. Launcher => host' \in {host, NoHost, Spawned}
          BY DEF Launcher, LaunchPlainly, RefuseSecondTrial, BeginTrial, SpawnTrial,
             SeeHealthy, GiveUp, KillTarget, Recover
        <5>4. Application => OpenData \/ host' \in {host, [host EXCEPT !.at = "opening"]}
          BY DEF Application, MarkOpened, BecomeReady
        <5>5. User => \/ host.at = "running" \/ host' = host
                      \/ host' = [NoHost EXCEPT !.id = 1, !.at = "opening"]
          BY DEF User, StartUp, AddData, Install, RequestRollback, QuitInstead, Prepare, Free
        <5>6. Failures => host' \in {host, NoHost}
          BY DEF Failures, Exit, SpawnFails, PowerLoss
        <5>7. /\ NoHost.at # "running" /\ Spawned.at # "running"
              /\ [host EXCEPT !.at = "opening"].at # "running"
              /\ [NoHost EXCEPT !.id = 1, !.at = "opening"].at # "running"
          BY <1>0 DEF NoHost, Spawned, Types
        <5>8. Store \/ Failures \/ Entry \/ Launcher \/ UNCHANGED vars
                => (host'.at = "running" => host.at = "running")
          BY <5>1, <5>2, <5>3, <5>6, <5>7 DEF vars
        <5>9. Application \/ User
                => (host'.at = "running" => host.at = "running" \/ OpenData)
          BY <5>4, <5>5, <5>7
        <5> QED
          BY <5>8, <5>9 DEF Next, vars
      <4>2. OpenData => data'.live.there
        <5>1. data.live \in Content
          BY <1>0 DEF DataType
        <5>2. Migrated(data.live).there
          BY <5>1 DEF Migrated, Content
        <5>3. OpenData => data'.live = Migrated(data.live)
          BY <1>0 DEF OpenData, DataType
        <5> QED
          BY <5>2, <5>3
      <4> QED
        BY <1>1, <4>1, <4>2 DEF Kept
    <3>2. Away' = Away /\ NoHalf' = NoHalf
      BY <1>1 DEF Away, NoHalf, Half
    <3>3. At("copy")' => At("copy") /\ disk'.journal = disk.journal
      BY <2>1, <2>3
    <3> QED
      BY <1>1, <3>1, <3>2, <3>3 DEF Kept
  <2> QED
    BY <2>2, <2>3
<1>2. ~At("copy")' \/ PutAside \/ data' = data
  BY CopyFollowsAside
<1>3. CASE PutAside /\ data' # data
  <2> DEFINE t == disk.journal.token
  <2>1. /\ data' = [data EXCEPT !.aside[t] = data.live, !.live = Nothing] /\ t \in Token
        /\ data.live.there /\ ~data.aside[t].there /\ used' = used /\ host' = host
    BY <1>0, <1>3 DEF PutAside, Restoring, Aside, Disk
  <2>2. /\ data'.live.writes = {} /\ data'.snap = data.snap
        /\ data'.aside = [data.aside EXCEPT ![t] = data.live]
    BY <1>0, <2>1 DEF DataType, Nothing
  <2>3. host.at # "running"
    <3>1. At("aside")
      BY <1>3 DEF PutAside, Restoring, Doing, At
    <3> QED
      BY <3>1, Who DEF Restorings
  <2>4. data.aside[t].writes = {} /\ data'.aside[t] = data.live
    BY <1>0, <2>1, <2>2 DEF Kept, DataType
  <2>5. \A x \in Token : x # t => data'.aside[x] = data.aside[x]
    BY <1>0, <2>2 DEF DataType
  <2>6. data.live.writes \cup Away \subseteq Away'
    BY <2>1, <2>4, <2>5 DEF Away
  <2> QED
    BY <2>1, <2>2, <2>3, <2>4, <2>5, <2>6 DEF Kept
<1>4. CASE CopySnapshot /\ data' # data
  <2> DEFINE t == disk.journal.token
  <2>1. /\ data' = [data EXCEPT !.live = data.snap[t]] /\ t \in Token /\ t \notin data.restored
        /\ used' = used /\ host' = host /\ At("copy")
    BY <1>0, <1>4 DEF CopySnapshot, Restoring, Copied, Disk, Doing, At
  <2>2. /\ data'.live = data.snap[t] /\ data'.snap = data.snap /\ data'.aside = data.aside
    BY <1>0, <2>1 DEF DataType
  <2>3. host.at # "running"
    BY <2>1, Who DEF Restorings
  <2>4. 1..used.writes \subseteq Away /\ Away' = Away
    BY <2>1, <2>2 DEF Kept, Away
  <2> QED
    BY <1>2, <1>4, <2>1, <2>2, <2>3, <2>4 DEF Kept, CopySnapshot, PutAside, Restoring, Doing
<1>5. CASE MarkRestored
  <2>1. /\ data'.live = data.live /\ data'.snap = data.snap /\ data'.aside = data.aside
        /\ data.restored \subseteq data'.restored /\ used' = used /\ host' = host
    BY <1>0, <1>5 DEF MarkRestored, Restoring, DataType
  <2>2. ~At("copy")'
    <3>1. Doing("mark") /\ UNCHANGED <<host, shell>>
      BY <1>5 DEF MarkRestored, Restoring
    <3> QED
      BY <1>0, <3>1, WriteGoesOn DEF After, At
  <2> QED
    BY <2>1, <2>2 DEF Kept, NoHalf, Half, Away
<1>6. CASE WriteJournal
  <2>1. /\ data'.live = data.live /\ data'.aside = data.aside /\ data'.restored = data.restored
        /\ data'.snap = [data.snap EXCEPT ![used.activations + 1] = data.live]
        /\ used'.writes = used.writes /\ host' = host
    BY <1>0, <1>6 DEF WriteJournal, DataType, Types
  <2>2. \A t \in Token : data'.snap[t] \in {data.snap[t], data.live}
    BY <1>0, <2>1 DEF DataType
  <2>3. ~At("copy")'
    <3>1. Doing("journal") /\ UNCHANGED <<host, shell>>
      BY <1>6 DEF WriteJournal
    <3> QED
      BY <1>0, <3>1, WriteGoesOn DEF After, At
  <2> QED
    BY <2>1, <2>2, <2>3 DEF Kept, NoHalf, Half, Away
<1>7. CASE OpenData /\ data' # data
  <2>1. /\ data'.live.writes = data.live.writes /\ data'.live.there
        /\ data'.snap = data.snap /\ data'.aside = data.aside /\ data'.restored = data.restored
        /\ used' = used
    BY <1>0, <1>7 DEF OpenData, Migrated, DataType, Content
  <2> QED
    BY <1>2, <1>7, <2>1 DEF Kept, NoHalf, Half, Away, OpenData, PutAside, Restoring, Doing
<1>8. CASE AddData
  <2>1. /\ data'.live.writes = data.live.writes \cup {used.writes + 1}
        /\ data'.live.there = data.live.there
        /\ data'.snap = data.snap /\ data'.aside = data.aside /\ data'.restored = data.restored
        /\ used'.writes = used.writes + 1 /\ host' = host /\ host.at = "running" /\ todo' = <<>>
    BY <1>0, <1>8 DEF AddData, Free, DataType, Content, Types
  <2>2. NoHalf /\ NoHalf'
    BY <2>1 DEF Restored, NoHalf, Half
  <2>3. 1..(used.writes + 1) = 1..used.writes \cup {used.writes + 1}
    BY <1>0
  <2> QED
    BY <2>1, <2>2, <2>3 DEF Kept, At, Away
<1>9. \/ data' = data /\ used'.writes = used.writes
      \/ PutAside \/ CopySnapshot \/ MarkRestored \/ WriteJournal \/ AddData
      \/ OpenData /\ used' = used
  BY <1>0 DEF Next, vars, Store, WriteTrial, WriteSelect, WritePrevious,
     WriteLast, WriteBridge, WriteHealthy, WriteQuarantine, WriteKeep, WriteReturn,
     WriteRebridge, WriteForget, RemoveTrial, RemoveFailed, RemoveJournal, RemoveRequest,
     WriteRequest, Write, Entry, ResumeRollback, ResumeConfirmation, RollBackFailure,
     ConsentToRestore, Resume, NothingToResume, Launch, Restart, Launcher, LaunchPlainly,
     RefuseSecondTrial, BeginTrial, SpawnTrial, SeeHealthy, GiveUp, KillTarget, Recover,
     Application, MarkOpened, BecomeReady, User, StartUp, Install, RequestRollback, OpenData,
     QuitInstead, Prepare, Failures, Exit, SpawnFails, PowerLoss, Types
<1>10. PutAside \/ CopySnapshot => used' = used
  BY DEF PutAside, CopySnapshot, Restoring
<1> QED
  BY <1>1, <1>3, <1>4, <1>5, <1>6, <1>7, <1>8, <1>9, <1>10

LEMMA RestoredHolds == Spec => [](Base /\ Restored)
<1>1. Init => Base /\ Restored
  BY BaseInit, RestoredInit
<1>2. Base /\ Restored /\ [Next]_vars => (Base /\ Restored)'
  BY BaseStep, RestoredStep
<1> QED
  BY <1>1, <1>2, PTL DEF Spec

\* What the user added is in the live data or was put aside, however often a
\* restore was interrupted (restoreReleaseData).
THEOREM NothingIsEverLost == Spec => []NothingIsLost
<1>1. Init => Kept
  BY KeptInit
<1>2. (Base /\ Restored) /\ (Base /\ Restored)' /\ Kept /\ [Next]_vars => Kept'
  BY KeptStep
<1>3. Kept => NothingIsLost
  BY DEF Kept, NothingIsLost, Away
<1> QED
  BY <1>1, <1>2, <1>3, RestoredHolds, PTL DEF Spec

(***************************************************************************)
(* Trials and rollbacks in every order of writes, exits and stops: a       *)
(* target is tried once, a healthy release is only left at the user's      *)
(* request, and a rollback goes where it was offered to go.                *)
(***************************************************************************)

(***************************************************************************)
(* The kinds of steps, by what they do to the activation.                  *)
(***************************************************************************)
\* One write of a plan.
OneWrite(w) ==
  /\ w \in Word \ {"journal", "request", "restart", "launch"}
  /\ At(w) /\ todo' = Tail(todo) /\ (todo' # <<>> => Head(todo') \in After(w))
  /\ UNCHANGED <<host, launcher, shell, used>>
  /\ disk'.journal = IF w \in {"close", "drop"} THEN NoJournal ELSE disk.journal
  /\ disk'.trial = IF w = "trial" THEN disk.journal.token
                   ELSE IF w = "untrial" THEN 0 ELSE disk.trial
  /\ disk'.attempted = disk.attempted
  /\ disk'.healthy = IF w = "healthy" THEN disk.journal.token ELSE disk.healthy
  /\ disk'.active = IF w = "select" THEN disk.journal.to
                    ELSE IF w = "return" THEN disk.journal.from ELSE disk.active
  /\ disk'.last = IF w = "last" THEN disk.journal ELSE disk.last
  /\ disk'.previous = IF w = "previous" THEN disk.journal.from
                      ELSE IF w = "forget" /\ disk.journal.manual THEN 0 ELSE disk.previous

\* The activation and the trial are left as they are.
Leaves ==
  /\ disk'.journal = disk.journal /\ disk'.trial = disk.trial
  /\ disk'.healthy = disk.healthy /\ disk'.last = disk.last /\ disk'.previous = disk.previous
  /\ disk'.active = disk.active \/ (disk.active = 0 /\ ~Pending)

\* A plan is made: back only at the user's request or after a failed trial.
Begins ==
  /\ todo = <<>> /\ todo' # <<>> /\ disk' = disk /\ used' = used /\ launcher' = launcher
  /\ \/ Head(todo') \in {"journal", "restart"}
     \/ Head(todo') = "previous" /\ Tail(todo') # <<>>
     \/ Head(todo') = "request" /\ disk.previous # 0
     \/ /\ Head(todo') \in {"aside", "quarantine"}
        /\ disk.journal.manual \/ disk.healthy # disk.journal.token

\* No write is done; what is written half is dropped only where it may be.
Rests ==
  /\ todo' = todo \/ (todo' = <<>> /\ (Interruptible \/ AtOneOf({"restart", "launch"})))
  /\ Leaves /\ disk'.attempted = disk.attempted
  /\ used'.activations = used.activations /\ used'.started = used.started
  /\ launcher'.at # "armed" \/ launcher' = launcher

LEMMA StoreKinds ==
  ASSUME Base, Store PROVE WriteJournal \/ WriteRequest \/ \E w \in Word : OneWrite(w)
<1>0. Plans /\ Actors /\ Types /\ disk \in Disk
  BY DEF Base, Types
<1>1. ASSUME NEW w, Doing(w), UNCHANGED <<host, shell>>
      PROVE  /\ At(w) /\ w \in Word /\ todo' = Tail(todo)
             /\ todo' # <<>> => Head(todo') \in After(w)
  <2>1. w \in Words /\ (todo' # <<>> => Head(todo') \in After(w))
    BY <1>0, <1>1, WriteGoesOn
  <2> QED
    BY <1>1, <2>1 DEF Doing, At, Words, Word, EntryWords, HostWords, StopWords
<1>2. CASE WriteTrial \/ WriteSelect \/ WritePrevious \/ WriteLast
  BY <1>0, <1>1, <1>2 DEF WriteTrial, WriteSelect, WritePrevious, WriteLast, Write, OneWrite, Disk
<1>3. CASE WriteBridge \/ WriteHealthy \/ WriteQuarantine \/ WriteKeep
  BY <1>0, <1>1, <1>3 DEF WriteBridge, WriteHealthy, WriteQuarantine, WriteKeep, Write, OneWrite,
     Disk
<1>4. CASE WriteReturn \/ WriteRebridge \/ WriteForget
  BY <1>0, <1>1, <1>4 DEF WriteReturn, WriteRebridge, WriteForget, Write, OneWrite, Disk
<1>5. CASE RemoveTrial \/ RemoveFailed \/ RemoveJournal \/ RemoveRequest
  BY <1>0, <1>1, <1>5 DEF RemoveTrial, RemoveFailed, RemoveJournal, RemoveRequest, Write, OneWrite,
     Disk
<1>6. CASE PutAside \/ CopySnapshot \/ MarkRestored
  BY <1>0, <1>1, <1>6 DEF PutAside, CopySnapshot, MarkRestored, Restoring, OneWrite
<1> QED
  BY <1>2, <1>3, <1>4, <1>5, <1>6 DEF Store

LEMMA EntryKinds == ASSUME Base, Entry PROVE Begins \/ Rests
<1>0. Plans /\ Actors /\ Types /\ disk \in Disk
  BY DEF Base, Types
<1>1. CASE Restart \/ Launch
  <2>1. /\ Planned(todo, Words) /\ todo # <<>> /\ todo' = Tail(todo)
        /\ Head(todo) \in {"restart", "launch"}
    BY <1>0, <1>1 DEF Restart, Launch, Doing, Plans
  <2>2. After("restart") = {} /\ After("launch") = {}
    BY DEF After
  <2>3. todo' = <<>> /\ AtOneOf({"restart", "launch"})
    BY <2>1, <2>2, TailPlanned DEF AtOneOf
  <2>4. disk' = disk /\ used' = used /\ (launcher' = launcher \/ launcher'.at = "decide")
    BY <1>1 DEF Restart, Launch, Idle
  <2> QED
    BY <2>3, <2>4 DEF Rests, Leaves
<1>2. ASSUME NEW writes, Resume(writes), shell = "route",
             writes = Confirm
             \/ /\ writes \in {Rollback, RestoreAndRollback(disk.journal)}
                /\ disk.journal.manual \/ disk.healthy # disk.journal.token
      PROVE  Begins
  <2>1. todo = <<>> /\ UNCHANGED <<disk, used, launcher>> /\ todo' = writes \o <<"launch">>
    BY <1>0, <1>2, IdleHasNothing DEF Resume, Words, Actors
  <2>2. todo' # <<>>
    BY <2>1, <1>2 DEF Confirm, RestoreAndRollback, Restore, Rollback
  <2>3. writes = Confirm => Tail(todo') # <<>>
    BY <2>1 DEF Confirm
  <2> QED
    BY <1>2, <2>1, <2>2, <2>3, FirstWrites DEF Begins
<1>3. CASE ResumeRollback \/ ResumeConfirmation \/ RollBackFailure \/ ConsentToRestore
  BY <1>2, <1>3 DEF ResumeRollback, ResumeConfirmation, RollBackFailure, ConsentToRestore, Failure,
     Judged
<1>4. CASE NothingToResume
  BY <1>4 DEF NothingToResume, Rests, Leaves, Idle
<1> QED
  BY <1>1, <1>3, <1>4 DEF Entry

LEMMA LauncherKinds ==
  ASSUME Base, Launcher
  PROVE  \/ (BeginTrial \/ SpawnTrial \/ Recover) /\ todo = <<>> /\ todo' = todo
         \/ Rests
<1>0. Plans /\ Actors /\ Types /\ disk \in Disk
  BY DEF Base, Types
<1>1. CASE BeginTrial \/ SpawnTrial \/ Recover
  <2>1. todo = <<>>
    BY <1>0, <1>1, IdleHasNothing DEF BeginTrial, SpawnTrial, Recover, Words, Actors
  <2> QED
    BY <1>1, <2>1 DEF BeginTrial, SpawnTrial, Recover
<1>2. CASE LaunchPlainly \/ RefuseSecondTrial \/ SeeHealthy \/ GiveUp \/ KillTarget
  BY <1>0, <1>2 DEF LaunchPlainly, RefuseSecondTrial, SeeHealthy, GiveUp, KillTarget, Idle, Rests,
     Leaves, Types
<1> QED
  BY <1>1, <1>2 DEF Launcher

LEMMA OtherKinds ==
  ASSUME Base, Application \/ User \/ Failures \/ UNCHANGED vars PROVE Begins \/ Rests
<1>0. Plans /\ Actors /\ Types /\ Records /\ disk \in Disk
  BY DEF Base, Types
<1>1. CASE MarkOpened \/ OpenData
  <2>1. todo' = todo /\ launcher' = launcher /\ used' = used
    BY <1>1 DEF MarkOpened, OpenData
  <2>2. Leaves /\ disk'.attempted = disk.attempted
    BY <1>0, <1>1 DEF MarkOpened, OpenData, Leaves, Disk
  <2> QED
    BY <2>1, <2>2 DEF Rests
<1>2. CASE BecomeReady
  BY <1>2 DEF BecomeReady, Free, Confirm, Begins
<1>3. CASE Install
  <2>1. todo = <<>> /\ UNCHANGED <<disk, used, launcher>>
    BY <1>3 DEF Install, Free
  <2>2. todo' # <<>> /\ Head(todo') \in {"restart", "journal"}
    BY <1>3 DEF Install, Activate
  <2> QED
    BY <2>1, <2>2 DEF Begins
<1>4. CASE RequestRollback
  <2>1. todo = <<>> /\ UNCHANGED <<disk, used, launcher>> /\ disk.previous # 0
    BY <1>4 DEF RequestRollback, Free
  <2>2. todo' # <<>> /\ Head(todo') \in {"restart", "request"}
    BY <1>4 DEF RequestRollback
  <2> QED
    BY <2>1, <2>2 DEF Begins
<1>5. CASE AddData \/ QuitInstead \/ StartUp
  BY <1>0, <1>5 DEF AddData, QuitInstead, StartUp, Rests, Leaves, Types
<1>6. ASSUME NEW v \in Release, Prepare(v) PROVE Rests
  <2>1. /\ disk'.journal = disk.journal /\ disk'.last = disk.last /\ disk'.trial = disk.trial
        /\ disk'.previous = disk.previous /\ disk'.healthy = disk.healthy
        /\ disk'.attempted = disk.attempted
        /\ disk'.active = IF disk.active = 0 THEN host.id ELSE disk.active
    BY <1>0, <1>6 DEF Prepare, Registered, Pruned, Disk
  <2>2. todo' = todo /\ launcher' = launcher /\ used' = used
    BY <1>6 DEF Prepare
  <2>3. disk.active = 0 => ~Pending
    BY <1>0 DEF Records
  <2> QED
    BY <2>1, <2>2, <2>3 DEF Rests, Leaves
<1>7. CASE Exit \/ PowerLoss \/ SpawnFails
  BY <1>0, <1>7 DEF Exit, PowerLoss, SpawnFails, Idle, Rests, Leaves, Types
<1>8. CASE UNCHANGED vars
  BY <1>8 DEF vars, Rests, Leaves
<1> QED
  BY <1>1, <1>2, <1>3, <1>4, <1>5, <1>6, <1>7, <1>8 DEF Application, User, Failures

LEMMA Kinds ==
  ASSUME Base, [Next]_vars
  PROVE  \/ WriteJournal \/ WriteRequest
         \/ \E w \in Word : OneWrite(w)
         \/ Begins \/ Rests
         \/ (BeginTrial \/ SpawnTrial \/ Recover) /\ todo = <<>> /\ todo' = todo
BY StoreKinds, EntryKinds, LauncherKinds, OtherKinds DEF Next, vars

(***************************************************************************)
(* The trial.  Only the pending activation is tried; without a trial the   *)
(* active release is the one to go back to, unless the target is healthy;  *)
(* and a target that was started has its attempt on disk.                  *)
(***************************************************************************)
Trials ==
  /\ disk.trial \in {0, disk.journal.token}
  /\ AtOneOf({"unfail", "close", "drop"}) => disk.trial = 0
  /\ At("select") => disk.trial # 0
  /\ disk.journal.manual => disk.trial = 0
  /\ launcher.at = "armed" => launcher.token = disk.trial /\ disk.attempted = disk.trial

Returned ==
  /\ AtOneOf({"rebridge", "forget"}) => disk.active = disk.journal.from
  /\ At("untrial") => disk.active = disk.journal.from \/ disk.healthy = disk.journal.token
  /\ Pending /\ ~disk.journal.manual /\ disk.trial = 0 /\ disk.healthy # disk.journal.token
       => disk.active = disk.journal.from

Tried ==
  /\ \A t \in used.started : t <= used.activations
  /\ Pending /\ ~disk.journal.manual /\ disk.healthy # disk.journal.token
       /\ disk.journal.token \in used.started
     => disk.attempted = disk.journal.token /\ launcher.at # "armed"

Backwards ==
  AtOneOf(Restorings \cup Returning) =>
    disk.journal.manual \/ disk.healthy # disk.journal.token

Course == Trials /\ Returned /\ Tried /\ Backwards

LEMMA CourseInit == Init => Course
BY DEF Init, Course, Trials, Returned, Tried, Backwards, AtOneOf, At, NoJournal, Idle, Pending

\* What the new journal of an activation looks like.
LEMMA JournalWritten ==
  ASSUME Base, WriteJournal
  PROVE  /\ At("journal") /\ ~Pending /\ (todo' # <<>> => Head(todo') = "trial")
         /\ disk'.journal.token = used.activations + 1 /\ ~disk'.journal.manual
         /\ disk'.journal.from = disk.active /\ used.activations \in Nat
         /\ used'.activations = used.activations + 1 /\ used'.started = used.started
         /\ disk'.trial = disk.trial /\ disk'.healthy = disk.healthy /\ disk'.last = disk.last
         /\ disk'.previous = disk.previous /\ disk'.active = disk.active
         /\ launcher' = launcher /\ launcher.at = "none" /\ disk.journal.token = 0
<1>0. Plans /\ Types /\ Records /\ disk \in Disk
  BY DEF Base, Types
<1>1. At("journal") /\ UNCHANGED <<host, launcher, shell>> /\ Doing("journal")
  BY DEF WriteJournal, Doing, At
<1>2. todo' # <<>> => Head(todo') = "trial"
  BY <1>0, <1>1, WriteGoesOn DEF After
<1>3. ~Pending /\ disk.journal.token = 0 /\ launcher.at = "none"
  BY <1>0, <1>1, Who DEF Records, Pending, Activating
<1>4. used.activations \in Nat
  BY <1>0 DEF Types
<1>5. used'.activations = used.activations + 1 /\ used'.started = used.started
  BY <1>0 DEF WriteJournal, Types
<1>6. /\ disk'.journal.token = used.activations + 1 /\ ~disk'.journal.manual
      /\ disk'.journal.from = disk.active
      /\ disk'.trial = disk.trial /\ disk'.healthy = disk.healthy /\ disk'.last = disk.last
      /\ disk'.previous = disk.previous /\ disk'.active = disk.active
  BY <1>0 DEF WriteJournal, Disk
<1> QED
  BY <1>1, <1>2, <1>3, <1>4, <1>5, <1>6

\* What a request to roll back does.
LEMMA RequestWritten ==
  ASSUME Base, WriteRequest
  PROVE  /\ At("request") /\ ~Pending /\ launcher.at = "none" /\ todo' # <<>>
         /\ UNCHANGED <<launcher, used>>
         /\ disk'.trial = disk.trial /\ disk'.healthy = disk.healthy /\ disk'.last = disk.last
         /\ disk'.previous = disk.previous /\ disk'.active = disk.active
         /\ \/ disk' = disk /\ Head(todo') = "restart"
            \/ /\ disk'.journal = [disk.last EXCEPT !.manual = TRUE] /\ disk'.journal.manual
               /\ disk'.journal.from = disk.last.from /\ disk.last.token # 0
               /\ Head(todo') \in {"aside", "quarantine", "drop"}
<1>0. Plans /\ Types /\ Records /\ disk \in Disk
  BY DEF Base, Types
<1>1. At("request") /\ UNCHANGED <<launcher, used>>
  BY DEF WriteRequest, At
<1>2. ~Pending /\ launcher.at = "none"
  BY <1>0, <1>1, Who DEF Records
<1>3. CASE disk.last.token = 0
  <2>1. disk' = disk /\ todo' = <<>> \o <<"restart">>
    BY <1>3 DEF WriteRequest
  <2>2. todo' # <<>> /\ Head(todo') = "restart"
    BY <2>1
  <2> QED
    BY <1>1, <1>2, <2>1, <2>2
<1>4. CASE disk.last.token # 0
  <2>1. /\ disk'.journal = [disk.last EXCEPT !.manual = TRUE]
        /\ disk'.trial = disk.trial /\ disk'.healthy = disk.healthy /\ disk'.last = disk.last
        /\ disk'.previous = disk.previous /\ disk'.active = disk.active
    BY <1>0, <1>4 DEF WriteRequest, Disk
  <2>2. disk'.journal.manual /\ disk'.journal.from = disk.last.from
    BY <1>0, <2>1 DEF Disk, Journal
  <2>3. todo' # <<>> /\ Head(todo') \in {"aside", "quarantine", "drop"}
    <3>1. todo' \in {RestoreAndRollback(disk.last) \o <<"restart">>, <<"drop">> \o <<"restart">>}
      BY <1>4 DEF WriteRequest
    <3>2. /\ RestoreAndRollback(disk.last) \o <<"restart">> # <<>>
          /\ <<"drop">> \o <<"restart">> # <<>> /\ Head(<<"drop">> \o <<"restart">>) = "drop"
      BY DEF RestoreAndRollback, Restore, Rollback
    <3> QED
      BY <3>1, <3>2, FirstWrites
  <2> QED
    BY <1>1, <1>2, <1>4, <2>1, <2>2, <2>3
<1> QED
  BY <1>3, <1>4

\* A write belongs to a pending activation, and nothing is armed meanwhile.
LEMMA WhatWrites ==
  ASSUME Base, NEW w \in Word, OneWrite(w)
  PROVE  /\ Pending /\ disk.journal.token # 0 /\ disk.journal.from # disk.journal.to
         /\ w \in Activating \cup Confirming => ~disk.journal.manual
         /\ launcher.at = "armed" => FALSE
<1>0. Plans /\ Types /\ Records /\ Actors /\ At(w)
  BY DEF Base, OneWrite
<1>1. Pending /\ disk.journal.from # disk.journal.to
  BY <1>0 DEF OneWrite, Records, At, AtOneOf, Pending
<1>2. w \in Activating \cup Confirming => ~disk.journal.manual
  BY <1>0 DEF Records, At, AtOneOf
<1>3. launcher.at # "armed"
  <2>1. w \in Words /\ w \notin {}
    BY <1>0, TailPlanned DEF Plans, At
  <2> QED
    BY <1>0, <2>1 DEF Words, Actors, Types
<1> QED
  BY <1>1, <1>2, <1>3 DEF Pending

LEMMA CourseStep == Base /\ Base' /\ Course /\ [Next]_vars => Course'
<1> SUFFICES ASSUME Base, Base', Course, [Next]_vars PROVE Course'
  OBVIOUS
<1>0. Plans /\ Types /\ Records /\ Actors /\ disk \in Disk
  BY DEF Base, Types
<1>1. CASE WriteJournal
  <2>1. disk.trial = 0 /\ disk.journal.token = 0
    BY JournalWritten, <1>1 DEF Course, Trials
  <2>2. Trials'
    BY <1>1, <2>1, JournalWritten DEF Trials, At, AtOneOf
  <2>3. Returned'
    BY <1>1, <2>1, JournalWritten DEF Returned, At, AtOneOf, Pending
  <2>4. Tried'
    <3>1. \A t \in used.started : t \in Nat /\ t <= used.activations
      BY <1>0 DEF Course, Tried, Types, Token
    <3>2. used.activations + 1 \notin used.started
      BY <3>1, <1>1, JournalWritten
    <3>3. \A t \in used'.started : t <= used'.activations
      BY <3>1, <1>1, JournalWritten
    <3> QED
      BY <1>1, <3>2, <3>3, JournalWritten DEF Tried
  <2>5. Backwards'
    BY <1>1, JournalWritten DEF Backwards, At, AtOneOf, Restorings, Returning
  <2> QED
    BY <2>2, <2>3, <2>4, <2>5 DEF Course
<1>2. CASE WriteRequest
  <2>1. disk.trial = 0 /\ disk'.trial = 0
    BY <1>2, RequestWritten DEF Course, Trials, Pending
  <2>2. CASE disk' = disk /\ Head(todo') = "restart"
    <3>1. UNCHANGED <<launcher, used>> /\ ~Pending /\ ~Pending' /\ launcher.at = "none"
      BY <1>2, <2>2, RequestWritten DEF Pending
    <3> QED
      BY <2>1, <2>2, <3>1 DEF Course, Trials, Returned, Tried, Backwards, At, AtOneOf, Restorings,
         Returning
  <2>3. CASE disk'.journal.manual /\ Head(todo') \in {"aside", "quarantine", "drop"}
    <3>1. UNCHANGED <<launcher, used>> /\ launcher.at = "none"
      BY <1>2, RequestWritten
    <3> QED
      BY <2>1, <2>3, <3>1 DEF Course, Trials, Returned, Tried, Backwards, At, AtOneOf
  <2> QED
    BY <1>2, <2>2, <2>3, RequestWritten
<1>3. ASSUME NEW w \in Word, OneWrite(w) PROVE Course'
  <2>0. /\ Pending /\ disk.journal.token # 0 /\ disk.journal.from # disk.journal.to
        /\ w \in Activating \cup Confirming => ~disk.journal.manual
        /\ launcher.at # "armed" /\ launcher' = launcher /\ used' = used
        /\ At(w) /\ (todo' # <<>> => Head(todo') \in After(w))
    BY <1>3, WhatWrites DEF OneWrite
  <2>1. Trials'
    <3>1. disk'.trial \in {0, disk'.journal.token}
      BY <1>3, <2>0 DEF OneWrite, Course, Trials, At, AtOneOf, NoJournal
    <3>2. AtOneOf({"unfail", "close", "drop"})' => disk'.trial = 0
      <4>1. AtOneOf({"unfail", "close", "drop"})' => w \in {"untrial", "unfail"}
        BY <1>3, <2>0 DEF AtOneOf, After
      <4> QED
        BY <1>3, <2>0, <4>1 DEF OneWrite, Course, Trials, At, AtOneOf
    <3>3. At("select")' => disk'.trial # 0
      <4>1. At("select")' => w = "trial"
        BY <1>3, <2>0 DEF At, After
      <4> QED
        BY <1>3, <2>0, <4>1 DEF OneWrite
    <3>4. disk'.journal.manual => disk'.trial = 0
      BY <1>3, <2>0 DEF OneWrite, Course, Trials, NoJournal, Activating
    <3> QED
      BY <2>0, <3>1, <3>2, <3>3, <3>4 DEF Trials
  <2>2. Returned'
    <3>1. AtOneOf({"rebridge", "forget"})' => disk'.active = disk'.journal.from
      <4>1. AtOneOf({"rebridge", "forget"})' => w \in {"return", "rebridge"}
        BY <1>3, <2>0 DEF AtOneOf, After
      <4> QED
        BY <1>3, <2>0, <4>1 DEF OneWrite, Course, Returned, At, AtOneOf
    <3>2. At("untrial")' => \/ disk'.active = disk'.journal.from
                            \/ disk'.healthy = disk'.journal.token
      <4>1. At("untrial")' => w \in {"forget", "healthy"}
        BY <1>3, <2>0 DEF At, After
      <4> QED
        BY <1>3, <2>0, <4>1 DEF OneWrite, Course, Returned, At, AtOneOf
    <3>3. Pending' /\ ~disk'.journal.manual /\ disk'.trial = 0
            /\ disk'.healthy # disk'.journal.token => disk'.active = disk'.journal.from
      <4>1. CASE w \in {"trial", "close", "drop", "healthy", "return"}
        BY <1>3, <2>0, <4>1 DEF OneWrite, Pending, NoJournal
      <4>2. CASE w = "select"
        BY <1>3, <2>0, <4>2 DEF OneWrite, Course, Trials
      <4>3. CASE w = "untrial"
        BY <1>3, <2>0, <4>3 DEF OneWrite, Course, Returned
      <4>4. CASE w \notin {"trial", "close", "drop", "healthy", "return", "select", "untrial"}
        BY <1>3, <2>0, <4>4 DEF OneWrite, Course, Returned, Pending
      <4> QED
        BY <4>1, <4>2, <4>3, <4>4
    <3> QED
      BY <3>1, <3>2, <3>3 DEF Returned
  <2>3. Tried'
    BY <1>3, <2>0 DEF OneWrite, Course, Tried, Pending, NoJournal
  <2>4. Backwards'
    <3>1. AtOneOf(Restorings \cup Returning)' => w \in Restorings \cup Returning
      BY <1>3, <2>0 DEF AtOneOf, After, Restorings, Returning, Word, Activating, Confirming, Closing
    <3> QED
      BY <1>3, <2>0, <3>1 DEF OneWrite, Course, Backwards, At, AtOneOf, Restorings, Returning
  <2> QED
    BY <2>1, <2>2, <2>3, <2>4 DEF Course
<1>4. CASE Begins
  BY <1>4 DEF Begins, Course, Trials, Returned, Tried, Backwards, At, AtOneOf, Pending, Restorings,
     Returning
<1>5. CASE Rests
  <2>1. Trials'
    BY <1>5 DEF Rests, Leaves, Course, Trials, At, AtOneOf
  <2>2. Returned'
    <3>1. AtOneOf({"rebridge", "forget", "untrial"})' => Pending
      BY <1>0, <1>5 DEF Rests, Records, AtOneOf, Word, Returning, Closing
    <3> QED
      BY <1>5, <3>1 DEF Rests, Leaves, Course, Returned, At, AtOneOf, Pending
  <2>3. Tried'
    BY <1>5 DEF Rests, Leaves, Course, Tried, Pending
  <2>4. Backwards'
    BY <1>5 DEF Rests, Leaves, Course, Backwards, AtOneOf
  <2> QED
    BY <2>1, <2>2, <2>3, <2>4 DEF Course
<1>6. CASE (BeginTrial \/ SpawnTrial \/ Recover) /\ todo = <<>> /\ todo' = todo
  <2>1. Backwards' /\ todo' = <<>>
    BY <1>6 DEF Backwards, AtOneOf
  <2>2. ~disk.journal.manual
    BY <1>0, <1>6 DEF Records, BeginTrial, SpawnTrial, Recover
  <2>3. CASE BeginTrial
    <3>1. /\ Leaves /\ disk'.active = disk.active /\ disk'.attempted = disk.trial /\ used' = used
          /\ launcher' = [at |-> "armed", token |-> disk.trial] /\ disk.trial # 0
          /\ ~Attempted(disk.trial)
      BY <1>0, <2>3 DEF BeginTrial, Leaves, Disk
    <3>2. disk.trial = disk.journal.token
      BY <3>1 DEF Course, Trials
    <3>3. Trials' /\ Returned'
      BY <2>1, <2>2, <3>1, <3>2 DEF Leaves, Course, Trials, Returned, Pending, At, AtOneOf
    <3>4. Tried'
      BY <2>2, <3>1, <3>2 DEF Leaves, Attempted, Course, Tried, Pending
    <3> QED
      BY <2>1, <3>3, <3>4 DEF Course
  <2>4. CASE SpawnTrial
    <3>1. /\ disk' = disk /\ launcher'.at = "watch" /\ launcher.at = "armed"
          /\ used'.activations = used.activations
          /\ used'.started \subseteq used.started \cup {launcher.token}
      BY <1>0, <2>4 DEF SpawnTrial, Types
    <3>2. /\ launcher.token = disk.trial /\ disk.trial # 0 /\ disk.attempted = disk.trial
          /\ disk.trial = disk.journal.token
      BY <1>0, <3>1 DEF Course, Trials, Actors
    <3>3. launcher.token <= used.activations
      BY <1>0, <3>2 DEF Records
    <3>4. Trials' /\ Returned'
      BY <2>1, <3>1 DEF Course, Trials, Returned, Pending, At, AtOneOf
    <3>5. Tried'
      BY <3>1, <3>2, <3>3 DEF Course, Tried, Pending
    <3> QED
      BY <2>1, <3>4, <3>5 DEF Course
  <2>5. CASE Recover
    <3>1. /\ Leaves /\ disk'.active = disk.active /\ disk'.attempted = disk.attempted
          /\ used' = used /\ launcher'.at = "none"
      BY <1>0, <2>5 DEF Recover, Leaves, Disk, Idle
    <3> QED
      BY <2>1, <3>1 DEF Leaves, Course, Trials, Returned, Tried, Pending, At, AtOneOf
  <2> QED
    BY <1>6, <2>3, <2>4, <2>5
<1> QED
  BY <1>1, <1>2, <1>3, <1>4, <1>5, <1>6, Kinds

LEMMA CourseHolds == Spec => [](Base /\ Course)
<1>1. Base /\ Course /\ [Next]_vars => (Base /\ Course)'
  BY BaseStep, CourseStep
<1> QED
  BY <1>1, BaseInit, CourseInit, PTL DEF Spec

\* A release that confirmed its health is only left at the user's request, also
\* when its minute ended while it confirmed (launcher/src/main.rs, release-store.ts).
THEOREM HealthyIsKept == Spec => HealthyStays
<1>1. ASSUME Base, Course, [Next]_vars
      PROVE  disk'.active # disk.active /\ disk'.active = disk.journal.from /\ Pending
               => disk.journal.manual \/ disk.healthy # disk.journal.token
  <2>1. CASE WriteJournal \/ WriteRequest \/ Begins \/ Rests
    BY <1>1, <2>1, JournalWritten, RequestWritten DEF Begins, Rests, Leaves
  <2>2. ASSUME NEW w \in Word, OneWrite(w), disk'.active # disk.active,
               disk'.active = disk.journal.from
        PROVE  disk.journal.manual \/ disk.healthy # disk.journal.token
    <3>1. w = "return"
      BY <1>1, <2>2, WhatWrites DEF OneWrite
    <3> QED
      BY <1>1, <2>2, <3>1 DEF OneWrite, Course, Backwards, At, AtOneOf, Returning
  <2>3. CASE BeginTrial \/ SpawnTrial \/ Recover
    <3>1. disk'.active = disk.active
      BY <1>1, <2>3 DEF BeginTrial, SpawnTrial, Recover, Base, Types, Disk
    <3> QED
      BY <3>1
  <2> QED
    BY <1>1, <2>1, <2>2, <2>3, Kinds
<1>2. Base /\ Course /\ [Next]_vars
        => [disk'.active # disk.active /\ disk'.active = disk.journal.from /\ Pending
              => disk.journal.manual \/ disk.healthy # disk.journal.token]_vars
  BY <1>1
<1> QED
  BY <1>2, CourseHolds, PTL DEF Spec, HealthyStays

\* The target of an activation is started on trial once, whatever stops in
\* between: the attempt is on disk before the start (launcher/src/main.rs).
THEOREM TargetIsTriedOnce == Spec => TriedOnce
<1>1. ASSUME Base, Course, [Next]_vars, host.at = "none", host'.at = "boot",
             disk.journal.to = host'.id, disk.healthy # disk.journal.token
      PROVE  disk.journal.token \notin used.started
  <2>0. Actors /\ Records /\ Types /\ host' # host
    BY <1>1 DEF Base
  <2>1. LaunchPlainly \/ SpawnTrial
    <3>1. Store => host' = host
      BY DEF Store, WriteJournal, WriteTrial, WriteSelect, WritePrevious, WriteLast, WriteBridge,
         WriteHealthy, WriteQuarantine, WriteKeep, WriteReturn, WriteRebridge, WriteForget,
         RemoveTrial, RemoveFailed, RemoveJournal, RemoveRequest, WriteRequest, Write, PutAside,
         CopySnapshot, MarkRestored, Restoring
    <3>2. Entry => host' \in {host, NoHost}
      BY DEF Entry, ResumeRollback, ResumeConfirmation, RollBackFailure, ConsentToRestore, Resume,
         NothingToResume, Launch, Restart
    <3>3. Launcher => LaunchPlainly \/ SpawnTrial \/ host' \in {host, NoHost}
      BY DEF Launcher, RefuseSecondTrial, BeginTrial, SeeHealthy, GiveUp, KillTarget, Recover
    <3>4. Application => host.at # "none"
      BY DEF Application, MarkOpened, OpenData, BecomeReady, Free
    <3>5. User => \/ host.at # "none" \/ host' = host
                  \/ host' = [NoHost EXCEPT !.id = 1, !.at = "opening"]
      BY DEF User, StartUp, AddData, Install, RequestRollback, QuitInstead, Prepare, Free
    <3>6. Failures => host' \in {host, NoHost}
      BY DEF Failures, Exit, SpawnFails, PowerLoss
    <3>7. host' # NoHost /\ host' # [NoHost EXCEPT !.id = 1, !.at = "opening"]
      <4>1. NoHost.at = "none" /\ [NoHost EXCEPT !.id = 1, !.at = "opening"].at = "opening"
        BY DEF NoHost
      <4> QED
        BY <1>1, <4>1
    <3>8. ~Store /\ ~Entry /\ ~Application /\ ~User /\ ~Failures
      BY <1>1, <2>0, <3>1, <3>2, <3>4, <3>5, <3>6, <3>7
    <3>9. Launcher
      BY <1>1, <2>0, <3>8 DEF Next, vars
    <3> QED
      BY <2>0, <3>3, <3>7, <3>9
  <2>2. host'.id = disk.active /\ launcher.at # "none" /\ disk.active # 0 /\ ~disk.journal.manual
    BY <2>0, <2>1 DEF LaunchPlainly, SpawnTrial, Spawned, NoHost, Actors, Records
  <2>3. Pending /\ disk.journal.from # disk.journal.to
    BY <1>1, <2>0, <2>2 DEF Records, Pending, NoJournal
  <2>4. CASE LaunchPlainly
    BY <1>1, <2>2, <2>3, <2>4 DEF LaunchPlainly, Course, Returned
  <2>5. CASE SpawnTrial
    BY <1>1, <2>2, <2>3, <2>5 DEF SpawnTrial, Course, Tried
  <2> QED
    BY <2>1, <2>4, <2>5
<1>2. Base /\ Course /\ [Next]_vars
        => [host.at = "none" /\ host'.at = "boot" /\ disk.journal.to = host'.id
              /\ disk.healthy # disk.journal.token
            => disk.journal.token \notin used.started]_vars
  BY <1>1
<1> QED
  BY <1>2, CourseHolds, PTL DEF Spec, TriedOnce

(***************************************************************************)
(* The release to go back to.  It is the one that the activation to undo   *)
(* came from, but while a confirmation has written the one and not yet the *)
(* other.  Nothing resumes a confirmation that stops there, which the      *)
(* theorem must rule out: see the run release_torn_confirm.                *)
(***************************************************************************)
Offered ==
  /\ disk.healthy <= used.activations
  /\ disk.previous # 0 => \/ disk.previous = disk.last.from
                          \/ At("last") /\ disk.previous = disk.journal.from
  /\ Pending /\ ~disk.journal.manual /\ disk.healthy = disk.journal.token
       => disk.last = disk.journal
  /\ AtOneOf({"bridge", "healthy"}) =>
       disk.last = disk.journal /\ disk.previous = disk.journal.from
  /\ At("last") => disk.previous = disk.journal.from
  /\ At("request") => disk.previous # 0
  /\ At("previous") => Tail(todo) # <<>>

LEMMA OfferedInit == Init => Offered
BY DEF Init, Offered, At, AtOneOf, Pending, NoJournal

LEMMA OfferedStep ==
  ASSUME "confirm" \notin Unresumed, Base, Base', Offered, [Next]_vars PROVE Offered'
<1>0. Plans /\ Types /\ Records /\ Actors /\ disk \in Disk
  BY DEF Base, Types
<1>1. CASE WriteJournal
  <2>1. disk.healthy \in Nat
    BY <1>0 DEF Disk, Token
  <2> QED
    BY <1>1, <2>1, JournalWritten DEF Offered, At, AtOneOf
<1>2. CASE WriteRequest
  BY <1>2, RequestWritten DEF Offered, At, AtOneOf, Pending
<1>3. ASSUME NEW w \in Word, OneWrite(w) PROVE Offered'
  <2>0. /\ Pending /\ w \in Activating \cup Confirming => ~disk.journal.manual
        /\ used' = used /\ At(w) /\ (todo' # <<>> => Head(todo') \in After(w))
    BY <1>3, WhatWrites DEF OneWrite
  <2>1. disk'.healthy <= used'.activations
    <3>1. disk.journal.token <= used.activations
      BY <1>0 DEF Records
    <3> QED
      BY <1>3, <2>0, <3>1 DEF OneWrite, Offered
  <2>2. At("last")' => w = "previous"
    BY <1>3, <2>0 DEF At, After
  <2>3. AtOneOf({"bridge", "healthy"})' => w \in {"last", "bridge"}
    BY <1>3, <2>0 DEF AtOneOf, After
  <2>4. ~At("request")' /\ ~At("previous")'
    BY <1>3, <2>0 DEF At, After
  <2>5. CASE w = "previous"
    <3>1. (todo' # <<>> => Head(todo') = "last")
      BY <2>0, <2>5 DEF After
    <3>2. todo' # <<>>
      BY <1>3, <2>0, <2>5 DEF OneWrite, Offered
    <3> QED
      BY <1>3, <2>0, <2>1, <2>2, <2>3, <2>4, <2>5, <3>1, <3>2
      DEF OneWrite, Offered, At, AtOneOf, Pending
  <2>6. CASE w = "last"
    BY <1>3, <2>0, <2>1, <2>2, <2>3, <2>4, <2>6 DEF OneWrite, Offered, At, AtOneOf, Pending
  <2>7. CASE w \in {"bridge", "healthy"}
    BY <1>3, <2>0, <2>1, <2>2, <2>3, <2>4, <2>7 DEF OneWrite, Offered, At, AtOneOf, Pending
  <2>8. CASE w \notin {"previous", "last", "bridge", "healthy"}
    BY <1>3, <2>0, <2>1, <2>2, <2>3, <2>4, <2>8 DEF OneWrite, Offered, At, Pending, NoJournal
  <2> QED
    BY <2>5, <2>6, <2>7, <2>8
<1>4. CASE Begins
  BY <1>4 DEF Begins, Offered, At, AtOneOf, Pending
<1>5. CASE Rests
  <2>1. CASE todo' = todo
    BY <1>5, <2>1 DEF Rests, Leaves, Offered, At, AtOneOf, Pending
  <2>2. CASE todo' = <<>> /\ todo # <<>>
    <3>1. At("last") => disk.healthy = disk.journal.token
      BY <1>5, <2>2 DEF Rests, Interruptible, Place, At, AtOneOf
    <3>2. At("last") => disk.last = disk.journal
      <4>1. At("last") => Pending /\ ~disk.journal.manual
        BY <1>0 DEF Records, At, AtOneOf, Word, Confirming
      <4> QED
        BY <3>1, <4>1 DEF Offered
    <3> QED
      BY <1>5, <2>2, <3>2 DEF Rests, Leaves, Offered, At, AtOneOf, Pending
  <2> QED
    BY <1>5, <2>1, <2>2 DEF Rests
<1>6. CASE (BeginTrial \/ SpawnTrial \/ Recover) /\ todo = <<>> /\ todo' = todo
  <2>1. Leaves /\ used'.activations = used.activations
    BY <1>0, <1>6 DEF BeginTrial, SpawnTrial, Recover, Leaves, Disk, Types
  <2> QED
    BY <1>6, <2>1 DEF Leaves, Offered, At, AtOneOf, Pending
<1> QED
  BY <1>1, <1>2, <1>3, <1>4, <1>5, <1>6, Kinds

\* Where no confirmation stops between its first two writes, a rollback that the
\* user asked for goes to the release that was offered (release-store.ts).
THEOREM RollbackGoesAsOffered ==
  ASSUME "confirm" \notin Unresumed PROVE Spec => RollbackIsAsOffered
<1>1. Base /\ Base' /\ Offered /\ [Next]_vars => Offered'
  BY OfferedStep
<1>2. Spec => [](Base /\ Offered)
  <2>1. Base /\ Offered /\ [Next]_vars => (Base /\ Offered)'
    BY <1>1, BaseStep
  <2> QED
    BY <2>1, BaseInit, OfferedInit, PTL DEF Spec
<1>3. ASSUME Base, Offered, [Next]_vars, disk'.journal.manual, ~disk.journal.manual,
             Head(todo') # "drop"
      PROVE  disk'.journal.from = disk.previous
  <2>1. WriteRequest
    <3>1. ~WriteJournal /\ ~Begins /\ ~Rests
      BY <1>3, JournalWritten DEF Begins, Rests, Leaves
    <3>2. ASSUME NEW w \in Word, OneWrite(w) PROVE FALSE
      BY <1>3, <3>2 DEF OneWrite, NoJournal
    <3>3. BeginTrial \/ SpawnTrial \/ Recover => disk'.journal = disk.journal
      BY <1>3 DEF BeginTrial, SpawnTrial, Recover, Base, Types, Disk
    <3> QED
      BY <1>3, <3>1, <3>2, <3>3, Kinds
  <2>2. disk'.journal.from = disk.last.from /\ At("request")
    BY <1>3, <2>1, RequestWritten
  <2> QED
    BY <1>3, <2>2 DEF Offered, At
<1>4. Base /\ Offered /\ [Next]_vars
        => [disk'.journal.manual /\ ~disk.journal.manual /\ Head(todo') # "drop"
            => disk'.journal.from = disk.previous]_vars
  BY <1>3
<1> QED
  BY <1>2, <1>4, PTL DEF Spec, RollbackIsAsOffered
=============================================================================

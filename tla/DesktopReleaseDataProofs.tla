----------------------- MODULE DesktopReleaseDataProofs -----------------------
(***************************************************************************)
(* What holds of the data and of the store's files for every number of     *)
(* versions, activations and stops: a release that runs can read the data  *)
(* that it finds, and the cleanup keeps what a rollback still needs.       *)
(***************************************************************************)
EXTENDS DesktopReleaseProofs

\* A later version has the schema of an earlier one or a newer one.
LEMMA SchemaGrows ==
  ASSUME NEW v \in Release, NEW w \in Release, v <= w
  PROVE  Schema(v) <= Schema(w)
<1> DEFINE S == {b \in Breaking : b <= v}  T == {b \in Breaking : b <= w}
<1>1. IsFiniteSet(2..Versions)
  BY ReleaseAssumption, FS_Interval
<1>2. IsFiniteSet(Breaking)
  BY <1>1, ReleaseAssumption, FS_Subset
<1>3. IsFiniteSet(T) /\ S \subseteq T
  <2>1. \A b \in Breaking : b \in Nat
    BY ReleaseAssumption
  <2>2. v \in Nat /\ w \in Nat
    BY ReleaseAssumption DEF Release
  <2>3. \A b \in Breaking : b <= v => b <= w
    BY <2>1, <2>2
  <2> QED
    BY <1>2, <2>3, FS_Subset
<1>4. S \in SUBSET T
  BY <1>3
<1> QED
  BY <1>3, <1>4, FS_Subset DEF Schema

(***************************************************************************)
(* The kinds of steps again, by what they do to the data and the files.    *)
(***************************************************************************)
\* One write of a plan.
Filed(w) ==
  /\ OneWrite(w)
  /\ disk'.bridge = IF w = "bridge" THEN disk.journal.to
                    ELSE IF w = "rebridge" THEN disk.journal.from ELSE disk.bridge
  /\ disk'.slots = disk.slots /\ disk'.snapshots = disk.snapshots
  /\ disk'.opened = disk.opened /\ disk'.failed = (IF w = "unfail" THEN 0 ELSE disk.failed)
  /\ data' = IF w = "aside" THEN Aside(disk.journal.token)
             ELSE IF w = "copy" THEN Copied(disk.journal.token)
             ELSE IF w = "mark"
               THEN [data EXCEPT !.restored = @ \cup {disk.journal.token}]
             ELSE data

\* A plan is made, and why.
Planning ==
  /\ todo = <<>> /\ todo' # <<>> /\ UNCHANGED <<disk, data, used, launcher>>
  /\ host'.prepared = host.prepared
  /\ \/ /\ Head(todo') \in {"journal", "restart", "request"}
        /\ host.at = "running" /\ host'.at = "stopping"
        /\ Head(todo') = "journal" => host.prepared # 0
     \/ /\ Head(todo') = "previous" /\ Pending /\ host' = host
        /\ \/ host.at = "running" /\ disk.active = disk.journal.to
           \/ ~disk.journal.manual /\ disk.healthy = disk.journal.token
     \/ /\ Head(todo') = "aside" /\ Pending /\ host' = host
        /\ disk.journal.restore /\ Judgement
     \/ /\ Head(todo') = "quarantine" /\ Pending /\ host' = host
        /\ \/ ~disk.journal.restore
           \/ ~disk.journal.manual /\ disk.opened # disk.journal.token

\* The data and the files rest.
Still ==
  /\ todo' = todo \/ (todo' = <<>> /\ (Interruptible \/ AtOneOf({"restart", "launch"})))
  /\ Leaves /\ disk'.active = disk.active /\ data' = data
  /\ disk'.bridge = disk.bridge /\ disk'.slots = disk.slots
  /\ disk'.snapshots = disk.snapshots /\ disk'.opened = disk.opened
  /\ used'.activations = used.activations
  /\ \/ host' = host
     \/ /\ host'.prepared = 0 /\ host'.at \in {"none", "boot", "opening"}
        /\ host'.at = "boot" => disk.active # 0
        /\ host'.at = "opening" => disk.active = 0 /\ host'.id = 1
  /\ \/ launcher'.at \in {"none", launcher.at} /\ host'.at \in {"none", host.at}
        /\ disk'.attempted = disk.attempted /\ disk'.failed = disk.failed
     \/ launcher.at # "none" \/ NothingToResume \/ AtOneOf({"launch"}) \/ disk.active = 0

LEMMA StoreFiles ==
  ASSUME Base, Store PROVE WriteJournal \/ WriteRequest \/ \E w \in Word : Filed(w)
<1>0. disk \in Disk
  BY DEF Base, Types
<1>1. ASSUME NEW w \in Word, OneWrite(w) PROVE todo # <<>> /\ Head(todo) = w
  BY <1>1 DEF OneWrite, At
<1>2. CASE \E w \in Word : OneWrite(w)
  <2>1. PICK w \in Word : OneWrite(w)
    BY <1>2
  <2>2. todo # <<>> /\ Head(todo) = w
    BY <2>1, <1>1
  <2>3. CASE WriteTrial \/ WriteSelect \/ WritePrevious \/ WriteLast
    BY <1>0, <2>1, <2>2, <2>3 DEF WriteTrial, WriteSelect, WritePrevious, WriteLast, Write, Doing,
       Filed, Disk
  <2>4. CASE WriteBridge \/ WriteHealthy \/ WriteQuarantine \/ WriteKeep
    BY <1>0, <2>1, <2>2, <2>4 DEF WriteBridge, WriteHealthy, WriteQuarantine, WriteKeep, Write,
       Doing, Filed, Disk
  <2>5. CASE WriteReturn \/ WriteRebridge \/ WriteForget
    BY <1>0, <2>1, <2>2, <2>5 DEF WriteReturn, WriteRebridge, WriteForget, Write, Doing, Filed, Disk
  <2>6. CASE RemoveTrial \/ RemoveFailed \/ RemoveJournal \/ RemoveRequest
    BY <1>0, <2>1, <2>2, <2>6 DEF RemoveTrial, RemoveFailed, RemoveJournal, RemoveRequest, Write,
       Doing, Filed, Disk
  <2>7. CASE PutAside \/ CopySnapshot \/ MarkRestored
    BY <1>0, <2>1, <2>2, <2>7 DEF PutAside, CopySnapshot, MarkRestored, Restoring, Doing, Filed
  <2> QED
    BY <2>1, <2>3, <2>4, <2>5, <2>6, <2>7 DEF Store
<1> QED
  BY <1>2, StoreKinds

LEMMA PlansMade ==
  ASSUME Base,
         \/ ResumeRollback \/ ResumeConfirmation \/ RollBackFailure \/ ConsentToRestore
         \/ BecomeReady \/ Install \/ RequestRollback
  PROVE  Planning
<1>0. Plans /\ Actors /\ Types /\ Records /\ disk \in Disk
  BY DEF Base, Types
<1>1. ASSUME NEW writes, Resume(writes), shell = "route", Pending,
             \/ writes = Confirm /\ ~disk.journal.manual /\ disk.healthy = disk.journal.token
             \/ writes = RestoreAndRollback(disk.journal) /\ Judgement
             \/ /\ writes = Rollback /\ ~disk.journal.manual
                /\ ~disk.journal.restore \/ disk.opened # disk.journal.token
      PROVE  Planning
  <2>1. /\ todo = <<>> /\ UNCHANGED <<disk, data, used, launcher, host>>
        /\ todo' = writes \o <<"launch">> /\ host.at = "none"
    BY <1>0, <1>1, IdleHasNothing DEF Resume, Words, Actors
  <2>2. todo' # <<>>
    BY <2>1, <1>1 DEF Confirm, RestoreAndRollback, Restore, Rollback
  <2>3. /\ writes = Confirm => Head(todo') = "previous"
        /\ writes = Rollback => Head(todo') = "quarantine"
        /\ writes = RestoreAndRollback(disk.journal) =>
             Head(todo') = IF disk.journal.restore THEN "aside" ELSE "quarantine"
    BY <2>1, FirstWrites
  <2> QED
    BY <1>1, <2>1, <2>2, <2>3 DEF Planning
<1>2. CASE ResumeRollback
  BY <1>1, <1>2 DEF ResumeRollback, Judgement
<1>3. CASE ResumeConfirmation
  BY <1>1, <1>3 DEF ResumeConfirmation, Judged
<1>4. CASE RollBackFailure
  BY <1>1, <1>4 DEF RollBackFailure, Failure, MustRestore
<1>5. CASE ConsentToRestore
  BY <1>1, <1>5 DEF ConsentToRestore, Failure, MustRestore, Judged, Judgement
<1>6. CASE BecomeReady
  <2>1. todo' # <<>> /\ Head(todo') = "previous"
    BY <1>6 DEF BecomeReady, Confirm
  <2> QED
    BY <1>6, <2>1 DEF BecomeReady, Free, Planning
<1>7. CASE Install \/ RequestRollback
  <2>1. todo' # <<>> /\ Head(todo') \in {"journal", "restart", "request"}
    BY <1>7 DEF Install, RequestRollback, Activate
  <2>2. host'.at = "stopping" /\ host'.prepared = host.prepared
      BY <1>0, <1>7 DEF Install, RequestRollback, Types
  <2> QED
    BY <1>7, <2>1, <2>2 DEF Install, RequestRollback, Free, Planning
<1> QED
  BY <1>2, <1>3, <1>4, <1>5, <1>6, <1>7

LEMMA OthersRest ==
  ASSUME Base,
         \/ NothingToResume \/ Launch \/ Restart \/ Launcher \/ StartUp \/ QuitInstead
         \/ Failures \/ UNCHANGED vars
  PROVE  Still
<1>0. Plans /\ Actors /\ Types /\ Records /\ disk \in Disk
  BY DEF Base, Types
<1>1. CASE Restart \/ Launch
  <2>1. /\ Planned(todo, Words) /\ todo # <<>> /\ todo' = Tail(todo)
        /\ Head(todo) \in {"restart", "launch"}
    BY <1>0, <1>1 DEF Restart, Launch, Doing, Plans
  <2>2. After("restart") = {} /\ After("launch") = {}
    BY DEF After
  <2>3. todo' = <<>> /\ AtOneOf({"restart", "launch"})
    BY <2>1, <2>2, TailPlanned DEF AtOneOf
  <2>4. UNCHANGED <<disk, data, used>> /\ host' \in {host, NoHost}
    BY <1>1 DEF Restart, Launch
  <2>5. AtOneOf({"launch"}) \/ launcher' = launcher
    BY <1>1 DEF Restart, Launch, Doing, AtOneOf
  <2> QED
    BY <2>3, <2>4, <2>5 DEF Still, Leaves, NoHost
<1>2. CASE NothingToResume \/ QuitInstead \/ UNCHANGED vars
  BY <1>0, <1>2 DEF NothingToResume, QuitInstead, vars, Still, Leaves, Types
<1>3. CASE StartUp
  BY <1>0, <1>3 DEF StartUp, NoHost, Still, Leaves
<1>4. CASE LaunchPlainly \/ RefuseSecondTrial \/ SeeHealthy \/ GiveUp
  BY <1>0, <1>4 DEF LaunchPlainly, RefuseSecondTrial, SeeHealthy, GiveUp, Spawned, NoHost, Still,
     Leaves, Actors
<1>5. CASE SpawnTrial
  BY <1>0, <1>5 DEF SpawnTrial, Spawned, NoHost, Still, Leaves, Types, Actors
<1>6. CASE BeginTrial \/ Recover
  BY <1>0, <1>6 DEF BeginTrial, Recover, Still, Leaves, Disk
<1>7. CASE KillTarget \/ Exit \/ PowerLoss \/ SpawnFails
  BY <1>0, <1>7 DEF KillTarget, Exit, PowerLoss, SpawnFails, NoHost, Idle, Still,
     Leaves, Types
<1> QED
  BY <1>1, <1>2, <1>3, <1>4, <1>5, <1>6, <1>7 DEF Launcher, Failures

LEMMA DataKinds ==
  ASSUME Base, [Next]_vars
  PROVE  \/ WriteJournal \/ WriteRequest \/ \E w \in Word : Filed(w)
         \/ Planning \/ Still
         \/ MarkOpened \/ OpenData \/ AddData \/ \E v \in Release : Prepare(v)
BY StoreFiles, PlansMade, OthersRest DEF Next, Entry, Application, User

\* What a request to roll back does to the data, the files and the plan.
LEMMA RequestFiles ==
  ASSUME Base, WriteRequest
  PROVE  /\ UNCHANGED <<data, host, launcher, used>> /\ host.at = "stopping"
         /\ disk'.slots = disk.slots /\ disk'.snapshots = disk.snapshots
         /\ disk'.bridge = disk.bridge /\ disk'.opened = disk.opened
         /\ disk' # disk =>
              /\ disk.last.token # 0 /\ disk'.journal.manual
              /\ disk'.journal.token = disk.last.token
              /\ disk'.journal.from = disk.last.from /\ disk'.journal.to = disk.last.to
              /\ disk'.journal.restore = disk.last.restore
              /\ Head(todo') \in {"aside", "quarantine"} => disk.active = disk.last.to
              /\ Head(todo') = "aside" => disk.last.restore
              /\ Head(todo') = "quarantine" => ~disk.last.restore
<1>0. disk \in Disk /\ disk.last \in Journal
  BY DEF Base, Types, Disk
<1>1. UNCHANGED <<data, host, launcher, used>> /\ At("request") /\ host.at = "stopping"
  <2>1. UNCHANGED <<data, host, launcher, used>> /\ At("request")
    BY DEF WriteRequest, At
  <2> QED
    BY <2>1, Who
<1>2. CASE disk.last.token = 0
  BY <1>1, <1>2 DEF WriteRequest
<1>3. CASE disk.last.token # 0
  <2>1. disk' = [disk EXCEPT !.journal = [disk.last EXCEPT !.manual = TRUE]]
    BY <1>3 DEF WriteRequest
  <2>2. /\ disk'.slots = disk.slots /\ disk'.snapshots = disk.snapshots
        /\ disk'.bridge = disk.bridge /\ disk'.opened = disk.opened
        /\ disk'.journal = [disk.last EXCEPT !.manual = TRUE]
    BY <1>0, <2>1 DEF Disk
  <2>3. /\ disk'.journal.token = disk.last.token /\ disk'.journal.manual
        /\ disk'.journal.from = disk.last.from /\ disk'.journal.to = disk.last.to
        /\ disk'.journal.restore = disk.last.restore
    BY <1>0, <2>2 DEF Journal
  <2>4. CASE disk.active = disk.last.to
    <3>1. todo' = RestoreAndRollback(disk.last) \o <<"restart">>
      BY <1>3, <2>4 DEF WriteRequest
    <3>2. Head(todo') = IF disk.last.restore THEN "aside" ELSE "quarantine"
      BY <3>1, FirstWrites
    <3> QED
      BY <1>1, <1>3, <2>2, <2>3, <2>4, <3>2
  <2>5. CASE disk.active # disk.last.to
    <3>1. todo' = <<"drop">> \o <<"restart">>
      BY <1>3, <2>5 DEF WriteRequest
    <3>2. Head(todo') = "drop"
      BY <3>1
    <3> QED
      BY <1>1, <1>3, <2>2, <2>3, <2>5, <3>2
  <2> QED
    BY <2>4, <2>5
<1> QED
  BY <1>2, <1>3

\* What the application does while nothing is written.
LEMMA Serves ==
  ASSUME Base, MarkOpened \/ OpenData \/ AddData \/ \E v \in Release : Prepare(v)
  PROVE  /\ todo = <<>> /\ todo' = <<>> /\ Leaves /\ ~disk.journal.manual
         /\ host.at \in {"boot", "opening", "running"} /\ disk.active \in {0, host.id}
         /\ used'.activations = used.activations
         /\ disk'.opened = disk.opened \/ MarkOpened
<1>0. Plans /\ Actors /\ Types /\ Records /\ disk \in Disk
  BY DEF Base, Types
<1>1. /\ host.at \in {"boot", "opening", "running"} /\ disk.active \in {0, host.id}
      /\ ~disk.journal.manual
  BY <1>0 DEF MarkOpened, OpenData, AddData, Prepare, Free, Actors, Records
<1>2. todo = <<>> /\ todo' = <<>>
  BY <1>0, IdleHasNothing DEF MarkOpened, OpenData, AddData, Prepare, Free, Words, Actors
<1>3. CASE MarkOpened \/ OpenData \/ AddData
  BY <1>0, <1>1, <1>2, <1>3 DEF MarkOpened, OpenData, AddData, Leaves, Disk, Types
<1>4. ASSUME NEW v \in Release, Prepare(v)
      PROVE  Leaves /\ used' = used /\ disk'.opened = disk.opened
  <2>1. /\ disk'.journal = disk.journal /\ disk'.last = disk.last /\ disk'.trial = disk.trial
        /\ disk'.previous = disk.previous /\ disk'.healthy = disk.healthy
        /\ disk'.opened = disk.opened
        /\ disk'.active = IF disk.active = 0 THEN host.id ELSE disk.active
    BY ZenonT(30), <1>0, <1>4 DEF Prepare, Registered, Pruned, Disk
  <2>2. disk.active = 0 => ~Pending
    BY <1>0 DEF Records
  <2> QED
    BY <1>4, <2>1, <2>2 DEF Prepare, Leaves
<1> QED
  BY <1>1, <1>2, <1>3, <1>4

(***************************************************************************)
(* Where the store is.  An activation that is undone or refused leaves the *)
(* release that it came from, one that is confirmed its target; the last   *)
(* activation always has the release at home as one of its two.            *)
(***************************************************************************)
Home == IF Pending THEN disk.journal.from ELSE disk.active

Homes ==
  /\ Pending => disk.active \in {disk.journal.from, disk.journal.to}
  /\ disk.last.token # 0 =>
       disk.active # 0 /\ Home \in {disk.last.from, disk.last.to}
  /\ Pending /\ disk.journal.token = disk.last.token =>
       disk.journal.from = disk.last.from /\ disk.journal.to = disk.last.to
  /\ disk.journal.manual => disk.journal.token = disk.last.token
  /\ Pending /\ ~disk.journal.manual /\ disk.healthy = disk.journal.token
       => disk.last = disk.journal
  /\ AtOneOf({"bridge", "healthy"}) => disk.last = disk.journal
  /\ AtOneOf({"rebridge", "forget"} \cup Closing) =>
       \/ disk.active = disk.journal.from
       \/ ~disk.journal.manual /\ disk.healthy = disk.journal.token
  /\ At("drop") => disk.journal.manual
  /\ disk.healthy <= used.activations

LEMMA HomesInit == Init => Homes
BY DEF Init, Homes, Home, Pending, NoJournal, At, AtOneOf

LEMMA HomesStep == ASSUME Base, Base', Homes, [Next]_vars PROVE Homes'
<1>0. Plans /\ Types /\ Records /\ Actors /\ disk \in Disk /\ Records'
  BY DEF Base, Types
<1>1. CASE WriteJournal
  <2>1. disk.healthy \in Nat /\ disk.last.token \in Nat /\ disk.last.token <= used.activations
    BY <1>0 DEF Disk, Token, Journal, Records
  <2>2. disk'.journal.token # disk.last.token /\ disk'.journal.token # disk.healthy
        /\ disk'.journal.token # 0 /\ disk.healthy <= used.activations + 1
    BY <1>1, <2>1, JournalWritten DEF Homes
  <2>3. ~AtOneOf({"rebridge", "forget", "bridge", "healthy", "drop"} \cup Closing)'
    BY <1>1, JournalWritten DEF AtOneOf, Closing
  <2> QED
    BY <1>1, <2>2, <2>3, JournalWritten DEF Homes, Home, Pending, At, AtOneOf
<1>2. CASE WriteRequest
  <2>1. CASE disk' = disk /\ Head(todo') = "restart"
    BY <1>2, <2>1, RequestWritten DEF Homes, Home, Pending, At, AtOneOf, Closing
  <2>2. CASE disk' # disk
    <3>1. Head(todo') \in {"aside", "quarantine", "drop"}
      BY <1>2, <2>2, RequestWritten
    <3>2. Pending' /\ ~Pending
      BY <1>2, <2>2, RequestFiles, RequestWritten DEF Pending
    <3> QED
      BY <1>2, <2>2, <3>1, <3>2, RequestWritten, RequestFiles
      DEF Homes, Home, At, AtOneOf, Closing
  <2>3. disk' = disk => ~disk'.journal.manual
    <3>1. disk.journal = NoJournal
      BY <1>0, <1>2, RequestWritten DEF Records, Pending
    <3> QED
      BY <3>1 DEF NoJournal
  <2> QED
    BY <1>2, <2>1, <2>2, <2>3, RequestWritten
<1>3. ASSUME NEW w \in Word, OneWrite(w) PROVE Homes'
  <2>0. /\ Pending /\ disk.journal.token # 0 /\ disk.journal.from # disk.journal.to
        /\ w \in Activating \cup Confirming => ~disk.journal.manual
        /\ used' = used /\ At(w) /\ (todo' # <<>> => Head(todo') \in After(w))
        /\ disk.active # 0 /\ disk.journal.from # 0 /\ disk.journal.to # 0
        /\ disk.journal.token <= used.activations
    BY <1>0, <1>3, WhatWrites DEF OneWrite, Records
  <2>1. ~At("drop")'
    BY <1>3, <2>0 DEF At, After
  <2>2. AtOneOf({"bridge", "healthy"})' => w \in {"last", "bridge"}
    BY <1>3, <2>0 DEF AtOneOf, After
  <2>3. AtOneOf({"rebridge", "forget"} \cup Closing)' =>
          w \in {"return", "rebridge", "forget", "healthy", "untrial", "unfail"}
    BY <1>3, <2>0 DEF AtOneOf, After, Closing
  <2>4. disk'.healthy <= used'.activations
    BY <1>3, <2>0 DEF OneWrite, Homes
  <2>5. AtOneOf({"bridge", "healthy"})' => disk'.last = disk'.journal
    BY <1>3, <2>0, <2>2 DEF OneWrite, Homes, At, AtOneOf
  <2>6. AtOneOf({"rebridge", "forget"} \cup Closing)' =>
          \/ disk'.active = disk'.journal.from
          \/ ~disk'.journal.manual /\ disk'.healthy = disk'.journal.token
    <3>1. CASE w \in {"return", "healthy"}
      BY <1>3, <2>0, <3>1 DEF OneWrite, Confirming
    <3>2. CASE w \in {"rebridge", "forget", "untrial", "unfail"}
      BY <1>3, <2>0, <3>2 DEF OneWrite, Homes, At, AtOneOf, Closing
    <3> QED
      BY <2>3, <3>1, <3>2
  <2>7. CASE w \in {"close", "drop"}
    <3>1. /\ ~Pending' /\ disk'.active = disk.active /\ disk'.last = disk.last
          /\ ~disk'.journal.manual
      BY <1>3, <2>7 DEF OneWrite, Pending, NoJournal
    <3>2. disk.last.token # 0 => disk.active \in {disk.last.from, disk.last.to}
      <4>1. CASE w = "close" /\ disk.active = disk.journal.from
        BY <2>0, <4>1 DEF Homes, Home
      <4>2. CASE /\ w = "close" /\ ~disk.journal.manual
                 /\ disk.healthy = disk.journal.token
        BY <2>0, <4>2 DEF Homes
      <4>3. CASE w = "drop"
        BY <2>0, <4>3 DEF Homes
      <4> QED
        BY <2>0, <2>7, <4>1, <4>2, <4>3 DEF Homes, At, AtOneOf, Closing
    <3> QED
      BY <2>0, <2>1, <2>4, <2>5, <2>6, <3>1, <3>2 DEF Homes, Home
  <2>8. CASE w \notin {"close", "drop"}
    <3>1. Pending' /\ disk'.journal = disk.journal
      BY <1>3, <2>0, <2>8 DEF OneWrite, Pending
    <3>2. Home' = disk.journal.from /\ Home = disk.journal.from
      BY <2>0, <3>1 DEF Home
    <3>3. CASE w = "last"
      BY <1>3, <2>0, <2>1, <2>4, <2>5, <2>6, <3>1, <3>2, <3>3 DEF OneWrite, Homes, Confirming
    <3>4. CASE w \in {"select", "return"}
      BY <1>3, <2>0, <2>1, <2>4, <2>5, <2>6, <3>1, <3>2, <3>4 DEF OneWrite, Homes, Activating
    <3>5. CASE w = "healthy"
      BY <1>3, <2>0, <2>1, <2>4, <2>5, <2>6, <3>1, <3>2, <3>5 DEF OneWrite, Homes, At, AtOneOf
    <3>6. CASE w \notin {"last", "select", "return", "healthy"}
      BY <1>3, <2>0, <2>1, <2>4, <2>5, <2>6, <2>8, <3>1, <3>2, <3>6 DEF OneWrite, Homes
    <3> QED
      BY <3>3, <3>4, <3>5, <3>6
  <2> QED
    BY <2>7, <2>8
<1>4. CASE Planning
  BY <1>4 DEF Planning, Homes, Home, Pending, At, AtOneOf, Closing
<1>5. CASE Still
  BY <1>5 DEF Still, Leaves, Homes, Home, Pending, At, AtOneOf
<1>6. CASE MarkOpened \/ OpenData \/ AddData \/ \E v \in Release : Prepare(v)
  <2>1. /\ todo' = <<>> /\ Leaves /\ used'.activations = used.activations
    BY <1>6, Serves
  <2> QED
    BY <2>1 DEF Leaves, Homes, Home, Pending, At, AtOneOf
<1> QED
  BY <1>1, <1>2, <1>3, <1>4, <1>5, <1>6, DataKinds DEF Filed

(***************************************************************************)
(* What a restore has done.  Its activation is never confirmed, and the    *)
(* release that it came from is at home, or will be before anything runs.  *)
(***************************************************************************)
Undoing ==
  /\ Judgement /\ launcher.at = "none" /\ host.at \in {"none", "stopping"}
  /\ todo # <<>> => AtOneOf(Restorings \cup Returning)

Fresh == (\A t \in data.restored : t <= used.activations) /\ disk.opened <= used.activations

Undone ==
  /\ AtOneOf({"trial", "select"} \cup Confirming) => disk.journal.token \notin data.restored
  /\ Pending /\ ~disk.journal.manual /\ disk.healthy = disk.journal.token
       => disk.journal.token \notin data.restored
  /\ Pending /\ ~disk.journal.manual /\ disk.journal.token \in data.restored
       => disk.active = disk.journal.from \/ Undoing
  /\ disk.last.token # 0 /\ disk.last.token \in data.restored => Home = disk.last.from
  /\ At("drop") /\ disk.journal.token \in data.restored => disk.active = disk.journal.from

LEMMA UndoneInit == Init => Fresh /\ Undone
BY DEF Init, Fresh, Undone, Home, Pending, NoJournal, At, AtOneOf

\* What a write does to the restores that are done.
LEMMA RestoredBy ==
  ASSUME Base, NEW w \in Word, Filed(w)
  PROVE  data'.restored = IF w = "mark" THEN data.restored \cup {disk.journal.token}
                          ELSE data.restored
<1>1. DataType
  BY DEF Base, Types
<1>2. Aside(disk.journal.token).restored = data.restored
  BY <1>1 DEF Aside, DataType
<1>3. Copied(disk.journal.token).restored = data.restored
  BY <1>1 DEF Copied, DataType
<1>4. w = "mark" => data'.restored = data.restored \cup {disk.journal.token}
  BY <1>1 DEF Filed, DataType
<1> QED
  BY <1>2, <1>3, <1>4 DEF Filed

LEMMA FreshStep == ASSUME Base, Base', Fresh, [Next]_vars PROVE Fresh'
<1>0. Types /\ Records /\ disk \in Disk /\ DataType /\ Records'
  BY DEF Base, Types
<1>1. CASE WriteJournal
  <2>1. disk'.opened = disk.opened /\ data'.restored = data.restored
    BY <1>0, <1>1 DEF WriteJournal, Disk, DataType
  <2>2. disk.opened \in Nat /\ data.restored \subseteq Nat /\ used.activations \in Nat
    BY <1>0 DEF Disk, DataType, Token, Types
  <2>3. used'.activations = used.activations + 1
    BY <1>1, JournalWritten
  <2> QED
    BY <2>1, <2>2, <2>3 DEF Fresh
<1>2. CASE WriteRequest
  BY <1>2, RequestFiles DEF Fresh
<1>3. ASSUME NEW w \in Word, Filed(w) PROVE Fresh'
  <2>1. used' = used /\ disk'.opened = disk.opened /\ disk.journal.token <= used.activations
    BY <1>0, <1>3 DEF Filed, OneWrite, Records
  <2> QED
    BY <1>3, <2>1, RestoredBy DEF Fresh
<1>4. CASE Planning \/ Still
  BY <1>4 DEF Planning, Still, Fresh
<1>5. CASE MarkOpened \/ OpenData \/ AddData \/ \E v \in Release : Prepare(v)
  <2>1. used'.activations = used.activations /\ (disk'.opened = disk.opened \/ MarkOpened)
    BY <1>5, Serves
  <2>2. MarkOpened => disk'.opened \in {disk.opened, disk.journal.token}
    BY <1>0 DEF MarkOpened, Disk
  <2>3. data'.restored = data.restored
    BY <1>0, <1>5 DEF MarkOpened, OpenData, AddData, Prepare, DataType
  <2> QED
    BY <1>0, <2>1, <2>2, <2>3 DEF Fresh, Records
<1> QED
  BY <1>1, <1>2, <1>3, <1>4, <1>5, DataKinds

LEMMA UndoneStep ==
  ASSUME Base, Base', Course, Restored, Homes, Fresh, Undone, [Next]_vars PROVE Undone'
<1>0. Plans /\ Types /\ Records /\ Actors /\ disk \in Disk /\ DataType
  BY DEF Base, Types
<1>1. CASE WriteJournal
  <2>1. data'.restored = data.restored /\ used.activations \in Nat
        /\ data.restored \subseteq Nat
    BY <1>0, <1>1 DEF WriteJournal, DataType, Types, Token
  <2>2. disk'.journal.token \notin data.restored
    BY <1>1, <2>1, JournalWritten DEF Fresh
  <2>3. Home' = disk.active /\ Home = disk.active /\ disk'.last = disk.last
    BY <1>1, JournalWritten DEF Home, Pending
  <2> QED
    BY <2>1, <2>2, <2>3 DEF Undone
<1>2. CASE WriteRequest
  <2>1. data' = data /\ ~Pending /\ disk'.last = disk.last /\ disk'.active = disk.active
    BY <1>2, RequestFiles, RequestWritten
  <2>2. CASE disk' = disk
    <3>1. Head(todo') = "restart"
      <4>1. disk.journal = NoJournal
        BY <1>0, <2>1 DEF Records, Pending
      <4> QED
        BY <1>2, <2>2, <4>1, RequestWritten DEF NoJournal
    <3> QED
      BY <2>1, <2>2, <3>1 DEF Undone, Home, Pending, At, AtOneOf, Confirming
  <2>3. CASE disk' # disk
    <3>1. /\ disk'.journal.manual /\ disk'.journal.token = disk.last.token
          /\ disk'.journal.from = disk.last.from /\ disk.last.token # 0
      BY <1>2, <2>3, RequestFiles
    <3>2. Head(todo') \in {"aside", "quarantine", "drop"}
      BY <1>2, <2>3, RequestWritten
    <3>3. Home = disk.active /\ Home' = disk.last.from
      BY <2>1, <3>1 DEF Home, Pending
    <3> QED
      BY <2>1, <3>1, <3>2, <3>3 DEF Undone, At, AtOneOf, Confirming
  <2> QED
    BY <2>2, <2>3
<1>3. ASSUME NEW w \in Word, Filed(w) PROVE Undone'
  <2>0. /\ Pending /\ disk.journal.token # 0 /\ disk.journal.from # disk.journal.to
        /\ w \in Activating \cup Confirming => ~disk.journal.manual
        /\ At(w) /\ (todo' # <<>> => Head(todo') \in After(w)) /\ OneWrite(w)
        /\ UNCHANGED <<host, launcher, used>>
    BY <1>3, WhatWrites DEF Filed, OneWrite
  <2>1. data'.restored = IF w = "mark" THEN data.restored \cup {disk.journal.token}
                         ELSE data.restored
    BY <1>3, RestoredBy
  <2>2. AtOneOf({"trial", "select"} \cup Confirming)' =>
          disk'.journal.token \notin data'.restored
    <3>1. AtOneOf({"trial", "select"} \cup Confirming)' =>
            w \in {"journal", "trial", "previous", "last", "bridge"}
      BY <2>0 DEF AtOneOf, After, Confirming
    <3>2. w # "journal"
      BY <2>0 DEF OneWrite
    <3> QED
      BY <2>0, <2>1, <3>1, <3>2 DEF OneWrite, Undone, At, AtOneOf, Confirming
  <2>3. Pending' /\ ~disk'.journal.manual /\ disk'.healthy = disk'.journal.token
          => disk'.journal.token \notin data'.restored
    <3>1. CASE w \in {"close", "drop"}
      BY <2>0, <3>1 DEF OneWrite, Pending, NoJournal
    <3>2. CASE w = "healthy"
      BY <2>0, <2>1, <3>2 DEF OneWrite, Undone, At, AtOneOf, Confirming
    <3>3. CASE w = "mark"
      BY <2>0, <3>3 DEF OneWrite, Course, Backwards, At, AtOneOf, Restorings
    <3>4. CASE w \notin {"close", "drop", "healthy", "mark"}
      BY <2>0, <2>1, <3>4 DEF OneWrite, Undone
    <3> QED
      BY <3>1, <3>2, <3>3, <3>4
  <2>4. Pending' /\ ~disk'.journal.manual /\ disk'.journal.token \in data'.restored
          => disk'.active = disk'.journal.from \/ Undoing'
    <3> SUFFICES ASSUME Pending', ~disk'.journal.manual, disk'.journal.token \in data'.restored
                 PROVE  disk'.active = disk'.journal.from \/ Undoing'
      OBVIOUS
    <3>1. w \notin {"close", "drop"} /\ disk'.journal = disk.journal /\ ~disk.journal.manual
      BY <2>0 DEF OneWrite, Pending, NoJournal
    <3>2. CASE w = "return"
      BY <2>0, <3>1, <3>2 DEF OneWrite
    <3>3. CASE w \in {"rebridge", "forget"}
      BY <2>0, <3>1, <3>3 DEF OneWrite, Course, Returned, At, AtOneOf
    <3>4. CASE w \in Restorings \cup {"quarantine", "keep"}
      <4>1. disk.active = disk.journal.from \/ Undoing
        <5>1. CASE w = "mark"
          BY <2>0, <5>1, Who DEF Restored, Undoing, At, AtOneOf, Restorings, Returning
        <5>2. CASE w # "mark"
          BY <2>1, <3>1, <5>2, <2>0 DEF Undone
        <5> QED
          BY <5>1, <5>2
      <4>2. disk'.active = disk.active
        BY <2>0, <3>4 DEF OneWrite, Restorings
      <4>3. AtOneOf(Restorings \cup Returning)' \/ todo' = <<>>
        BY <2>0, <3>4 DEF AtOneOf, After, Restorings, Returning
      <4>4. Judgement => Judgement'
        BY <1>3, <2>0, <3>1, <3>4 DEF Filed, OneWrite, Judgement, Restorings
      <4> QED
        BY <2>0, <3>1, <4>1, <4>2, <4>3, <4>4 DEF Undoing
    <3>5. CASE w \in {"trial", "select"} \cup Confirming
      BY <2>0, <2>1, <3>1, <3>5 DEF Undone, At, AtOneOf, Confirming
    <3>6. CASE w \in {"untrial", "unfail"}
      BY <2>0, <2>1, <3>1, <3>6 DEF OneWrite, Undone, Undoing, At, AtOneOf, Restorings, Returning
    <3> QED
      BY <2>0, <3>1, <3>2, <3>3, <3>4, <3>5, <3>6
      DEF OneWrite, Word, Activating, Restorings, Returning, Confirming, Closing
  <2>5. disk'.last.token # 0 /\ disk'.last.token \in data'.restored
          => Home' = disk'.last.from
    <3>1. CASE w \in {"close", "drop"}
      <4>1. /\ Home' = disk.active /\ Home = disk.journal.from /\ disk'.last = disk.last
            /\ data'.restored = data.restored
        BY <2>0, <2>1, <3>1 DEF OneWrite, Home, Pending, NoJournal
      <4>2. CASE w = "close"
        <5>1. \/ disk.active = disk.journal.from
              \/ ~disk.journal.manual /\ disk.healthy = disk.journal.token
          BY <2>0, <4>2 DEF Homes, At, AtOneOf, Closing
        <5>2. CASE ~disk.journal.manual /\ disk.healthy = disk.journal.token
          BY <2>0, <4>1, <5>2 DEF Homes, Undone
        <5> QED
          BY <4>1, <5>1, <5>2 DEF Undone
      <4>3. CASE w = "drop"
        <5>1. disk.journal.manual /\ disk.journal.token = disk.last.token
          BY <2>0, <4>3 DEF Homes
        <5> QED
          BY <2>0, <4>1, <4>3, <5>1 DEF Homes, Undone
      <4> QED
        BY <3>1, <4>2, <4>3
    <3>2. CASE w \notin {"close", "drop"}
      <4>1. Home' = disk.journal.from /\ Home = disk.journal.from
        BY <2>0, <3>2 DEF OneWrite, Home, Pending
      <4>2. CASE w = "last"
        BY <2>0, <4>1, <4>2 DEF OneWrite
      <4>3. CASE w = "mark"
        BY <2>0, <2>1, <4>1, <4>3 DEF OneWrite, Undone, Homes
      <4>4. CASE w \notin {"last", "mark"}
        BY <2>0, <2>1, <4>1, <4>4 DEF OneWrite, Undone
      <4> QED
        BY <4>2, <4>3, <4>4
    <3> QED
      BY <3>1, <3>2
  <2>6. ~At("drop")'
    BY <2>0 DEF At, After
  <2> QED
    BY <2>2, <2>3, <2>4, <2>5, <2>6 DEF Undone
<1>4. CASE Planning
  <2>1. UNCHANGED <<disk, data, launcher>> /\ todo' # <<>> /\ todo = <<>>
    BY <1>4 DEF Planning
  <2>2. AtOneOf({"trial", "select"} \cup Confirming)' =>
          disk.journal.token \notin data.restored
    <3> SUFFICES ASSUME AtOneOf({"trial", "select"} \cup Confirming)'
                 PROVE  disk.journal.token \notin data.restored
      OBVIOUS
    <3>1. Head(todo') = "previous" /\ Pending
      BY <1>4 DEF Planning, AtOneOf, Confirming
    <3>2. CASE host.at = "running" /\ disk.active = disk.journal.to
      <4>1. ~disk.journal.manual /\ disk.journal.from # disk.journal.to
        BY <1>0, <3>1, <3>2 DEF Records, Pending
      <4>2. ~Undoing /\ disk.active # disk.journal.from
        BY <3>2, <4>1 DEF Undoing
      <4> QED
        BY <3>1, <4>1, <4>2 DEF Undone
    <3>3. CASE ~disk.journal.manual /\ disk.healthy = disk.journal.token
      BY <3>1, <3>3 DEF Undone
    <3> QED
      BY <1>4, <3>1, <3>2, <3>3 DEF Planning
  <2>3. Undoing => Undoing'
    BY <1>4 DEF Planning, Undoing, Judgement, AtOneOf, Restorings, Returning
  <2>4. ~At("drop")'
    BY <1>4 DEF Planning, At
  <2> QED
    BY <2>1, <2>2, <2>3, <2>4 DEF Undone, Home, Pending
<1>5. CASE Still
  <2>1. /\ data' = data /\ disk'.active = disk.active /\ disk'.journal = disk.journal
        /\ disk'.last = disk.last /\ disk'.healthy = disk.healthy /\ disk'.opened = disk.opened
        /\ todo' = todo \/ todo' = <<>>
    BY <1>5 DEF Still, Leaves
  <2>2. ASSUME Pending, ~disk.journal.manual, Undoing PROVE Undoing'
    <3>1. ~NothingToResume /\ ~AtOneOf({"launch"}) /\ disk.active # 0
      BY <1>0, <2>2 DEF NothingToResume, Judged, Judgement, Undoing, AtOneOf, Restorings,
         Returning, Records
    <3>2. /\ launcher'.at = "none" /\ host'.at \in {"none", host.at}
          /\ disk'.attempted = disk.attempted /\ disk'.failed = disk.failed
      BY <1>5, <2>2, <3>1 DEF Still, Undoing
    <3> QED
      BY <2>1, <2>2, <3>2 DEF Undoing, Judgement, AtOneOf
  <2> QED
    BY <2>1, <2>2 DEF Undone, Home, Pending, At, AtOneOf
<1>6. CASE MarkOpened \/ OpenData \/ AddData \/ \E v \in Release : Prepare(v)
  <2>1. /\ todo' = <<>> /\ Leaves /\ host.at \in {"boot", "opening", "running"}
    BY <1>6, Serves
  <2>2. data'.restored = data.restored
    BY <1>0, <1>6 DEF MarkOpened, OpenData, AddData, Prepare, DataType
  <2>3. Pending => disk'.active = disk.active
    BY <2>1 DEF Leaves
  <2>4. ~Undoing
    BY <2>1 DEF Undoing
  <2>5. disk.last.token # 0 => disk'.active = disk.active
    BY <2>1 DEF Leaves, Homes
  <2> QED
    BY <2>1, <2>2, <2>3, <2>4, <2>5 DEF Undone, Leaves, Home, Pending, At, AtOneOf
<1> QED
  BY <1>1, <1>2, <1>3, <1>4, <1>5, <1>6, DataKinds

(***************************************************************************)
(* The schema of the data.  The live data is never newer than the release  *)
(* that is selected, and while its activation may still be undone without  *)
(* a restore not newer than the release to go back to.                     *)
(***************************************************************************)
\* The release whose data it is; before the store exists the installed one.
Selected == IF disk.active = 0 THEN 1 ELSE disk.active

\* An activation goes to a later version and knows whether it migrates, and its
\* snapshot can be read by the release that it came from.
Sound(journal) ==
  journal.token # 0 =>
    /\ journal.from < journal.to
    /\ journal.restore <=> Schema(journal.to) > Schema(journal.from)
    /\ data.snap[journal.token].schema <= Schema(journal.from)

Sounds == Sound(disk.journal) /\ Sound(disk.last)

\* What is prepared is later than what runs.
Newer ==
  /\ host.at = "running" /\ host.prepared # 0 => disk.active < host.prepared
  /\ At("journal") => disk.active < host.prepared

Fits ==
  /\ data.live.schema <= Schema(Selected)
  /\ disk.active = 0 /\ host.at \in {"boot", "opening", "running"} => host.id = 1
  /\ Pending /\ host.at = "opening" => disk.opened = disk.journal.token
  /\ Pending /\ ~disk.journal.manual /\ disk.opened # disk.journal.token
       => data.live.schema <= Schema(disk.journal.from)
  /\ Pending /\ disk.journal.token \in data.restored
       => data.live.schema <= Schema(disk.journal.from)
  /\ AtOneOf({"mark", "quarantine", "keep", "return"})
       => data.live.schema <= Schema(disk.journal.from)

LEMMA FitsInit == Init => Sounds /\ Newer /\ Fits
<1>1. Schema(1) \in Nat /\ Schema(1) <= Schema(1)
  <2>1. 1 \in Release
    BY ReleaseAssumption DEF Release
  <2>2. Schema(1) \in 0..Cardinality(Breaking)
    BY <2>1, SchemaType
  <2> QED
    BY <2>2
<1> QED
  BY <1>1 DEF Init, Sounds, Sound, Newer, Fits, Selected, Pending, NoJournal, At, AtOneOf

LEMMA NewerStep == ASSUME Base, Base', Newer, [Next]_vars PROVE Newer'
<1>0. Plans /\ Types /\ Records /\ Actors /\ disk \in Disk
  BY DEF Base, Types
<1>1. CASE WriteJournal
  <2>1. host' = host /\ host.at = "stopping" /\ ~At("journal")'
    BY <1>1, JournalWritten, Who DEF WriteJournal, At, Activating
  <2> QED
    BY <2>1 DEF Newer
<1>2. CASE WriteRequest
  <2>1. host' = host /\ host.at = "stopping" /\ ~At("journal")'
    BY <1>2, RequestFiles, RequestWritten DEF At
  <2> QED
    BY <2>1 DEF Newer
<1>3. ASSUME NEW w \in Word, Filed(w) PROVE Newer'
  <2>1. /\ At(w) /\ host' = host /\ ~At("journal")' /\ OneWrite(w)
    BY <1>3 DEF Filed, OneWrite, At, After
  <2>2. host.at = "running" => w \notin {"select", "return"}
    BY <1>0, <2>1, Who DEF Activating, Returning, At
  <2> QED
    BY <1>3, <2>1, <2>2 DEF OneWrite, Newer
<1>4. CASE Planning
  <2>1. /\ UNCHANGED <<disk>> /\ host'.prepared = host.prepared
        /\ host'.at = "running" => host.at = "running"
        /\ At("journal")' => host.at = "running" /\ host.prepared # 0
    BY <1>4 DEF Planning, At
  <2> QED
    BY <2>1 DEF Newer
<1>5. CASE Still
  <2>1. /\ disk'.active = disk.active /\ (At("journal")' => At("journal") /\ host' = host)
        /\ host' = host \/ host'.at # "running"
    <3>1. todo' = todo \/ ~At("journal")'
      BY <1>5 DEF Still, At
    <3>2. host' = host \/ host'.at \in {"none", "boot", "opening"}
      BY <1>5 DEF Still
    <3>3. At("journal")' => host'.at = "stopping"
      <4>1. At("journal")' => Planned(todo', Words') /\ todo' # <<>> /\ Head(todo') = "journal"
        BY DEF Base, Plans, At
      <4>2. At("journal")' => "journal" \in Words'
        BY <4>1, TailPlanned
      <4> QED
        BY <4>2 DEF Words, EntryWords, HostWords, Restorings, Returning, Confirming, Closing
    <3> QED
      BY <1>5, <3>1, <3>2, <3>3 DEF Still, At
  <2> QED
    BY <2>1 DEF Newer
<1>6. CASE MarkOpened \/ OpenData \/ AddData
  <2>1. ~At("journal")' /\ todo' = <<>>
    BY <1>6, Serves DEF At
  <2>2. CASE MarkOpened
    <3>1. host'.at = "opening"
      BY <1>0, <2>2 DEF MarkOpened, Types
    <3> QED
      BY <2>1, <3>1 DEF Newer
  <2>3. CASE OpenData
    <3>1. host'.prepared = 0
      BY <1>0, <2>3 DEF OpenData, Types, Actors
    <3> QED
      BY <2>1, <3>1 DEF Newer
  <2>4. CASE AddData
    BY <2>1, <2>4 DEF AddData, Newer
  <2> QED
    BY <1>6, <2>2, <2>3, <2>4
<1>7. ASSUME NEW v \in Release, Prepare(v) PROVE Newer'
  <2>1. ~At("journal")'
    BY <1>7, Serves DEF At
  <2>2. host'.prepared = v /\ v > host.id
    BY <1>0, <1>7 DEF Prepare, Types
  <2>3. disk'.active = host.id
    BY <1>0, <1>7 DEF Prepare, Free, Registered, Pruned, Disk, Actors
  <2>4. host.id \in Nat /\ v \in Nat
    BY <1>0, ReleaseAssumption DEF Types, Release
  <2> QED
    BY <2>1, <2>2, <2>3, <2>4 DEF Newer
<1> QED
  BY <1>1, <1>2, <1>3, <1>4, <1>5, <1>6, <1>7, DataKinds

LEMMA SoundsStep ==
  ASSUME Base, Base', Newer, Sounds, Fits, [Next]_vars PROVE Sounds'
<1>0. Plans /\ Types /\ Records /\ Actors /\ disk \in Disk /\ DataType
  BY DEF Base, Types
<1>1. CASE WriteJournal
  <2>1. /\ disk'.journal.token = used.activations + 1 /\ disk'.last = disk.last
        /\ disk'.journal.from = disk.active /\ disk'.journal.to = host.prepared
        /\ disk'.journal.restore <=> Schema(host.prepared) > Schema(disk.active)
    BY <1>0, <1>1 DEF WriteJournal, Disk
  <2>2. used.activations + 1 \in Token
    BY <1>0, <1>1, JournalWritten, ReleaseAssumption DEF Records, Types, Token
  <2>3. data' = [data EXCEPT !.snap[used.activations + 1] = data.live]
    BY <1>1 DEF WriteJournal
  <2>4. \A t \in Token : data'.snap[t] = IF t = used.activations + 1 THEN data.live
                                          ELSE data.snap[t]
    BY <1>0, <2>2, <2>3 DEF DataType
  <2>5. disk.active # 0 /\ disk.active < host.prepared
    BY <1>0, <1>1, JournalWritten, Who DEF Activating, Actors, Newer
  <2>6. Sound(disk.journal)'
    BY <2>1, <2>2, <2>4, <2>5 DEF Sound, Fits, Selected
  <2>7. Sound(disk.last)'
    <3>1. CASE disk.last.token = 0
      BY <2>1, <3>1 DEF Sound
    <3>2. CASE disk.last.token # 0
      <4>1. disk.last.token \in Token /\ disk.last.token <= used.activations
        BY <1>0, <3>2 DEF Disk, Journal, Records
      <4>2. disk.last.token # used.activations + 1
        BY <1>0, <4>1 DEF Types, Token
      <4>3. data'.snap[disk.last.token] = data.snap[disk.last.token]
        BY <2>4, <4>1, <4>2
      <4> QED
        BY <2>1, <4>3 DEF Sound, Sounds
    <3> QED
      BY <3>1, <3>2
  <2> QED
    BY <2>6, <2>7 DEF Sounds
<1>2. CASE WriteRequest
  <2>1. data' = data /\ disk'.last = disk.last
    BY <1>2, RequestFiles, RequestWritten
  <2>2. CASE disk' = disk
    BY <2>1, <2>2 DEF Sounds, Sound
  <2>3. CASE disk' # disk
    BY <1>2, <2>1, <2>3, RequestFiles DEF Sounds, Sound
  <2> QED
    BY <2>2, <2>3
<1>3. ASSUME NEW w \in Word, Filed(w) PROVE Sounds'
  <2>1. data'.snap = data.snap
    <3>1. Aside(disk.journal.token).snap = data.snap /\ Copied(disk.journal.token).snap = data.snap
      BY <1>0 DEF Aside, Copied, DataType
    <3>2. w = "mark" => data'.snap = data.snap
      BY <1>0, <1>3 DEF Filed, DataType
    <3> QED
      BY <1>3, <3>1, <3>2 DEF Filed
  <2>2. disk'.journal \in {disk.journal, NoJournal} /\ disk'.last \in {disk.last, disk.journal}
    BY <1>3 DEF Filed, OneWrite
  <2>3. Sound(disk.journal)'
    BY <2>1, <2>2 DEF Sounds, Sound, NoJournal
  <2>4. Sound(disk.last)'
    BY <2>1, <2>2 DEF Sounds, Sound
  <2> QED
    BY <2>3, <2>4 DEF Sounds
<1>4. CASE Planning \/ Still
  BY <1>4 DEF Planning, Still, Leaves, Sounds, Sound
<1>5. CASE MarkOpened \/ OpenData \/ AddData \/ \E v \in Release : Prepare(v)
  <2>1. Leaves
    BY <1>5, Serves
  <2>2. data'.snap = data.snap
    BY <1>0, <1>5 DEF MarkOpened, OpenData, AddData, Prepare, DataType
  <2> QED
    BY <2>1, <2>2 DEF Leaves, Sounds, Sound
<1> QED
  BY <1>1, <1>2, <1>3, <1>4, <1>5, DataKinds

\* The schemas that the writes of a plan meet.
LEMMA SchemaFacts ==
  ASSUME Base, Homes, Sounds, Fits
  PROVE  /\ data.live.schema \in Nat /\ \A t \in Token : data.snap[t].schema \in Nat
         /\ \A v \in Release : Schema(v) \in Nat
         /\ Pending =>
              /\ disk.journal.token \in Token /\ disk.active # 0
              /\ disk.journal.from \in Release /\ disk.journal.to \in Release
              /\ Schema(disk.journal.from) <= Schema(disk.journal.to)
              /\ data.live.schema <= Schema(disk.journal.to)
              /\ ~disk.journal.restore => data.live.schema <= Schema(disk.journal.from)
<1>0. Types /\ Records /\ disk \in Disk /\ DataType
  BY DEF Base, Types
<1>1. \A v \in Release : Schema(v) \in Nat
  BY SchemaType
<1>2. data.live.schema \in Nat /\ \A t \in Token : data.snap[t].schema \in Nat
  BY <1>0 DEF DataType, Content
<1>3. ASSUME Pending
      PROVE  /\ disk.journal.token \in Token /\ disk.active # 0
             /\ disk.journal.from \in Release /\ disk.journal.to \in Release
             /\ disk.journal.from < disk.journal.to
             /\ disk.journal.restore <=> Schema(disk.journal.to) > Schema(disk.journal.from)
             /\ disk.active \in {disk.journal.from, disk.journal.to}
  BY <1>0, <1>3 DEF Disk, Journal, Records, Pending, Sounds, Sound, Homes
<1>4. ASSUME Pending PROVE Schema(disk.journal.from) <= Schema(disk.journal.to)
  <2>1. disk.journal.from <= disk.journal.to
    BY <1>3, <1>4, ReleaseAssumption DEF Release
  <2> QED
    BY <1>3, <1>4, <2>1, SchemaGrows
<1>5. ASSUME Pending
      PROVE  /\ data.live.schema <= Schema(disk.journal.to)
             /\ ~disk.journal.restore => data.live.schema <= Schema(disk.journal.from)
  <2>1. Selected = disk.active
    BY <1>3, <1>5 DEF Selected
  <2>2. /\ data.live.schema <= Schema(disk.active)
        /\ Schema(disk.journal.from) \in Nat /\ Schema(disk.journal.to) \in Nat
    BY <1>1, <1>3, <1>5, <2>1 DEF Fits
  <2> QED
    BY <1>2, <1>3, <1>4, <1>5, <2>2
<1> QED
  BY <1>1, <1>2, <1>3, <1>4, <1>5

LEMMA FitsStep ==
  ASSUME Base, Base', Homes, Fresh, Undone, Sounds, Fits, [Next]_vars PROVE Fits'
<1>0. Plans /\ Types /\ Records /\ Actors /\ disk \in Disk /\ DataType
  BY DEF Base, Types
<1>1. CASE WriteJournal
  <2>1. /\ data'.live = data.live /\ data'.restored = data.restored /\ host' = host
        /\ disk'.active = disk.active /\ disk'.journal.from = disk.active
        /\ disk'.journal.token = used.activations + 1 /\ host.at = "stopping"
    BY <1>0, <1>1, JournalWritten, Who DEF WriteJournal, DataType, Activating
  <2>2. disk.active # 0 /\ Selected' = disk.active /\ Selected = disk.active
    BY <1>0, <2>1 DEF Actors, Selected
  <2>3. disk'.journal.token \notin data.restored
    BY <1>0, <2>1 DEF Fresh, Types, DataType, Token
  <2>4. ~AtOneOf({"mark", "quarantine", "keep", "return"})'
    BY <1>1, JournalWritten DEF AtOneOf
  <2> QED
    BY <2>1, <2>2, <2>3, <2>4 DEF Fits
<1>2. CASE WriteRequest
  <2>1. /\ data' = data /\ host' = host /\ host.at = "stopping" /\ ~Pending
        /\ disk'.active = disk.active
    BY <1>2, RequestFiles, RequestWritten
  <2>2. disk.active # 0 /\ Selected' = disk.active /\ Selected = disk.active
    BY <1>0, <2>1 DEF Actors, Selected
  <2>3. CASE disk' = disk
    <3>1. disk.journal = NoJournal
      BY <1>0, <2>1 DEF Records, Pending
    <3>2. Head(todo') = "restart"
      BY <1>2, <2>3, <3>1, RequestWritten DEF NoJournal
    <3> QED
      BY <2>1, <2>2, <2>3, <3>2 DEF Fits, Pending, AtOneOf
  <2>4. CASE disk' # disk
    <3>1. /\ disk.last.token # 0 /\ disk'.journal.manual
          /\ disk'.journal.token = disk.last.token /\ disk'.journal.from = disk.last.from
          /\ Head(todo') = "quarantine" => ~disk.last.restore
      BY <1>2, <2>4, RequestFiles
    <3>2. Head(todo') \in {"aside", "quarantine", "drop"}
      BY <1>2, <2>4, RequestWritten
    <3>3. Home = disk.active /\ disk.active \in {disk.last.from, disk.last.to}
      BY <2>1, <3>1 DEF Home, Homes
    <3>4. disk.last.token \in data.restored => data.live.schema <= Schema(disk.last.from)
      BY <2>2, <3>1, <3>3 DEF Undone, Fits
    <3>5. ~disk.last.restore => data.live.schema <= Schema(disk.last.from)
      <4>1. /\ disk.last.from \in Release /\ disk.last.to \in Release
        BY <1>0, <3>1 DEF Records, Disk, Journal
      <4>2. /\ Schema(disk.last.from) \in Nat /\ Schema(disk.last.to) \in Nat
            /\ data.live.schema \in Nat
        BY <4>1, SchemaFacts
      <4>3. ~disk.last.restore => ~(Schema(disk.last.to) > Schema(disk.last.from))
        BY <3>1 DEF Sounds, Sound
      <4> QED
        BY <2>2, <3>3, <4>2, <4>3 DEF Fits
    <3> QED
      BY <2>1, <2>2, <3>1, <3>2, <3>4, <3>5 DEF Fits, AtOneOf
  <2> QED
    BY <2>3, <2>4
<1>3. ASSUME NEW w \in Word, Filed(w) PROVE Fits'
  <2>0. /\ Pending /\ At(w) /\ OneWrite(w) /\ UNCHANGED <<host, launcher, used>>
        /\ todo' # <<>> => Head(todo') \in After(w)
        /\ disk'.opened = disk.opened /\ disk.journal.from # 0 /\ disk.journal.to # 0
    BY <1>0, <1>3, WhatWrites DEF Filed, OneWrite, Records
  <2>1. /\ data.live.schema \in Nat /\ \A t \in Token : data.snap[t].schema \in Nat
        /\ disk.journal.token \in Token /\ disk.active # 0
        /\ disk.journal.from \in Release /\ disk.journal.to \in Release
        /\ Schema(disk.journal.from) \in Nat /\ Schema(disk.journal.to) \in Nat
        /\ Schema(disk.journal.from) <= Schema(disk.journal.to)
        /\ data.live.schema <= Schema(disk.journal.to)
        /\ ~disk.journal.restore => data.live.schema <= Schema(disk.journal.from)
    BY <2>0, SchemaFacts
  <2>2. \/ data'.live.schema = data.live.schema /\ w # "copy"
        \/ data'.live.schema = data.live.schema /\ disk.journal.token \in data.restored
        \/ data'.live.schema = 0
        \/ data'.live.schema = data.snap[disk.journal.token].schema
    <3>1. Aside(disk.journal.token).live \in {data.live, Nothing}
      BY <1>0 DEF Aside, DataType
    <3>2. \/ Copied(disk.journal.token) = data /\ disk.journal.token \in data.restored
          \/ Copied(disk.journal.token).live = data.snap[disk.journal.token]
      BY <1>0 DEF Copied, DataType
    <3>3. w = "mark" => data'.live = data.live
      BY <1>0, <1>3 DEF Filed, DataType
    <3>4. w \notin {"aside", "copy", "mark"} => data' = data
      BY <1>3 DEF Filed
    <3>5. Nothing.schema = 0
      BY DEF Nothing
    <3> QED
      BY <1>3, <3>1, <3>2, <3>3, <3>4, <3>5 DEF Filed
  <2>3. data.snap[disk.journal.token].schema <= Schema(disk.journal.from)
    BY <2>0 DEF Sounds, Sound, Pending
  <2>4. data'.live.schema <= Schema(disk.journal.to)
    BY <2>1, <2>2, <2>3
  <2>5. data.live.schema <= Schema(disk.journal.from) \/ w = "copy"
          => data'.live.schema <= Schema(disk.journal.from)
    BY <2>0, <2>1, <2>2, <2>3 DEF Fits
  <2>6. data'.live.schema <= Schema(Selected)'
    <3>1. CASE w = "return"
      BY <2>0, <2>1, <2>5, <3>1 DEF OneWrite, Selected, Fits, At, AtOneOf
    <3>2. CASE w # "return" /\ disk'.active = disk.journal.to
      BY <2>0, <2>4, <3>2 DEF Selected
    <3>3. CASE w # "return" /\ disk'.active # disk.journal.to
      <4>1. disk'.active = disk.active /\ disk.active = disk.journal.from
        BY <2>0, <3>3 DEF OneWrite, Homes
      <4> QED
        BY <2>1, <2>5, <4>1 DEF Selected, Fits
    <3> QED
      BY <3>1, <3>2, <3>3
  <2>7. AtOneOf({"mark", "quarantine", "keep", "return"})'
          => data'.live.schema <= Schema(disk'.journal.from)
    <3>1. AtOneOf({"mark", "quarantine", "keep", "return"})'
            => w \in {"copy", "mark", "quarantine", "keep"}
      BY <2>0 DEF AtOneOf, After
    <3>2. CASE w \in {"copy", "mark", "quarantine", "keep"}
      <4>1. disk'.journal = disk.journal
        BY <2>0, <3>2 DEF OneWrite
      <4> QED
        BY <2>0, <2>5, <3>2, <4>1 DEF Fits, At, AtOneOf
    <3> QED
      BY <3>1, <3>2
  <2>8. CASE w \in {"close", "drop"}
    <3>1. ~Pending' /\ disk'.active # 0
      BY <2>0, <2>1, <2>8 DEF OneWrite, Pending, NoJournal
    <3> QED
      BY <2>6, <2>7, <3>1 DEF Fits
  <2>9. CASE w \notin {"close", "drop"}
    <3>1. disk'.journal = disk.journal /\ disk'.active # 0
      BY <1>0, <2>0, <2>1, <2>9 DEF OneWrite, Records, Pending
    <3>2. disk.journal.token \in data'.restored => data'.live.schema <= Schema(disk.journal.from)
      <4>1. CASE w = "mark"
        BY <2>0, <2>5, <4>1 DEF Fits, At, AtOneOf
      <4>2. CASE w # "mark"
        BY <1>3, <2>0, <2>5, <4>2, RestoredBy DEF Fits
      <4> QED
        BY <4>1, <4>2
    <3>3. ~disk.journal.manual /\ disk.opened # disk.journal.token
            => data'.live.schema <= Schema(disk.journal.from)
      BY <2>0, <2>5 DEF Fits
    <3> QED
      BY <2>0, <2>6, <2>7, <3>1, <3>2, <3>3 DEF Fits, Pending
  <2> QED
    BY <2>8, <2>9
<1>4. CASE Planning
  <2>1. /\ UNCHANGED <<disk, data>> /\ todo' # <<>>
        /\ host' = host \/ (host.at = "running" /\ host'.at = "stopping")
        /\ Head(todo') \notin {"mark", "keep", "return"}
    BY <1>4 DEF Planning
  <2>2. AtOneOf({"mark", "quarantine", "keep", "return"})'
          => data.live.schema <= Schema(disk.journal.from)
    <3>1. AtOneOf({"mark", "quarantine", "keep", "return"})' =>
            /\ Pending
            /\ \/ ~disk.journal.restore
               \/ ~disk.journal.manual /\ disk.opened # disk.journal.token
      BY <1>4, <2>1 DEF Planning, AtOneOf
    <3> QED
      BY <3>1, SchemaFacts DEF Fits
  <2> QED
    BY <2>1, <2>2 DEF Fits, Selected, Pending
<1>5. CASE Still
  BY <1>0, <1>5 DEF Still, Leaves, Fits, Selected, Pending, AtOneOf, Records
<1>6. CASE MarkOpened
  <2>1. /\ disk'.active = disk.active /\ disk'.journal = disk.journal /\ data' = data
        /\ disk'.opened = IF Pending THEN disk.journal.token ELSE disk.opened
        /\ host'.id = host.id /\ host.at = "boot" /\ todo' = <<>>
    BY <1>0, <1>6, Serves DEF MarkOpened, Disk, Types
  <2> QED
    BY <2>1 DEF Fits, Selected, Pending, AtOneOf
<1>7. CASE OpenData
  <2>1. /\ disk' = disk /\ host.at = "opening" /\ todo' = <<>> /\ host.id \in Release
        /\ host'.at = "running" /\ host'.id = host.id /\ disk.active \in {0, host.id}
        /\ ~disk.journal.manual
    BY <1>0, <1>7, Serves DEF OpenData, Types, Actors
  <2>2. /\ data'.live.schema = IF Schema(host.id) > data.live.schema THEN Schema(host.id)
                               ELSE data.live.schema
        /\ data'.restored = data.restored
    BY <1>0, <1>7 DEF OpenData, DataType, Content, Migrated
  <2>3. Selected = host.id /\ Selected' = host.id
    BY <2>1 DEF Selected, Fits
  <2>4. data'.live.schema <= Schema(host.id)
    BY <2>1, <2>2, <2>3, SchemaFacts DEF Fits
  <2>5. Pending => disk.opened = disk.journal.token
    BY <2>1 DEF Fits
  <2>6. Pending /\ disk.journal.token \in data.restored => host.id = disk.journal.from
    <3>1. ~Undoing /\ (Pending => disk.active = host.id)
      BY <1>0, <2>1 DEF Undoing, Records
    <3> QED
      BY <2>1, <3>1 DEF Undone
  <2> QED
    BY <2>1, <2>2, <2>3, <2>4, <2>5, <2>6 DEF Fits, Pending, AtOneOf
<1>8. CASE AddData
  <2>1. data'.live.schema = data.live.schema /\ data'.restored = data.restored
    BY <1>0, <1>8 DEF AddData, DataType, Content
  <2>2. UNCHANGED <<disk, host>> /\ todo' = <<>>
    BY <1>8, Serves DEF AddData
  <2> QED
    BY <2>1, <2>2 DEF Fits, Selected, Pending, AtOneOf
<1>9. ASSUME NEW v \in Release, Prepare(v) PROVE Fits'
  <2>1. /\ todo' = <<>> /\ Leaves /\ host.at = "running" /\ disk.active \in {0, host.id}
        /\ data' = data
    BY <1>9, Serves DEF Prepare, Free
  <2>2. /\ host'.at = "running" /\ host'.id = host.id /\ disk'.opened = disk.opened
        /\ disk'.active = host.id
    BY <1>0, <1>9, <2>1 DEF Prepare, Registered, Pruned, Disk, Types
  <2>3. Selected' = Selected /\ host.id # 0
    BY <1>0, <2>1, <2>2 DEF Selected, Fits, Actors
  <2> QED
    BY <2>1, <2>2, <2>3 DEF Leaves, Fits, Pending, AtOneOf
<1> QED
  BY <1>1, <1>2, <1>3, <1>4, <1>5, <1>6, <1>7, <1>8, <1>9, DataKinds

\* A release that runs reads the data it opened, also after a stop between any
\* two writes of an activation, a rollback or a restore, wherever the program
\* may stop for good (restoreRequired, restoreReleaseData).
THEOREM DataStaysReadable == Spec => []DataIsReadable
<1> DEFINE Inv == Base /\ Course /\ Restored /\ Kept /\ Homes /\ Fresh /\ Undone
                  /\ Sounds /\ Newer /\ Fits
<1>1. Init => Inv
  BY BaseInit, CourseInit, RestoredInit, KeptInit, HomesInit, UndoneInit, FitsInit
<1>2. Inv /\ [Next]_vars => Inv'
  <2> SUFFICES ASSUME Inv, [Next]_vars PROVE Inv'
    OBVIOUS
  <2>1. Base' /\ Restored'
    BY BaseStep, RestoredStep
  <2>2. Course' /\ Kept'
    BY <2>1, CourseStep, KeptStep
  <2>3. Homes' /\ Fresh' /\ Newer'
    BY <2>1, HomesStep, FreshStep, NewerStep
  <2>4. Undone' /\ Sounds' /\ Fits'
    BY <2>1, UndoneStep, SoundsStep, FitsStep
  <2> QED
    BY <2>1, <2>2, <2>3, <2>4
<1>3. Inv => DataIsReadable
  <2> SUFFICES ASSUME Inv, host.at = "running"
               PROVE  data.live.there /\ data.live.schema <= Schema(host.id)
    BY DEF DataIsReadable
  <2>1. data.live.there
    BY DEF Kept
  <2>2. Selected = host.id
    BY DEF Selected, Fits, Base, Actors
  <2> QED
    BY <2>1, <2>2 DEF Fits
<1> QED
  BY <1>1, <1>2, <1>3, PTL DEF Spec

(***************************************************************************)
(* The files that a rollback needs.  A slot is only removed when nothing   *)
(* names its release, and a snapshot when neither the pending nor the last *)
(* activation has it.  A request that is refused may name a release that   *)
(* was removed, so it must not be left behind; and after a confirmation    *)
(* that stopped between its first two writes the release to go back to and *)
(* the activation to undo are not of one another, see Offered.             *)
(***************************************************************************)
Stored ==
  /\ {disk.active, disk.bridge, disk.previous} \ {0} \subseteq disk.slots
  /\ Pending /\ ~At("drop") => {disk.journal.from, disk.journal.to} \subseteq disk.slots
  /\ \A j \in {disk.journal, disk.last} : j.restore => j.token \in disk.snapshots
  /\ host.prepared # 0 => host.prepared \in disk.slots

LEMMA StoredInit == Init => Stored
BY DEF Init, Stored, Pending, NoJournal, At

LEMMA StoredStep ==
  ASSUME "request" \notin Unresumed, Base, Base', Offered, Stored, [Next]_vars
  PROVE  Stored'
<1>0. Plans /\ Types /\ Records /\ Actors /\ disk \in Disk
  BY DEF Base, Types
<1>1. CASE WriteJournal
  <2>1. /\ disk'.slots = disk.slots /\ disk'.bridge = disk.bridge /\ disk'.last = disk.last
        /\ disk'.active = disk.active /\ disk'.previous = disk.previous /\ host' = host
        /\ disk'.journal.from = disk.active /\ disk'.journal.to = host.prepared
        /\ disk'.snapshots = disk.snapshots \cup {disk'.journal.token}
    BY <1>0, <1>1 DEF WriteJournal, Disk
  <2>2. disk.active # 0 /\ host.prepared # 0
    BY <1>0, <1>1, JournalWritten DEF Records, Actors
  <2> QED
    BY <2>1, <2>2 DEF Stored
<1>2. CASE WriteRequest
  <2>1. /\ disk'.slots = disk.slots /\ disk'.snapshots = disk.snapshots /\ host' = host
        /\ disk'.bridge = disk.bridge /\ disk'.previous = disk.previous
        /\ disk'.active = disk.active /\ disk'.last = disk.last /\ ~Pending
    BY <1>2, RequestFiles, RequestWritten
  <2>2. CASE disk' = disk
    BY <2>1, <2>2 DEF Stored, Pending
  <2>3. CASE disk' # disk
    <3>1. /\ disk'.journal.token = disk.last.token /\ disk'.journal.restore = disk.last.restore
          /\ disk'.journal.from = disk.last.from /\ disk'.journal.to = disk.last.to
          /\ Head(todo') \in {"aside", "quarantine"} => disk.active = disk.last.to
      BY <1>2, <2>3, RequestFiles
    <3>2. todo' # <<>> /\ Head(todo') \in {"aside", "quarantine", "drop"}
      BY <1>2, <2>3, RequestWritten
    <3>3. disk.previous # 0 /\ disk.previous = disk.last.from /\ disk.active # 0
      BY <1>0, <1>2, RequestWritten DEF Offered, At, Records
    <3> QED
      BY <2>1, <3>1, <3>2, <3>3 DEF Stored, At
  <2> QED
    BY <2>2, <2>3
<1>3. ASSUME NEW w \in Word, Filed(w) PROVE Stored'
  <2>0. /\ Pending /\ At(w) /\ OneWrite(w) /\ host' = host
        /\ disk'.slots = disk.slots /\ disk'.snapshots = disk.snapshots
    BY <1>3, WhatWrites DEF Filed, OneWrite
  <2>1. /\ disk'.journal \in {disk.journal, NoJournal} /\ disk'.last \in {disk.last, disk.journal}
        /\ w = "drop" => disk'.journal = NoJournal
    BY <2>0 DEF OneWrite
  <2>2. w # "drop" => {disk.journal.from, disk.journal.to} \subseteq disk.slots
    BY <2>0 DEF Stored, At
  <2>3. {disk'.active, disk'.bridge, disk'.previous} \subseteq
          {disk.active, disk.bridge, disk.previous, 0}
            \cup (IF w = "drop" THEN {} ELSE {disk.journal.from, disk.journal.to})
    BY <1>3, <2>0 DEF Filed, OneWrite
  <2>4. \A j \in {disk'.journal, disk'.last} : j.restore => j.token \in disk'.snapshots
    BY <2>0, <2>1 DEF Stored, NoJournal
  <2>5. Pending' => {disk'.journal.from, disk'.journal.to} \subseteq disk'.slots
    BY <2>0, <2>1, <2>2 DEF Pending, NoJournal
  <2>6. {disk'.active, disk'.bridge, disk'.previous} \ {0} \subseteq disk'.slots
    BY <2>0, <2>2, <2>3 DEF Stored
  <2> QED
    BY <2>0, <2>4, <2>5, <2>6 DEF Stored
<1>4. CASE Planning
  BY <1>4 DEF Planning, Stored, Pending, At
<1>5. CASE Still
  <2>1. At("drop") => At("drop")'
    BY <1>5 DEF Still, Interruptible, Place, At, AtOneOf
  <2> QED
    BY <1>5, <2>1 DEF Still, Leaves, Stored, Pending
<1>6. CASE MarkOpened \/ OpenData \/ AddData
  <2>1. /\ disk'.slots = disk.slots /\ disk'.snapshots = disk.snapshots
        /\ disk'.bridge = disk.bridge /\ disk'.previous = disk.previous
        /\ disk'.active = disk.active /\ disk'.last = disk.last
        /\ disk'.journal = disk.journal /\ host'.prepared = host.prepared
    BY <1>0, <1>6 DEF MarkOpened, OpenData, AddData, Disk, Types
  <2>2. todo = <<>>
    BY <1>6, Serves
  <2> QED
    BY <2>1, <2>2 DEF Stored, Pending, At
<1>7. ASSUME NEW v \in Release, Prepare(v) PROVE Stored'
  <2>1. todo = <<>> /\ host'.prepared = v
    BY <1>0, <1>7, Serves DEF Prepare, Types
  <2> DEFINE store == Registered(disk)
  <2>2. /\ store \in Disk /\ store.journal = disk.journal /\ store.last = disk.last
        /\ store.previous = disk.previous /\ store.snapshots = disk.snapshots
        /\ {store.active, store.bridge, store.previous} \ {0} \subseteq store.slots
        /\ disk.slots \subseteq store.slots
    <3>1. host.id \in Release
      BY <1>0, <1>7 DEF Prepare, Free, Types, Actors
    <3> QED
      BY <1>0, <3>1 DEF Registered, Disk, Stored
  <2>3. disk' = [Pruned(store) EXCEPT !.slots = @ \cup {v}]
    BY <1>7 DEF Prepare
  <2> HIDE DEF store
  <2>4. /\ disk'.slots = (store.slots \cap (Retained(store) \cup store.kept)) \cup {v}
        /\ disk'.snapshots = store.snapshots \cap {store.last.token, store.journal.token}
        /\ disk'.active = store.active /\ disk'.bridge = store.bridge
        /\ disk'.previous = store.previous /\ disk'.journal = store.journal
        /\ disk'.last = store.last
    BY <2>2, <2>3 DEF Pruned, Disk
  <2>5. Pending => {disk.journal.from, disk.journal.to} \subseteq disk.slots
    BY <2>1 DEF Stored, At
  <2>6. {disk'.active, disk'.bridge, disk'.previous} \ {0} \subseteq disk'.slots
    BY <2>2, <2>4 DEF Retained
  <2>7. Pending' => {disk'.journal.from, disk'.journal.to} \subseteq disk'.slots
    BY <2>2, <2>4, <2>5 DEF Retained, Pending
  <2>8. \A j \in {disk'.journal, disk'.last} : j.restore => j.token \in disk'.snapshots
    BY <2>2, <2>4 DEF Stored
  <2> QED
    BY <2>1, <2>4, <2>6, <2>7, <2>8 DEF Stored
<1> QED
  BY <1>1, <1>2, <1>3, <1>4, <1>5, <1>6, <1>7, DataKinds

\* Cleanup never removes a release or a snapshot that a rollback still needs,
\* where no confirmation stops between its first two writes and no refused
\* request is left behind (prune of release-store.ts).
THEOREM RollbackStaysPossible ==
  ASSUME {"confirm", "request"} \cap Unresumed = {}
  PROVE  Spec => []RollbackIsPossible
<1>1. "confirm" \notin Unresumed /\ "request" \notin Unresumed
  OBVIOUS
<1> DEFINE Inv == Base /\ Offered /\ Stored
<1>2. Init => Inv
  BY BaseInit, OfferedInit, StoredInit
<1>3. Inv /\ [Next]_vars => Inv'
  BY <1>1, BaseStep, OfferedStep, StoredStep
<1>4. Inv => RollbackIsPossible
  BY DEF Stored, RollbackIsPossible, At
<1> QED
  BY <1>2, <1>3, <1>4, PTL DEF Spec
=============================================================================

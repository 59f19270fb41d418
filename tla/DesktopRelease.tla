----------------------------- MODULE DesktopRelease -----------------------------
(***************************************************************************)
(* How the Wework desktop application changes its release: the files of    *)
(* the release store, each written on its own, the application that        *)
(* installs a release or asks to roll one back, the stable entry that      *)
(* resumes what was interrupted, and the native launcher that tries a new  *)
(* release for a minute.  The machine may stop between any two writes.     *)
(*                                                                         *)
(* The operations of the store are lists of writes, kept in todo; each     *)
(* write is an action.  A release is named by its version.                 *)
(***************************************************************************)
EXTENDS Naturals, Sequences, FiniteSets

CONSTANTS
  Versions,       \* number of versions; version 1 is installed
  Breaking,       \* the versions that change the schema of the data
  Unresumed,      \* the places where the program may stop although nothing makes
                  \*   up for it and more than the journal stays: "confirm", "request"
  MaxActivations, \* bound: activations, which are also tokens and snapshots
  MaxWrites,      \* bound: data that the user adds
  MaxStops,       \* bound: stops of the whole machine
  MaxQuits        \* bound: refusals to restore the data

ASSUME ReleaseAssumption ==
  /\ Versions \in Nat \ {0} /\ Breaking \subseteq 2..Versions
  /\ Unresumed \subseteq {"confirm", "request"}
  /\ MaxActivations \in Nat /\ MaxWrites \in Nat /\ MaxStops \in Nat /\ MaxQuits \in Nat

VARIABLES
  disk,     \* the release store
  data,     \* the application's data, its snapshots and what restores put aside
  host,     \* the application that runs
  launcher, \* the native launcher
  shell,    \* the stable entry, before it hands over to the launcher
  todo,     \* the writes that the application or the entry still has to do
  used      \* how much of each bound is used; the tokens whose target was started

vars == <<disk, data, host, launcher, shell, todo, used>>

Release == 1..Versions
Token   == 1..MaxActivations
Schema(v) == Cardinality({b \in Breaking : b <= v})

NoJournal == [token |-> 0, from |-> 0, to |-> 0, restore |-> FALSE, manual |-> FALSE]
Nothing   == [there |-> FALSE, schema |-> 0, writes |-> {}]
NoHost    == [id |-> 0, at |-> "none", prepared |-> 0]
Idle      == [at |-> "none", token |-> 0]

Init ==
  /\ disk = [active |-> 0, bridge |-> 0, previous |-> 0, last |-> NoJournal,
             journal |-> NoJournal, trial |-> 0, attempted |-> 0, failed |-> 0,
             healthy |-> 0, opened |-> 0, quarantine |-> {}, slots |-> {},
             snapshots |-> {}, kept |-> {}]
  /\ data = [live |-> [there |-> TRUE, schema |-> Schema(1), writes |-> {}],
             snap |-> [t \in Token |-> Nothing], aside |-> [t \in Token |-> Nothing],
             restored |-> {}]
  /\ host = [id |-> 1, at |-> "running", prepared |-> 0]
  /\ launcher = Idle /\ shell = "none" /\ todo = <<>>
  /\ used = [activations |-> 0, writes |-> 0, stops |-> 0, quits |-> 0, started |-> {}]

Pending == disk.journal.token # 0

(***************************************************************************)
(* The operations as lists of writes.  "restart" and "launch" hand over to *)
(* the stable entry and to the launcher.                                   *)
(***************************************************************************)
Activate == <<"journal", "trial", "select", "restart">>
Restore  == <<"aside", "copy", "mark">>
Rollback == <<"quarantine", "keep", "return", "rebridge", "forget",
              "untrial", "unfail", "close">>

\* Mutant: the activation to undo is recorded last.
ConfirmBeforeLast == <<"previous", "bridge", "healthy", "last", "untrial", "unfail", "close">>

Confirm == <<"previous", "last", "bridge", "healthy", "untrial", "unfail", "close">>

\* Mutant: the data is restored once the release is back.
RollbackThenRestore(journal) ==
  Rollback \o IF journal.restore THEN Restore ELSE <<>>

RestoreAndRollback(journal) ==
  (IF journal.restore THEN Restore ELSE <<>>) \o Rollback

Doing(write) == todo # <<>> /\ Head(todo) = write /\ todo' = Tail(todo)

Write(write, store) ==
  /\ Doing(write) /\ disk' = store
  /\ UNCHANGED <<data, host, launcher, shell, used>>

\* install: the snapshot is complete before activate writes the journal.
WriteJournal ==
  LET token == used.activations + 1
      restore == Schema(host.prepared) > Schema(disk.active)
  IN /\ Doing("journal")
     /\ disk' = [disk EXCEPT !.snapshots = @ \cup {token},
                   !.journal = [token |-> token, from |-> disk.active, to |-> host.prepared,
                                restore |-> restore, manual |-> FALSE]]
     /\ data' = [data EXCEPT !.snap[token] = data.live]
     /\ used' = [used EXCEPT !.activations = token]
     /\ UNCHANGED <<host, launcher, shell>>

WriteTrial  == Write("trial", [disk EXCEPT !.trial = disk.journal.token])
WriteSelect == Write("select", [disk EXCEPT !.active = disk.journal.to])

WritePrevious == Write("previous", [disk EXCEPT !.previous = disk.journal.from])
WriteLast     == Write("last", [disk EXCEPT !.last = disk.journal])
WriteBridge   == Write("bridge", [disk EXCEPT !.bridge = disk.journal.to])
WriteHealthy  == Write("healthy", [disk EXCEPT !.healthy = disk.journal.token])

\* rollback reads both releases before it writes.
WriteQuarantine ==
  /\ {disk.journal.from, disk.journal.to} \subseteq disk.slots
  /\ Write("quarantine", [disk EXCEPT !.quarantine = @ \cup {disk.journal.to}])

WriteKeep ==
  Write("keep", IF disk.journal.restore /\ disk.opened = disk.journal.token
                THEN [disk EXCEPT !.kept = @ \cup {disk.journal.to}] ELSE disk)

WriteReturn   == Write("return", [disk EXCEPT !.active = disk.journal.from])
WriteRebridge == Write("rebridge", [disk EXCEPT !.bridge = disk.journal.from])

WriteForget ==
  Write("forget", IF disk.journal.manual THEN [disk EXCEPT !.previous = 0] ELSE disk)

RemoveTrial   == Write("untrial", [disk EXCEPT !.trial = 0])
RemoveFailed  == Write("unfail", [disk EXCEPT !.failed = 0])
RemoveJournal == Write("close", [disk EXCEPT !.journal = NoJournal])
RemoveRequest == Write("drop", [disk EXCEPT !.journal = NoJournal])

\* beginRollback: the last activation becomes the journal again; an active
\* release that is not its target takes it back, and without a last activation
\* there is nothing to do.
WriteRequest ==
  /\ todo # <<>> /\ Head(todo) = "request"
  /\ disk' = IF disk.last.token = 0 THEN disk
             ELSE [disk EXCEPT !.journal = [disk.last EXCEPT !.manual = TRUE]]
  /\ todo' = (IF disk.last.token = 0 THEN <<>>
              ELSE IF disk.active = disk.last.to THEN RestoreAndRollback(disk.last)
              ELSE <<"drop">>) \o <<"restart">>
  /\ UNCHANGED <<data, host, launcher, shell, used>>

(***************************************************************************)
(* restoreReleaseData.  A restore that was interrupted goes on where it    *)
(* stopped, and one that is complete is not repeated.                      *)
(***************************************************************************)
\* Mutant: what was put aside is not looked for.
AsideAgain(token) ==
  IF token \in data.restored \/ ~data.live.there THEN data
  ELSE [data EXCEPT !.aside[token] = data.live, !.live = Nothing]

Aside(token) ==
  IF token \in data.restored \/ ~data.live.there \/ data.aside[token].there THEN data
  ELSE [data EXCEPT !.aside[token] = data.live, !.live = Nothing]

Copied(token) ==
  IF token \in data.restored THEN data ELSE [data EXCEPT !.live = data.snap[token]]

Restoring(write, next) ==
  /\ Doing(write) /\ disk.journal.token \in disk.snapshots
  /\ data' = next
  /\ UNCHANGED <<disk, host, launcher, shell, used>>

PutAside     == Restoring("aside", Aside(disk.journal.token))
CopySnapshot == Restoring("copy", Copied(disk.journal.token))
MarkRestored == Restoring("mark", [data EXCEPT !.restored = @ \cup {disk.journal.token}])

(***************************************************************************)
(* The program may stop between any two writes.  Two of these stops are    *)
(* admitted by Unresumed only: in a confirmation between the release to go *)
(* back to and the activation to undo, and before a refused request is     *)
(* removed.                                                                *)
(***************************************************************************)
Place ==
  CASE Head(todo) = "drop" -> {"request"}
    [] Head(todo) = "last" /\ disk.healthy # disk.journal.token -> {"confirm"}
    [] OTHER -> {}

Interruptible == todo # <<>> => Place \subseteq Unresumed

(***************************************************************************)
(* The application.                                                        *)
(***************************************************************************)
Free == host.at = "running" /\ todo = <<>>

\* A supervised release marks the pending activation before it opens the data.
MarkOpened ==
  /\ host.at = "boot"
  /\ disk' = IF Pending THEN [disk EXCEPT !.opened = disk.journal.token] ELSE disk
  /\ host' = [host EXCEPT !.at = "opening"]
  /\ UNCHANGED <<data, launcher, shell, todo, used>>

\* Mutant: every start migrates.
MigratedAgain(content) == [content EXCEPT !.there = TRUE, !.schema = @ + 1]

\* A release migrates the data that is older than it.
Migrated(content) ==
  [content EXCEPT !.there = TRUE,
                  !.schema = IF Schema(host.id) > @ THEN Schema(host.id) ELSE @]

OpenData ==
  /\ host.at = "opening"
  /\ data' = [data EXCEPT !.live = Migrated(@)]
  /\ host' = [host EXCEPT !.at = "running"]
  /\ UNCHANGED <<disk, launcher, shell, todo, used>>

AddData ==
  /\ Free /\ used.writes < MaxWrites
  /\ data' = [data EXCEPT !.live.writes = @ \cup {used.writes + 1}]
  /\ used' = [used EXCEPT !.writes = @ + 1]
  /\ UNCHANGED <<disk, host, launcher, shell, todo>>

\* The runtime and the renderer are ready: startup.succeeded confirms.
BecomeReady ==
  /\ Free /\ Pending /\ disk.journal.to = host.id /\ disk.active = host.id
  /\ todo' = Confirm
  /\ UNCHANGED <<disk, data, host, launcher, shell, used>>

\* Mutant: only the releases in use are retained.
RetainedInUse(store) == {store.active, store.bridge, store.journal.from, store.journal.to}

Retained(store) == {store.active, store.previous, store.bridge,
                    store.journal.from, store.journal.to}

Pruned(store) ==
  [store EXCEPT !.slots = @ \cap (Retained(store) \cup store.kept),
                !.snapshots = @ \cap {store.last.token, store.journal.token}]

Registered(store) ==
  IF store.active # 0 THEN store
  ELSE [store EXCEPT !.active = host.id, !.bridge = host.id, !.slots = @ \cup {host.id}]

\* prepare: the running release is registered, the store pruned, a slot filled.
Prepare(v) ==
  /\ Free /\ v > host.id /\ v \notin disk.quarantine /\ host.prepared # v
  /\ LET pruned == Pruned(Registered(disk))
     IN disk' = [pruned EXCEPT !.slots = @ \cup {v}]
  /\ host' = [host EXCEPT !.prepared = v]
  /\ UNCHANGED <<data, launcher, shell, todo, used>>

\* install: the writers stop, then activate refuses a pending activation and
\* the application restarts either way.  A trial is over before one is ready.
Install ==
  /\ Free /\ launcher = Idle /\ host.prepared # 0 /\ used.activations < MaxActivations
  /\ host' = [host EXCEPT !.at = "stopping"]
  /\ todo' = IF Pending THEN <<"restart">> ELSE Activate
  /\ UNCHANGED <<disk, data, launcher, shell, used>>

\* createRollbackAction, confirmed by the user.
RequestRollback ==
  /\ Free /\ launcher = Idle /\ disk.previous # 0
  /\ host' = [host EXCEPT !.at = "stopping"]
  /\ todo' = IF Pending THEN <<"restart">> ELSE <<"request">>
  /\ UNCHANGED <<disk, data, launcher, shell, used>>

Restart ==
  /\ Doing("restart")
  /\ host' = NoHost /\ shell' = "route"
  /\ UNCHANGED <<disk, data, launcher, used>>

\* The user quits or the application fails, also while it confirms.
Exit ==
  /\ host.at \in {"boot", "opening", "running"} /\ Interruptible
  /\ host' = NoHost /\ todo' = <<>>
  /\ UNCHANGED <<disk, data, launcher, shell, used>>

(***************************************************************************)
(* The stable entry: launchSelectedRelease.                                *)
(***************************************************************************)
\* The user starts the application.  Without a store the installed one runs.
StartUp ==
  /\ host.at = "none" /\ launcher = Idle /\ shell = "none"
  /\ IF disk.active = 0 THEN host' = [NoHost EXCEPT !.id = 1, !.at = "opening"] /\ UNCHANGED shell
     ELSE shell' = "route" /\ UNCHANGED host
  /\ UNCHANGED <<disk, data, launcher, todo, used>>

\* Mutant: a failure counts more than health.
JudgedByFailure(journal) ==
  IF disk.attempted # journal.token THEN "open"
  ELSE IF disk.failed = journal.token THEN "failed"
  ELSE IF disk.healthy = journal.token THEN "healthy" ELSE "open"

\* Mutant: health is not looked for.
JudgedWithoutHealth(journal) ==
  IF disk.attempted = journal.token /\ disk.failed = journal.token THEN "failed" ELSE "open"

\* The journal's outcome, as the entry reads it from the markers.
Judged(journal) ==
  IF disk.attempted # journal.token THEN "open"
  ELSE IF disk.healthy = journal.token THEN "healthy"
  ELSE IF disk.failed = journal.token THEN "failed" ELSE "open"

Resume(writes) ==
  /\ shell' = "working" /\ todo' = writes \o <<"launch">>
  /\ UNCHANGED <<disk, data, host, launcher, used>>

ResumeRollback ==
  /\ shell = "route" /\ Pending /\ disk.journal.manual
  /\ Resume(RestoreAndRollback(disk.journal))

ResumeConfirmation ==
  /\ shell = "route" /\ Pending /\ ~disk.journal.manual /\ Judged(disk.journal) = "healthy"
  /\ Resume(Confirm)

Failure == Pending /\ ~disk.journal.manual /\ Judged(disk.journal) = "failed"
MustRestore == disk.journal.restore /\ disk.opened = disk.journal.token

RollBackFailure == shell = "route" /\ Failure /\ ~MustRestore /\ Resume(Rollback)

\* The user is asked before the data is restored, and may quit instead.
ConsentToRestore ==
  shell = "route" /\ Failure /\ MustRestore /\ Resume(RestoreAndRollback(disk.journal))

QuitInstead ==
  /\ shell = "route" /\ Failure /\ MustRestore /\ used.quits < MaxQuits
  /\ shell' = "none" /\ used' = [used EXCEPT !.quits = @ + 1]
  /\ UNCHANGED <<disk, data, host, launcher, todo>>

NothingToResume ==
  /\ shell = "route"
  /\ Pending => ~disk.journal.manual /\ Judged(disk.journal) = "open"
  /\ shell' = "none" /\ launcher' = [Idle EXCEPT !.at = "decide"]
  /\ UNCHANGED <<disk, data, host, todo, used>>

Launch ==
  /\ Doing("launch")
  /\ shell' = "none" /\ launcher' = [Idle EXCEPT !.at = "decide"]
  /\ UNCHANGED <<disk, data, host, used>>

(***************************************************************************)
(* The native launcher.  It remembers the token it tries.                  *)
(***************************************************************************)
Spawned == [NoHost EXCEPT !.id = disk.active, !.at = "boot"]

LaunchPlainly ==
  /\ launcher.at = "decide" /\ disk.trial = 0
  /\ launcher' = Idle /\ host' = Spawned
  /\ UNCHANGED <<disk, data, shell, todo, used>>

\* Mutant: an attempt is not remembered.
AttemptForgotten(token) == FALSE

Attempted(token) == disk.attempted = token /\ disk.healthy # token

\* An attempt without an end is recovered, never repeated.
RefuseSecondTrial ==
  /\ launcher.at = "decide" /\ disk.trial # 0 /\ Attempted(disk.trial)
  /\ launcher' = [at |-> "recover", token |-> disk.trial]
  /\ UNCHANGED <<disk, data, host, shell, todo, used>>

BeginTrial ==
  /\ launcher.at = "decide" /\ disk.trial # 0 /\ ~Attempted(disk.trial)
  /\ disk' = [disk EXCEPT !.attempted = disk.trial]
  /\ launcher' = [at |-> "armed", token |-> disk.trial]
  /\ UNCHANGED <<data, host, shell, todo, used>>

SpawnTrial ==
  /\ launcher.at = "armed"
  /\ launcher' = [launcher EXCEPT !.at = "watch"] /\ host' = Spawned
  /\ used' = IF disk.active # disk.journal.to THEN used
             ELSE [used EXCEPT !.started = @ \cup {launcher.token}]
  /\ UNCHANGED <<disk, data, shell, todo>>

SpawnFails ==
  /\ launcher.at = "armed" /\ launcher' = [launcher EXCEPT !.at = "recover"]
  /\ UNCHANGED <<disk, data, host, shell, todo, used>>

SeeHealthy ==
  /\ launcher.at = "watch" /\ disk.healthy = launcher.token
  /\ launcher' = Idle
  /\ UNCHANGED <<disk, data, host, shell, todo, used>>

\* The target exited, or its minute is over and it was last seen not healthy.
GiveUp ==
  /\ launcher.at = "watch" /\ disk.healthy # launcher.token
  /\ launcher' = [launcher EXCEPT !.at = "kill"]
  /\ UNCHANGED <<disk, data, host, shell, todo, used>>

\* terminate_runtime_tree; until then the target may still confirm.
KillTarget ==
  /\ launcher.at = "kill" /\ Interruptible
  /\ host' = NoHost /\ todo' = <<>> /\ launcher' = [launcher EXCEPT !.at = "recover"]
  /\ UNCHANGED <<disk, data, shell, used>>

\* recover: the failure is written and the entry of the healthy release started.
Recover ==
  /\ launcher.at = "recover"
  /\ disk' = [disk EXCEPT !.failed = launcher.token]
  /\ launcher' = Idle /\ shell' = "route"
  /\ UNCHANGED <<data, host, todo, used>>

(***************************************************************************)
(* The whole machine stops, for instance without power.                    *)
(***************************************************************************)
PowerLoss ==
  /\ used.stops < MaxStops
  /\ Interruptible
  /\ host' = NoHost /\ launcher' = Idle /\ shell' = "none" /\ todo' = <<>>
  /\ used' = [used EXCEPT !.stops = @ + 1]
  /\ UNCHANGED <<disk, data>>

-----------------------------------------------------------------------------
Store == \/ WriteJournal \/ WriteTrial \/ WriteSelect
         \/ WritePrevious \/ WriteLast \/ WriteBridge \/ WriteHealthy
         \/ WriteQuarantine \/ WriteKeep \/ WriteReturn \/ WriteRebridge \/ WriteForget
         \/ RemoveTrial \/ RemoveFailed \/ RemoveJournal \/ RemoveRequest \/ WriteRequest
         \/ PutAside \/ CopySnapshot \/ MarkRestored

Entry == \/ ResumeRollback \/ ResumeConfirmation \/ RollBackFailure \/ ConsentToRestore
         \/ NothingToResume \/ Launch \/ Restart

Launcher == \/ LaunchPlainly \/ RefuseSecondTrial \/ BeginTrial \/ SpawnTrial
            \/ SeeHealthy \/ GiveUp \/ KillTarget \/ Recover

Application == MarkOpened \/ OpenData \/ BecomeReady

User == \/ StartUp \/ AddData \/ Install \/ RequestRollback \/ QuitInstead
        \/ \E v \in Release : Prepare(v)

Failures == Exit \/ SpawnFails \/ PowerLoss

Next == Store \/ Entry \/ Launcher \/ Application \/ User \/ Failures

Spec == Init /\ [][Next]_vars

\* Programs that run go on, a minute ends, and the user starts the application
\* again.  Nothing is promised of readiness: a release may never become healthy.
Fairness ==
  WF_vars(Store) /\ WF_vars(Entry) /\ WF_vars(Launcher) /\ WF_vars(StartUp)

FairSpec == Spec /\ Fairness

-----------------------------------------------------------------------------
Content == [there : BOOLEAN, schema : 0..Cardinality(Breaking), writes : SUBSET (1..MaxWrites)]
Journal == [token : {0} \cup Token, from : {0} \cup Release, to : {0} \cup Release,
            restore : BOOLEAN, manual : BOOLEAN]

\* Every variable keeps its kind.
TypeOK ==
  /\ disk.active \in {0} \cup Release /\ disk.bridge \in {0} \cup Release
  /\ disk.previous \in {0} \cup Release /\ {disk.journal, disk.last} \subseteq Journal
  /\ {disk.trial, disk.attempted, disk.failed, disk.healthy, disk.opened}
       \subseteq {0} \cup Token
  /\ disk.slots \subseteq Release /\ disk.kept \subseteq Release
  /\ disk.quarantine \subseteq Release /\ disk.snapshots \subseteq Token
  /\ data.live \in Content /\ data.restored \subseteq Token
  /\ host.at \in {"none", "boot", "opening", "running", "stopping"}
  /\ launcher.at \in {"none", "decide", "armed", "watch", "kill", "recover"}
  /\ shell \in {"none", "route", "working"}

\* A release that runs reads the data it opened, also after a stop between any
\* two writes of an activation, a rollback or a restore (restoreRequired).
DataIsReadable ==
  host.at = "running" => data.live.there /\ data.live.schema <= Schema(host.id)

\* What the user added is in the live data or was put aside, whatever was
\* restored, interrupted and restored again (restoreReleaseData).
NothingIsLost ==
  1..used.writes \subseteq
    data.live.writes \cup UNION {data.aside[t].writes : t \in Token}

\* Cleanup never removes a release or a snapshot that a rollback still needs,
\* the one asked for included, unless the rollback was refused.
RollbackIsPossible ==
  /\ {disk.active, disk.bridge, disk.previous} \ {0} \subseteq disk.slots
  /\ Pending /\ (todo # <<>> => Head(todo) # "drop")
       => {disk.journal.from, disk.journal.to} \subseteq disk.slots
  /\ \A j \in {disk.journal} \cup (IF disk.previous = 0 THEN {} ELSE {disk.last}) :
       j.restore => j.token \in disk.snapshots

\* A rollback that the user asked for goes to the release that was offered, and
\* so restores the data only after it was confirmed: "Rollback restores the
\* previous healthy local release" (wework-upgrades.md), also when a
\* confirmation was interrupted and its release rolled back.
RollbackIsAsOffered ==
  [][disk'.journal.manual /\ ~disk.journal.manual /\ Head(todo') # "drop"
     => disk'.journal.from = disk.previous]_vars

\* The target of an activation is started on trial once: "enters recovery
\* without an automatic restart loop" (wework-upgrades.md).
TriedOnce ==
  [][host.at = "none" /\ host'.at = "boot" /\ disk.journal.to = host'.id
       /\ disk.healthy # disk.journal.token
     => disk.journal.token \notin used.started]_vars

\* A release that confirmed its health is only left at the user's request, even
\* when its minute ended while it confirmed.
HealthyStays ==
  [][disk'.active # disk.active /\ disk'.active = disk.journal.from /\ Pending
     => disk.journal.manual \/ disk.healthy # disk.journal.token]_vars

\* A journal that no program resumes: the release it left is in use, and
\* neither the trial nor an outcome is left on disk.  The program stopped
\* between the journal and the trial of activate, or between the last two
\* removals of finishActivation after a failed trial.
Stranded ==
  /\ Pending /\ todo = <<>> /\ ~disk.journal.manual /\ disk.active = disk.journal.from
  /\ disk.journal.token \notin {disk.trial, disk.failed, disk.healthy}

\* An activation, a rollback and their interrupted forms end (resolveActivation,
\* finishActivation), or a stop leaves the release they started from in use with
\* a journal alone, which refuses every later installation.
ActivationEnds == Pending ~> ~Pending \/ Stranded
=============================================================================

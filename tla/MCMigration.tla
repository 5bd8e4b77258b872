------------------------------ MODULE MCMigration ------------------------------
(***************************************************************************)
(* Moving a subject, for TLC: the source's cutover, with the target as the *)
(* source sees it, and the root controller of a target host. The two meet  *)
(* only in messages, which each side's environment makes free, so each     *)
(* behaviour exercises one of them, in one of the scenes below.            *)
(***************************************************************************)
EXTENDS Integers, Sequences, FiniteSets

CONSTANT Scenes  \* the scenes of the run
CONSTANTS NoTask, NoLease  \* model values

VARIABLES
  scene,
  task, srcEpoch, link, manifest, epochs, epochTask, version, life, gate, up, crashes,
  op, writes, worker, net, target, snap, copy,
  main, wal, tree, ver, hostUp, wanted, dropin, current, marker, journal, rolldir,
  roots, hostOp, pend, status, batch, hostWrites, faults, hostCrashes, requests

source == <<task, srcEpoch, link, manifest, epochs, epochTask, version, life, gate, up,
  crashes, op, writes, worker, net, target, snap, copy>>
host == <<main, wal, tree, ver, hostUp, wanted, dropin, current, marker, journal,
  rolldir, roots, hostOp, pend, status, batch, hostWrites, faults, hostCrashes,
  requests>>
vars == <<scene, source, host>>

\* Two tasks are moved and rolled back by two threads.
Run == INSTANCE Cutover WITH
  Tasks <- {1, 2}, Workers <- {"w1", "w2"}, Paths <- {"run", "rollback"},
  MaxEpochs <- 2, MaxVersion <- 2, MaxWrites <- 1, MaxGate <- 3, MaxCrashes <- 0

\* One task is moved and rolled back, and the source crashes.
Crash == INSTANCE Cutover WITH
  Tasks <- {1}, Workers <- {"w1", "w2"}, Paths <- {"run", "rollback"}, MaxEpochs <- 2,
  MaxVersion <- 3, MaxWrites <- 2, MaxGate <- 5, MaxCrashes <- 1

\* Every control on one task, with the emergency recovery of a standby.
All == INSTANCE Cutover WITH
  Tasks <- {1}, Workers <- {"w1", "w2"}, Paths <- {"run", "proof", "recover",
  "rollback"}, MaxEpochs <- 2, MaxVersion <- 2, MaxWrites <- 1, MaxGate <- 3,
  MaxCrashes <- 1

\* One thread moves and rolls back two tasks; requests and replies are lost.
Resolves == INSTANCE Cutover WITH
  Tasks <- {1, 2}, Workers <- {"w1"}, Paths <- {"run", "rollback"}, MaxEpochs <- 2,
  MaxVersion <- 2, MaxWrites <- 1, MaxGate <- 4, MaxCrashes <- 0

\* One task is activated and deactivated; a step fails and the controller or the
\* host crashes while the service writes.
Activation == INSTANCE TargetActivation WITH
  NTasks <- 1, MaxWrites <- 1, MaxFaults <- 1, MaxCrashes <- 1, MaxRequests <- 3,
  up <- hostUp, op <- hostOp, writes <- hostWrites, crashes <- hostCrashes

\* Two tasks take turns on one host, with a crash.
Switch == INSTANCE TargetActivation WITH
  NTasks <- 2, MaxWrites <- 0, MaxFaults <- 0, MaxCrashes <- 1, MaxRequests <- 3,
  up <- hostUp, op <- hostOp, writes <- hostWrites, crashes <- hostCrashes

\* A switch that is interrupted three times.
Returns == INSTANCE TargetActivation WITH
  NTasks <- 1, MaxWrites <- 0, MaxFaults <- 1, MaxCrashes <- 2, MaxRequests <- 2,
  up <- hostUp, op <- hostOp, writes <- hostWrites, crashes <- hostCrashes

------------------------------------------------------------------------------
\* Every component starts; only the one the scene is about takes steps.
Init ==
  /\ scene \in Scenes
  /\ CASE scene = "run" -> Run!Init
       [] scene = "crash" -> Crash!Init
       [] scene = "all" -> All!Init
       [] OTHER -> Resolves!Init
  /\ CASE scene = "activation" -> Activation!Init
       [] scene = "switch" -> Switch!Init
       [] OTHER -> Returns!Init

Next ==
  /\ \/ /\ \/ scene = "run" /\ Run!Next
           \/ scene = "crash" /\ Crash!Next
           \/ scene = "all" /\ All!Next
           \/ scene = "resolves" /\ Resolves!Next
        /\ UNCHANGED <<host>>
     \/ /\ \/ scene = "activation" /\ Activation!Next
           \/ scene = "switch" /\ Switch!Next
           \/ scene = "returns" /\ Returns!Next
        /\ UNCHANGED <<source>>
  /\ UNCHANGED scene

ResolvesDoes(A) == scene = "resolves" /\ A /\ UNCHANGED <<scene, host>>

ReturnsDoes(A) == scene = "returns" /\ A /\ UNCHANGED <<scene, source>>

\* The fairness each component justifies for itself.
Spec == /\ Init /\ [][Next]_vars
        /\ WF_vars(ResolvesDoes(Resolves!OpCheck))
        /\ WF_vars(ResolvesDoes(Resolves!OpCommit))
        /\ WF_vars(ResolvesDoes(Resolves!OpFinish))
        /\ WF_vars(ResolvesDoes(Resolves!Restart))
        /\ WF_vars(ResolvesDoes(Resolves!RunNext("w1")))
        /\ WF_vars(ResolvesDoes(Resolves!ProofNext("w1")))
        /\ WF_vars(ResolvesDoes(Resolves!RollbackNext("w1")))
        /\ \A t \in {1, 2} : WF_vars(ResolvesDoes(Resolves!EpochFor(t) # Resolves!NoEpoch /\ Resolves!RollbackStart("w1", t)))
        /\ SF_vars(ResolvesDoes(Resolves!SendDeactivate("w1")))
        /\ SF_vars(ResolvesDoes(Resolves!RollbackRevoke("w1")))
        /\ SF_vars(ResolvesDoes(\E m \in net : m.live /\ Resolves!TargetDeactivates(m)))
        /\ WF_vars(ReturnsDoes(Returns!ControllerStep))
        /\ WF_vars(ReturnsDoes(Returns!Raise /\ Returns!Blocked))
        /\ WF_vars(ReturnsDoes(Returns!RunnerStart))
        /\ WF_vars(ReturnsDoes(Returns!BootStart))
        /\ WF_vars(ReturnsDoes(Returns!ActivateBegin(1) \/ Returns!DeactivateBegin(1)))

------------------------------------------------------------------------------
\* Every variable has its type, in every scene.
TypeOK ==
  CASE scene = "run" -> Run!TypeOK
    [] scene = "crash" -> Crash!TypeOK
    [] scene = "all" -> All!TypeOK
    [] scene = "resolves" -> Resolves!TypeOK
    [] scene = "activation" -> Activation!TypeOK
    [] scene = "switch" -> Switch!TypeOK
    [] scene = "returns" -> Returns!TypeOK

\* Only one runtime accepts mutations: while a target runs the subject, the source
\* neither commits nor admits one, and no other target runs it (cutover.py,
\* fencing.py; "Only one subject epoch may accept mutations").
OneRuntime ==
  /\ scene = "run" => Run!OneRuntime
  /\ scene = "crash" => Crash!OneRuntime
  /\ scene = "all" => All!OneRuntime

\* A running target has every mutation the source ever committed: the snapshot
\* follows the fence and the drain (http_executor.py execute).
NothingLeftBehind ==
  /\ scene = "run" => Run!NothingLeftBehind
  /\ scene = "crash" => Crash!NothingLeftBehind
  /\ scene = "all" => All!NothingLeftBehind

\* After a rollback the target never runs the subject, whatever activation request
\* was still under way (cutover.py rollback, activation.py tombstone).
CancelledStaysDown ==
  /\ scene = "all" => All!CancelledStaysDown
  /\ scene = "crash" => Crash!CancelledStaysDown

\* A committed task's target runs and the source can never serve again, also after a
\* crash and a restart of the source.
CommittedMoved ==
  /\ scene = "run" => Run!CommittedMoved
  /\ scene = "crash" => Crash!CommittedMoved

\* Outside a control scope the fence is up only while an epoch or a pending rollback
\* needs it: a refused or rolled back cutover leaves no fence.
FenceHasReason ==
  /\ scene = "run" => Run!FenceHasReason
  /\ scene = "crash" => Crash!FenceHasReason

\* The runtime an epoch was reserved on is the one its task was approved for: no
\* lifecycle transition slips in before or under the epoch.
EpochPinsRuntime ==
  /\ scene = "run" => Run!EpochPinsRuntime
  /\ scene = "crash" => Crash!EpochPinsRuntime

\* A task whose deactivation is recorded or reported is never the served runtime
\* again, whatever activation request arrives late and wherever the controller dies
\* (the tombstone of _deactivate, and the order of its steps).
DeactivatedStaysOut ==
  /\ scene = "activation" => Activation!DeactivatedStaysOut
  /\ scene = "switch" => Switch!DeactivatedStaysOut

\* With no switch in progress or interrupted, the host has a database and the
\* subject tree of the same runtime: _activate, _deactivate and the recoveries leave
\* no mixture behind, however often they are interrupted.
SettledPaired == scene = "activation" => Activation!SettledPaired

\* No switch, failure or recovery destroys the database or the tree of a runtime
\* that was served: each is at exactly one place (_move_database_set never
\* overwrites).
NothingOverwritten ==
  /\ scene = "activation" => Activation!NothingOverwritten
  /\ scene = "switch" => Switch!NothingOverwritten

\* "Epoch revocation and terminal task status are one durable change": a rolled back
\* task leaves no active epoch behind.
RolledBackRevoked == scene = "all" => All!RolledBackRevoked

\* An epoch that was reserved is in the end committed or revoked: a lost reply never
\* strands the subject while the source keeps running.
EpochResolves == scene = "resolves" => Resolves!EpochResolves

\* Whatever step a crash or an exception interrupts, the service runs again once its
\* start is retried: every recovery can be repeated until it ends.
ServiceReturns == scene = "returns" => Returns!ServiceReturns




==============================================================================

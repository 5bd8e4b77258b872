------------------------------ MODULE Cutover -------------------------------
(***************************************************************************)
(* Moving a subject to another host: CutoverCoordinator.run, prepare,      *)
(* commit and rollback (src/noyra/migration/cutover.py) with EpochLease    *)
(* (fencing.py), HTTPMigrationExecutor (http_executor.py), the standby     *)
(* recovery (recovery.py), the source's admission gate and lifecycle, and  *)
(* the target's activate and deactivate as the source sees them.           *)
(*                                                                         *)
(*   task, srcEpoch, link, manifest   the columns status, source_epoch,    *)
(*              target_epoch_id and manifest_digest of migration_tasks     *)
(*   epochs     migration_epochs, the row number being epoch_number        *)
(*   version    runtime_state.version, life its lifecycle state            *)
(*   gate, up   the source's admission gate; its process is serving        *)
(*   op         one ordinary mutation under a lease                        *)
(*   writes     how many ordinary mutations the source has committed       *)
(*   worker     the HTTP threads that run migration controls               *)
(*   net        requests on their way to a target; one whose caller gave   *)
(*              up is still delivered                                      *)
(*   target     what the target of a task runs; snap the writes its copy   *)
(*              holds, copy what else of it decides its activation         *)
(*   epochTask  history: the task an epoch was acquired for                *)
(*                                                                         *)
(* Every task has a target of its own.  The controls prepare and           *)
(* restore_standby run outside the control scope; a control thread has no  *)
(* lease, so its transactions are not checked against the gate, while the  *)
(* recovery route runs under an ordinary lease.                            *)
(***************************************************************************)
EXTENDS Gate, MigrationTasks, FiniteSets

CONSTANTS
  Tasks, Workers,
  Paths,        \* the controls this instance exercises
  NoTask, NoLease,
  MaxEpochs,    \* bound on migration epochs
  MaxVersion,   \* bound on lifecycle transitions
  MaxWrites,    \* bound on ordinary mutations
  MaxGate,      \* bound on the gate's epoch
  MaxCrashes    \* bound on crashes

VARIABLES task, srcEpoch, link, manifest, epochs, epochTask, version, life,
          gate, up, crashes, op, writes, worker, net, target, snap, copy

rows == <<task, srcEpoch, link, manifest>>
source == <<version, life, up, crashes, op, writes>>
remote == <<net, target, snap, copy>>
vars == <<rows, epochs, epochTask, source, gate, worker, remote>>

Numbers == 1..MaxEpochs
NoEpoch == 0

Idle == [at |-> "idle", t |-> NoTask, via |-> "none", e |-> NoEpoch, seen |-> "none"]

\* Positions inside migration_control_scope, and outside it.
Scoped == {"drain", "reserve", "snapshot", "transfer", "activate", "active_wait", "active_reply",
           "mark", "deactivate", "down_wait", "revoke", "clear"}
Unscoped == {"check", "acquire", "link", "commit", "fence"}

Init ==
  /\ task = [t \in Tasks |-> "planned"]
  /\ srcEpoch = [t \in Tasks |-> 0]
  /\ link = [t \in Tasks |-> NoEpoch]
  /\ manifest = [t \in Tasks |-> FALSE]
  /\ epochs = [n \in Numbers |-> "none"]
  /\ epochTask = [n \in Numbers |-> NoTask]
  /\ version = 1
  /\ life = "active"
  /\ gate = Opened(NewGate, 1)
  /\ up = TRUE
  /\ crashes = 0
  /\ op = [at |-> "idle", lease |-> NoLease]
  /\ writes = 0
  /\ worker = [w \in Workers |-> Idle]
  /\ net = {}
  /\ target = [t \in Tasks |-> "none"]
  /\ snap = [t \in Tasks |-> 0]
  /\ copy = [t \in Tasks |-> "none"]

-----------------------------------------------------------------------------
(* What the source may do: the durable epochs against its own work. *)

ActiveEpochs == {n \in Numbers : epochs[n] = "active"}

\* Mutant: a completed epoch no longer blocks the old source.
NoActiveMigrationEpoch_Completed ==
  /\ ActiveEpochs = {}
  /\ \A t \in Tasks :
       ~(task[t] = "rolling_back" /\ link[t] # NoEpoch /\ epochs[link[t]] = "revoked")

\* _no_active_migration_epoch: ownership_check and migration_clear_check.
NoActiveMigrationEpoch ==
  /\ \A n \in Numbers : epochs[n] \notin {"active", "completed"}
  /\ \A t \in Tasks :
       ~(task[t] = "rolling_back" /\ link[t] # NoEpoch /\ epochs[link[t]] = "revoked")

\* An ordinary mutation between its lease check and its commit has the lock.
GateFree == op.at # "commit"

\* EpochFor: _epoch_for_task, the active epoch the task's row names.
EpochFor(t) ==
  IF link[t] # NoEpoch /\ epochs[link[t]] = "active" THEN link[t] ELSE NoEpoch

\* Mutant: the expected source epoch is not compared with the runtime's.
CanAcquire_AnyVersion(t) == ActiveEpochs = {} /\ epochs[MaxEpochs] = "none"

\* _acquire_in_transaction: no active epoch, the source epoch not stale.
CanAcquire(t) ==
  /\ ActiveEpochs = {}
  /\ epochs[MaxEpochs] = "none"
  /\ srcEpoch[t] = version

NextEpoch == Cardinality({n \in Numbers : epochs[n] # "none"}) + 1

Acquired(t) ==
  /\ epochs' = [epochs EXCEPT ![NextEpoch] = "active"]
  /\ epochTask' = [epochTask EXCEPT ![NextEpoch] = t]

Goto(w, pos) == worker' = [worker EXCEPT ![w].at = pos]

Leave(w) == worker' = [worker EXCEPT ![w] = Idle]

-----------------------------------------------------------------------------
(* Ordinary work of the source: approval, mutations and the lifecycle. *)

Served == up /\ GateFree /\ BeginAllowed(gate, up, NoActiveMigrationEpoch, FALSE)

\* approve: the task is bound to the runtime version it was approved at.
Approve(t) ==
  /\ Served
  /\ task[t] = "planned"
  /\ task' = [task EXCEPT ![t] = "approved"]
  /\ srcEpoch' = [srcEpoch EXCEPT ![t] = version]
  /\ UNCHANGED <<link, manifest, epochs, epochTask, source, gate, worker, remote>>

Cancel(t) ==
  /\ Served
  /\ task[t] # "failed"
  /\ task[t] # "cancelled"
  /\ TaskMay(task[t], "cancelled")
  /\ task' = [task EXCEPT ![t] = "cancelled"]
  /\ UNCHANGED <<srcEpoch, link, manifest, epochs, epochTask, source, gate, worker, remote>>

OpBegin ==
  /\ Served
  /\ op.at = "idle"
  /\ writes < MaxWrites
  /\ op' = [at |-> "work", lease |-> NewLease(gate, FALSE)]
  /\ gate' = Begun(gate)
  /\ UNCHANGED <<rows, epochs, epochTask, version, life, up, crashes, writes, worker, remote>>

\* Database.transaction: commit_scope checks the lease under the gate's lock
\* and keeps the lock; BEGIN IMMEDIATE comes after the check.
OpCheck ==
  /\ op.at = "work"
  /\ op' = IF AssertCurrent(gate, op.lease, up, NoActiveMigrationEpoch)
             THEN [op EXCEPT !.at = "commit"] ELSE [op EXCEPT !.at = "done"]
  /\ UNCHANGED <<rows, epochs, epochTask, version, life, up, crashes, writes, gate, worker, remote>>

OpCommit ==
  /\ op.at = "commit"
  /\ writes' = writes + 1
  /\ op' = [op EXCEPT !.at = "done"]
  /\ UNCHANGED <<rows, epochs, epochTask, version, life, up, crashes, gate, worker, remote>>

OpFinish ==
  /\ op.at = "done"
  /\ gate' = Finished(gate)
  /\ op' = [at |-> "idle", lease |-> NoLease]
  /\ UNCHANGED <<rows, epochs, epochTask, version, life, up, crashes, writes, worker, remote>>

\* SubjectKernel.pause and resume in lifecycle_control_scope.
Pause ==
  /\ up /\ GateFree /\ LifecycleScopeAllowed(gate)
  /\ NoActiveMigrationEpoch
  /\ life = "active"
  /\ version < MaxVersion /\ gate.epoch < MaxGate
  /\ life' = "paused"
  /\ version' = version + 1
  /\ gate' = Invalidated(gate, FALSE, FALSE)
  /\ UNCHANGED <<rows, epochs, epochTask, up, crashes, op, writes, worker, remote>>

Resume ==
  /\ up /\ GateFree /\ LifecycleScopeAllowed(gate)
  /\ NoActiveMigrationEpoch
  /\ life = "paused"
  /\ version < MaxVersion
  /\ life' = "active"
  /\ version' = version + 1
  /\ gate' = Opened(gate, version + 1)
  /\ UNCHANGED <<rows, epochs, epochTask, up, crashes, op, writes, worker, remote>>

\* _integrity_pre_tick after a clean report: reopen an active runtime.
PreTickOpen ==
  /\ up /\ GateFree
  /\ life = "active"
  /\ ~Accepting(gate)
  /\ OpenAllowed(gate, NoActiveMigrationEpoch)
  /\ gate' = Opened(gate, version)
  /\ UNCHANGED <<rows, epochs, epochTask, source, worker, remote>>

-----------------------------------------------------------------------------
(* CutoverCoordinator.run: fence, drain, reserve the epoch in one           *)
(* transaction, then the executor.                                          *)

RunStart(w, t) ==
  /\ "run" \in Paths
  /\ up /\ GateFree /\ worker[w] = Idle
  /\ task[t] = "approved"
  /\ ControlAllowed(gate, up)
  /\ gate.epoch < MaxGate
  /\ gate' = Fenced(ControlEntered(gate))
  /\ worker' = [worker EXCEPT ![w] =
       [at |-> "drain", t |-> t, via |-> "run", e |-> gate.epoch + 1, seen |-> "approved"]]
  /\ UNCHANGED <<rows, epochs, epochTask, source, remote>>

\* wait_for_drain, for run and for commit.
Drained(w) ==
  /\ worker[w].at = "drain"
  /\ gate.active = 0
  /\ Goto(w, IF worker[w].via = "run" THEN "reserve" ELSE "snapshot")
  /\ UNCHANGED <<rows, epochs, epochTask, source, gate, remote>>

RunReserve(w) ==
  LET t == worker[w].t IN
  /\ worker[w].at = "reserve"
  /\ task[t] = "approved"
  /\ CanAcquire(t)
  /\ Acquired(t)
  /\ task' = [task EXCEPT ![t] = "preparing"]
  /\ link' = [link EXCEPT ![t] = NextEpoch]
  /\ worker' = [worker EXCEPT ![w].at = "snapshot", ![w].e = NextEpoch]
  /\ UNCHANGED <<srcEpoch, manifest, source, gate, remote>>

\* Mutant: a refused reservation keeps the fence.
RunRefused_KeepFence(w) ==
  /\ worker[w].at = "reserve" /\ GateFree
  /\ gate' = ControlLeft(gate)
  /\ Leave(w)
  /\ UNCHANGED <<rows, epochs, epochTask, source, remote>>

\* The reservation is refused (stale epoch, policy changed, payment in flight,
\* cooldown): the fence is cleared, or stays when clearing it is refused.
RunRefused(w) ==
  /\ worker[w].at = "reserve" /\ GateFree
  /\ gate' = ControlLeft(IF ClearFenceAllowed(gate, worker[w].e, NoActiveMigrationEpoch)
                           THEN FenceCleared(gate) ELSE gate)
  /\ Leave(w)
  /\ UNCHANGED <<rows, epochs, epochTask, source, remote>>

-----------------------------------------------------------------------------
(* HTTPMigrationExecutor.execute, with run's two callbacks or without.      *)

\* What the copied database tells the target: a task that is not in cutover
\* is refused, the completed epoch of another target blocks the boot there.
CopyOf(t) ==
  IF task[t] \notin {"preparing", "validating", "cutover"} THEN "refused"
  ELSE IF \E n \in Numbers : epochs[n] = "completed" /\ epochTask[n] # t THEN "foreign"
  ELSE "fit"

\* Mutant: the snapshot is taken without asking for the source fence.
Snapshot_Unfenced(w) ==
  LET t == worker[w].t IN
  /\ worker[w].at = "snapshot"
  /\ IF worker[w].via = "run"
       THEN /\ task[t] = "preparing"
            /\ task' = [task EXCEPT ![t] = "transferring"]
            /\ manifest' = [manifest EXCEPT ![t] = TRUE]
            /\ snap' = [snap EXCEPT ![t] = writes]
       ELSE snap[t] = writes /\ UNCHANGED <<task, manifest, snap>>
  /\ copy' = [copy EXCEPT ![t] = CopyOf(t)]
  /\ Goto(w, "transfer")
  /\ UNCHANGED <<srcEpoch, link, epochs, epochTask, source, gate, net, target>>

\* The fence proof, then the artifact: run records the manifest of a new
\* one (artifact_ready), commit needs it to equal the manifest of the proof.
Snapshot(w) ==
  LET t == worker[w].t IN
  /\ worker[w].at = "snapshot" /\ GateFree
  /\ gate.fenced
  /\ EpochFor(t) # NoEpoch
  /\ IF worker[w].via = "run"
       THEN /\ task[t] = "preparing"
            /\ task' = [task EXCEPT ![t] = "transferring"]
            /\ manifest' = [manifest EXCEPT ![t] = TRUE]
            /\ snap' = [snap EXCEPT ![t] = writes]
       ELSE snap[t] = writes /\ UNCHANGED <<task, manifest, snap>>
  /\ copy' = [copy EXCEPT ![t] = CopyOf(t)]
  /\ Goto(w, "transfer")
  /\ UNCHANGED <<srcEpoch, link, epochs, epochTask, source, gate, net, target>>

\* Preflight, chunks, restore, health; run's target_verified is prepare.
Verified(w) ==
  LET t == worker[w].t IN
  /\ worker[w].at = "transfer"
  /\ IF worker[w].via = "run"
       THEN /\ task[t] \in {"preparing", "transferring", "restoring", "validating"}
            /\ EpochFor(t) # NoEpoch
            /\ task' = [task EXCEPT ![t] = "validating"]
       ELSE UNCHANGED task
  /\ Goto(w, "activate")
  /\ UNCHANGED <<srcEpoch, link, manifest, epochs, epochTask, source, gate, remote>>

Request(kind, w) == [kind |-> kind, t |-> worker[w].t, w |-> w, live |-> TRUE]

SendActivate(w) ==
  /\ worker[w].at = "activate"
  /\ net' = net \cup {Request("activate", w)}
  /\ Goto(w, "active_wait")
  /\ UNCHANGED <<rows, epochs, epochTask, source, gate, target, snap, copy>>

\* _commit_receipt: cutover, committed and the completed epoch at once.  The
\* source's fence stays.
CommitReceipt(w) ==
  LET t == worker[w].t IN
  /\ worker[w].at = "active_reply"
  /\ task[t] \in {"validating", "cutover"}
  /\ epochs[worker[w].e] = "active"
  /\ task' = [task EXCEPT ![t] = "committed"]
  /\ epochs' = [epochs EXCEPT ![worker[w].e] = "completed"]
  /\ gate' = ControlLeft(gate)
  /\ Leave(w)
  /\ UNCHANGED <<srcEpoch, link, manifest, epochTask, source, remote>>

Abandon(w) ==
  net' = {IF m.w = w THEN [m EXCEPT !.live = FALSE] ELSE m : m \in net}

\* Mutant: a failed execution clears the fence and revokes the epoch itself.
ExecFails_Reopen(w) ==
  /\ worker[w].at \in {"snapshot", "transfer", "activate", "active_wait", "active_reply"}
  /\ GateFree
  /\ epochs' = [epochs EXCEPT ![worker[w].e] = "revoked"]
  /\ gate' = ControlLeft(FenceCleared(gate))
  /\ Abandon(w)
  /\ Leave(w)
  /\ UNCHANGED <<rows, epochTask, source, target, snap, copy>>

\* Any exception of the executor, a lost or late reply included: the scope
\* ends, the durable epoch and the fence stay.
ExecFails(w) ==
  /\ worker[w].at \in {"snapshot", "transfer", "activate", "active_wait", "active_reply"}
  /\ GateFree
  /\ gate' = ControlLeft(gate)
  /\ Abandon(w)
  /\ Leave(w)
  /\ UNCHANGED <<rows, epochs, epochTask, source, target, snap, copy>>

-----------------------------------------------------------------------------
(* prepare and commit, the operator's cutover with a target proof of its    *)
(* own.  prepare is three transactions and holds no control scope.          *)

\* The proof names the artifact the target restored, of any earlier time.
PrepareStart(w, t) ==
  /\ "proof" \in Paths
  /\ up /\ worker[w] = Idle
  /\ \/ /\ task[t] = "approved"
        /\ task' = [task EXCEPT ![t] = "preparing"]
        /\ manifest' = [manifest EXCEPT ![t] = TRUE]
        /\ \E n \in 0..writes : snap' = [snap EXCEPT ![t] = n]
     \/ /\ task[t] \in {"preparing", "transferring", "restoring", "validating"}
        /\ manifest[t]
        /\ UNCHANGED <<task, manifest, snap>>
  /\ worker' = [worker EXCEPT ![w] =
       [at |-> "check", t |-> t, via |-> "proof", e |-> NoEpoch, seen |-> task'[t]]]
  /\ UNCHANGED <<srcEpoch, link, epochs, epochTask, source, gate, net, target, copy>>

\* The task's epoch, or the status check of EpochLease.acquire.
PrepareCheck(w) ==
  LET t == worker[w].t IN
  /\ worker[w].at = "check"
  /\ IF EpochFor(t) # NoEpoch
       THEN worker' = [worker EXCEPT ![w].at = "link", ![w].e = EpochFor(t)]
       ELSE IF task[t] \in {"preparing", "transferring", "restoring", "validating", "cutover"}
              THEN Goto(w, "acquire")
              ELSE Leave(w)
  /\ UNCHANGED <<rows, epochs, epochTask, source, gate, remote>>

\* _acquire_unchecked: the status is not looked at again.
PrepareAcquire(w) ==
  /\ worker[w].at = "acquire" /\ worker[w].via = "proof"
  /\ IF CanAcquire(worker[w].t)
       THEN /\ Acquired(worker[w].t)
            /\ worker' = [worker EXCEPT ![w].at = "link", ![w].e = NextEpoch]
       ELSE Leave(w) /\ UNCHANGED <<epochs, epochTask>>
  /\ UNCHANGED <<rows, source, gate, remote>>

\* transition_task(validating, target_epoch_id): a task that is validating
\* already is returned as it is, its target_epoch_id included.
PrepareLink(w) ==
  LET t == worker[w].t IN
  /\ worker[w].at = "link" /\ worker[w].via = "proof"
  /\ \/ /\ worker[w].seen = "validating" \/ task[t] = "validating"
        /\ Goto(w, "commit")
        /\ UNCHANGED <<task, link>>
     \/ /\ worker[w].seen # "validating" /\ task[t] # "validating"
        /\ TaskMay(task[t], "validating")
        /\ epochs[worker[w].e] = "active"
        /\ task' = [task EXCEPT ![t] = "validating"]
        /\ link' = [link EXCEPT ![t] = worker[w].e]
        /\ Goto(w, "commit")
     \/ /\ worker[w].seen # "validating" /\ task[t] # "validating"
        /\ ~(TaskMay(task[t], "validating") /\ epochs[worker[w].e] = "active")
        /\ Leave(w)
        /\ UNCHANGED <<task, link>>
  /\ UNCHANGED <<srcEpoch, manifest, epochs, epochTask, source, gate, remote>>

CommitRead(w) ==
  LET t == worker[w].t IN
  /\ worker[w].at = "commit"
  /\ IF task[t] \in {"validating", "cutover"} /\ EpochFor(t) # NoEpoch
       THEN worker' = [worker EXCEPT ![w].at = "fence", ![w].e = EpochFor(t)]
       ELSE Leave(w)
  /\ UNCHANGED <<rows, epochs, epochTask, source, gate, remote>>

CommitFence(w) ==
  /\ worker[w].at = "fence" /\ GateFree
  /\ gate.epoch < MaxGate
  /\ IF ControlAllowed(gate, up) /\ epochs[worker[w].e] = "active"
       THEN /\ gate' = Fenced(ControlEntered(gate))
            /\ worker' = [worker EXCEPT ![w].at = "drain", ![w].via = "commit"]
       ELSE Leave(w) /\ UNCHANGED gate
  /\ UNCHANGED <<rows, epochs, epochTask, source, remote>>

-----------------------------------------------------------------------------
(* RecoveryCoordinator.restore_standby under the lease of its HTTP request. *)

\* The task is created validating, from a registered backup.
RecoverStart(w, t) ==
  /\ "recover" \in Paths
  /\ worker[w] = Idle
  /\ Served
  /\ task[t] = "planned"
  /\ ActiveEpochs = {}
  /\ task' = [task EXCEPT ![t] = "validating"]
  /\ srcEpoch' = [srcEpoch EXCEPT ![t] = version]
  /\ manifest' = [manifest EXCEPT ![t] = TRUE]
  /\ \E n \in 0..writes : snap' = [snap EXCEPT ![t] = n]
  /\ gate' = Begun(gate)
  /\ worker' = [worker EXCEPT ![w] =
       [at |-> "acquire", t |-> t, via |-> "recover", e |-> gate.epoch, seen |-> "validating"]]
  /\ UNCHANGED <<link, epochs, epochTask, source, net, target, copy>>

RequestLease(w) == [epoch |-> worker[w].e, allow |-> FALSE]

RequestCurrent(w) ==
  AssertCurrent(gate, RequestLease(w), up, NoActiveMigrationEpoch)

\* A refused acquisition marks the task failed, if the lease still commits.
RecoverAcquire(w) ==
  LET t == worker[w].t IN
  /\ worker[w].at = "acquire" /\ worker[w].via = "recover" /\ GateFree
  /\ \/ /\ RequestCurrent(w) /\ CanAcquire(t)
        /\ Acquired(t)
        /\ Goto(w, "link")
        /\ UNCHANGED <<task, gate>>
     \/ /\ ~(RequestCurrent(w) /\ CanAcquire(t))
        /\ task' = IF RequestCurrent(w) /\ task[t] = "validating"
                     THEN [task EXCEPT ![t] = "failed"] ELSE task
        /\ gate' = Finished(gate)
        /\ Leave(w)
        /\ UNCHANGED <<epochs, epochTask>>
  /\ UNCHANGED <<srcEpoch, link, manifest, source, remote>>

\* The third transaction of _restore_pinned_standby opens with the request's
\* lease check, which the epoch just acquired makes fail.
RecoverLink(w) ==
  LET t == worker[w].t
      e == CHOOSE n \in Numbers : epochTask[n] = t /\ epochs[n] = "active" IN
  /\ worker[w].at = "link" /\ worker[w].via = "recover" /\ GateFree
  /\ link' = IF RequestCurrent(w) /\ task[t] = "validating"
               THEN [link EXCEPT ![t] = e] ELSE link
  /\ gate' = Finished(gate)
  /\ Leave(w)
  /\ UNCHANGED <<task, srcEpoch, manifest, epochs, epochTask, source, remote>>

-----------------------------------------------------------------------------
(* rollback: persistent target cancellation, then revoke and roll back in   *)
(* one transaction, then clear the fence.                                   *)


RollbackStart(w, t) ==
  /\ "rollback" \in Paths
  /\ up /\ GateFree /\ worker[w] = Idle
  /\ ControlAllowed(gate, up)
  /\ task[t] \notin {"rolled_back", "committed"}
  /\ TaskMay(task[t], "rolling_back")
  /\ gate' = ControlEntered(gate)
  /\ worker' = [worker EXCEPT ![w] =
       [at |-> "mark", t |-> t, via |-> "rollback", e |-> EpochFor(t),
        seen |-> IF manifest[t] THEN "manifest" ELSE "none"]]
  /\ UNCHANGED <<rows, epochs, epochTask, source, remote>>


RollbackMark(w) ==
  LET t == worker[w].t IN
  /\ worker[w].at = "mark" /\ GateFree
  /\ IF TaskMay(task[t], "rolling_back")
       THEN /\ task' = [task EXCEPT ![t] = "rolling_back"]
            /\ Goto(w, IF worker[w].seen = "manifest" THEN "deactivate" ELSE "revoke")
            /\ UNCHANGED gate
       ELSE Leave(w) /\ gate' = ControlLeft(gate) /\ UNCHANGED task
  /\ UNCHANGED <<srcEpoch, link, manifest, epochs, epochTask, source, remote>>

SendDeactivate(w) ==
  /\ worker[w].at = "deactivate"
  /\ net' = net \cup {Request("deactivate", w)}
  /\ Goto(w, "down_wait")
  /\ UNCHANGED <<rows, epochs, epochTask, source, gate, target, snap, copy>>

\* No deactivation proof: the task stays rolling back, the source fenced.
RollbackFails(w) ==
  /\ worker[w].at \in {"deactivate", "down_wait"} \/ (worker[w].at = "revoke" /\ worker[w].seen = "manifest")
  /\ GateFree
  /\ gate' = ControlLeft(gate)
  /\ Abandon(w)
  /\ Leave(w)
  /\ UNCHANGED <<rows, epochs, epochTask, source, target, snap, copy>>

RollbackRevoke(w) ==
  LET t == worker[w].t IN
  /\ worker[w].at = "revoke"
  /\ task[t] = "rolling_back"
  /\ worker[w].e # NoEpoch => epochs[worker[w].e] = "active"
  /\ epochs' = IF worker[w].e = NoEpoch THEN epochs
                 ELSE [epochs EXCEPT ![worker[w].e] = "revoked"]
  /\ task' = [task EXCEPT ![t] = "rolled_back"]
  /\ Goto(w, "clear")
  /\ UNCHANGED <<srcEpoch, link, manifest, epochTask, source, gate, remote>>

RollbackClear(w) ==
  /\ worker[w].at = "clear" /\ GateFree
  /\ gate' = ControlLeft(
       IF /\ worker[w].e # NoEpoch
          /\ gate.fenced
          /\ ClearFenceAllowed(gate, gate.fenceEpoch, NoActiveMigrationEpoch)
         THEN FenceCleared(gate) ELSE gate)
  /\ Leave(w)
  /\ UNCHANGED <<rows, epochs, epochTask, source, remote>>

-----------------------------------------------------------------------------
(* The target, and the source process. *)

Reply(m, from, to) ==
  worker' = IF m.live /\ worker[m.w].at = from
              THEN [worker EXCEPT ![m.w].at = to] ELSE worker

\* Mutant: the target forgets that the task was cancelled before it started.
TargetActivates_NoTombstone(m) ==
  /\ m.kind = "activate"
  /\ net' = net \ {m}
  /\ target' = [target EXCEPT ![m.t] = "active"]
  /\ Reply(m, "active_wait", "active_reply")
  /\ UNCHANGED <<rows, epochs, epochTask, source, gate, snap, copy>>

\* TargetRuntimeActivator: a task that was deactivated is refused for good,
\* an active one answers with the same receipt; a copy with the completed
\* epoch of another target cannot boot and is reverted.  A refusal is an
\* error reply, which the caller treats as any failure.
TargetActivates(m) ==
  /\ m.kind = "activate"
  /\ net' = net \ {m}
  /\ \/ /\ target[m.t] = "active" \/ (target[m.t] = "none" /\ copy[m.t] = "fit")
        /\ target' = [target EXCEPT ![m.t] = "active"]
        /\ Reply(m, "active_wait", "active_reply")
     \/ /\ target[m.t] = "none" /\ copy[m.t] = "foreign"
        /\ target' = [target EXCEPT ![m.t] = "reverted"]
        /\ UNCHANGED worker
     \/ /\ target[m.t] \in {"reverted", "deactivated"}
          \/ (target[m.t] = "none" /\ copy[m.t] = "refused")
        /\ UNCHANGED <<target, worker>>
  /\ UNCHANGED <<rows, epochs, epochTask, source, gate, snap, copy>>

\* Deactivation without an activation leaves a tombstone.
TargetDeactivates(m) ==
  /\ m.kind = "deactivate"
  /\ net' = net \ {m}
  /\ target' = [target EXCEPT ![m.t] = "deactivated"]
  /\ Reply(m, "down_wait", "revoke")
  /\ UNCHANGED <<rows, epochs, epochTask, source, gate, snap, copy>>

Crash ==
  /\ up /\ crashes < MaxCrashes
  /\ up' = FALSE
  /\ crashes' = crashes + 1
  /\ gate' = NewGate
  /\ op' = [at |-> "idle", lease |-> NoLease]
  /\ worker' = [w \in Workers |-> Idle]
  /\ net' = {[m EXCEPT !.live = FALSE] : m \in net}
  /\ UNCHANGED <<rows, epochs, epochTask, version, life, writes, target, snap, copy>>

\* NoyraService.run: HTTP serves only after boot, and boot needs ownership
\* without a migration epoch.  A paused runtime stays paused and shut.
Restart ==
  /\ ~up
  /\ NoActiveMigrationEpoch
  /\ version < MaxVersion
  /\ up' = TRUE
  /\ version' = version + 1
  /\ gate' = IF life = "active" THEN Opened(gate, version + 1) ELSE gate
  /\ UNCHANGED <<rows, epochs, epochTask, life, crashes, op, writes, worker, remote>>

-----------------------------------------------------------------------------
SourceNext ==
  \/ \E t \in Tasks : Approve(t) \/ Cancel(t)
  \/ OpBegin \/ OpCheck \/ OpCommit \/ OpFinish
  \/ Pause \/ Resume \/ PreTickOpen
  \/ Crash \/ Restart

RunNext(w) ==
  \/ Drained(w) \/ RunReserve(w) \/ RunRefused(w)
  \/ Snapshot(w) \/ Verified(w) \/ SendActivate(w) \/ CommitReceipt(w) \/ ExecFails(w)

ProofNext(w) ==
  \/ PrepareCheck(w) \/ PrepareAcquire(w) \/ PrepareLink(w)
  \/ CommitRead(w) \/ CommitFence(w)

RecoverNext(w) == RecoverAcquire(w) \/ RecoverLink(w)

RollbackNext(w) ==
  \/ RollbackMark(w) \/ SendDeactivate(w) \/ RollbackFails(w)
  \/ RollbackRevoke(w) \/ RollbackClear(w)

WorkerStarts(w) ==
  \E t \in Tasks :
    RunStart(w, t) \/ PrepareStart(w, t) \/ RecoverStart(w, t) \/ RollbackStart(w, t)

TargetNext == \E m \in net : TargetActivates(m) \/ TargetDeactivates(m)

Next ==
  \/ SourceNext
  \/ \E w \in Workers : \/ WorkerStarts(w) \/ RunNext(w) \/ ProofNext(w)
                        \/ RecoverNext(w) \/ RollbackNext(w)
  \/ TargetNext

Spec == Init /\ [][Next]_vars

\* Threads make progress, the network delivers, and an operator keeps asking
\* for the rollback of a task that holds an epoch until one such request is
\* answered in time.
Fairness ==
  /\ WF_vars(OpCheck) /\ WF_vars(OpCommit) /\ WF_vars(OpFinish)
  /\ WF_vars(Restart)
  /\ \A w \in Workers :
       /\ WF_vars(RunNext(w)) /\ WF_vars(ProofNext(w)) /\ WF_vars(RollbackNext(w))
       /\ \A t \in Tasks : WF_vars(EpochFor(t) # NoEpoch /\ RollbackStart(w, t))
       /\ SF_vars(SendDeactivate(w)) /\ SF_vars(RollbackRevoke(w))
  /\ SF_vars(\E m \in net : m.live /\ TargetDeactivates(m))

LiveSpec == Spec /\ Fairness

-----------------------------------------------------------------------------
(* Properties. *)

Jobs ==
  [at : {"idle"} \cup Scoped \cup Unscoped, t : Tasks \cup {NoTask},
   via : {"none", "run", "proof", "commit", "recover", "rollback"},
   e : 0..(IF MaxGate > MaxEpochs THEN MaxGate ELSE MaxEpochs),
   seen : TaskStates \cup {"none", "manifest"}]

\* Types, with the gate's count exact: one for the ordinary mutation and one
\* for each recovery request that holds a lease.
TypeOK ==
  /\ task \in [Tasks -> TaskStates]
  /\ srcEpoch \in [Tasks -> 0..MaxVersion]
  /\ link \in [Tasks -> 0..MaxEpochs]
  /\ manifest \in [Tasks -> BOOLEAN]
  /\ epochs \in [Numbers -> {"none", "active", "revoked", "completed"}]
  /\ epochTask \in [Numbers -> Tasks \cup {NoTask}]
  /\ version \in 1..MaxVersion /\ life \in {"active", "paused"}
  /\ gate \in GateState /\ up \in BOOLEAN /\ crashes \in 0..MaxCrashes
  /\ op.at \in {"idle", "work", "commit", "done"}
  /\ writes \in 0..MaxWrites
  /\ worker \in [Workers -> Jobs]
  /\ target \in [Tasks -> {"none", "active", "reverted", "deactivated"}]
  /\ snap \in [Tasks -> 0..MaxWrites]
  /\ copy \in [Tasks -> {"none", "fit", "foreign", "refused"}]
  /\ gate.control <=> \E w \in Workers : worker[w].at \in Scoped
  /\ gate.active = (IF op.at = "idle" THEN 0 ELSE 1)
                    + Cardinality({w \in Workers : worker[w].via = "recover"})

SourceMayWrite ==
  op.at = "commit" \/ (up /\ BeginAllowed(gate, up, NoActiveMigrationEpoch, FALSE))

\* Only one runtime accepts mutations: while a target runs the subject, the
\* source neither commits nor admits one, and no other target runs it.
\* (cutover.py, fencing.py; "Only one subject epoch may accept mutations".)
OneRuntime ==
  \A t \in Tasks : target[t] = "active" =>
    /\ ~SourceMayWrite
    /\ \A u \in Tasks \ {t} : target[u] # "active"

\* A running target has every mutation the source ever committed: the
\* snapshot follows the fence and the drain (http_executor.py execute).
NothingLeftBehind == \A t \in Tasks : target[t] = "active" => snap[t] = writes

\* After a rollback the target never runs the subject, whatever activation
\* request was still under way (cutover.py rollback, activation.py tombstone).
CancelledStaysDown == \A t \in Tasks : task[t] = "rolled_back" => target[t] # "active"

\* A committed task's target runs and the source can never serve again.
CommittedMoved ==
  \A t \in Tasks : task[t] = "committed" => target[t] = "active" /\ ~NoActiveMigrationEpoch

\* Outside a control scope the fence is up only while an epoch or a pending
\* rollback needs it: a refused or rolled back cutover leaves no fence.
FenceHasReason == up /\ gate.fenced /\ ~gate.control => ~NoActiveMigrationEpoch

\* The runtime an epoch was reserved on is the one its task was approved
\* for: no lifecycle transition slips in before or under the epoch.
EpochPinsRuntime == \A n \in ActiveEpochs : srcEpoch[epochTask[n]] = version

\* An epoch that was reserved is in the end committed or revoked: a lost
\* reply never strands the subject while the source keeps running.
EpochResolves == (ActiveEpochs # {}) ~> (ActiveEpochs = {})

\* "Migration cutover and rollback ... must remain usable while the durable
\* migration epoch fences ordinary runtime admission": after a crash under an
\* epoch the source serves its controls again.
RollbackStaysUsable ==
  \A t \in Tasks : (~up /\ EpochFor(t) # NoEpoch) ~> up

\* "Epoch revocation and terminal task status are one durable change": a
\* rolled back task leaves no active epoch behind.
RolledBackRevoked ==
  \A t \in Tasks : task[t] = "rolled_back" =>
    \A n \in ActiveEpochs : epochTask[n] # t

\* An emergency recovery that acquired its epoch has it on its task.
RecoveryBindsEpoch ==
  (\A w \in Workers : worker[w] = Idle) =>
    \A n \in ActiveEpochs : link[epochTask[n]] = n

\* A paused runtime accepts no ordinary mutation.
PausedRefuses == life = "paused" => ~Accepting(gate)

\* "The old source cannot mutate after target epoch acquisition."
SourceSilentUnderEpoch == [][writes' # writes => ActiveEpochs = {}]_vars
=============================================================================

-------------------------- MODULE TargetActivation --------------------------
(***************************************************************************)
(* The root controller of a migration target (migration/activation.py):   *)
(* it replaces the database and the subject tree of the local service by   *)
(* those of a migrated subject, and back.  A switch is a script of file    *)
(* moves and service commands, each of which may raise; the controller or  *)
(* the host may die between any two of them; recovery reads the journal    *)
(* (one marker file per task) before the service starts again.             *)
(*                                                                         *)
(* A database file is named by the runtime it belongs to: Home, the        *)
(* runtime the host had first, or the task whose snapshot it is.  The      *)
(* service writes into the -wal file; a checkpoint moves the writes to the *)
(* main file and changes its digest.                                       *)
(***************************************************************************)
EXTENDS Integers, Sequences, FiniteSets

CONSTANTS NTasks,       \* tasks that may be activated on this host
          MaxWrites,    \* bound: writes of the running services
          MaxFaults,    \* bound: steps that raise
          MaxCrashes,   \* bound: controller and host crashes
          MaxRequests   \* bound: submissions through the bridge

Tasks == 1..NTasks
Home == 0
None == -1
Dbs == Tasks \cup {Home}

Data == <<"data", 0>>
Roll(t) == <<"rollback", t>>
Fail(t) == <<"failed", t>>
Locs == {Data} \cup {Roll(t) : t \in Tasks} \cup {Fail(t) : t \in Tasks}

VARIABLES main,     \* noyra.sqlite3 at each location
          wal,      \* noyra.sqlite3-wal at each location
          tree,     \* the subject's directories at each location
          ver,      \* content of each main file (its digest)
          up,       \* the service is active
          wanted,   \* systemd has a start of the service to carry out or to keep
          dropin,   \* task named by migration-target.conf
          current,  \* task named by current.json
          marker,   \* status of activations/<task>.json
          journal,  \* what the journal remembers of the runtime before
          rolldir,  \* rollback/<task> exists
          roots,    \* subject-state/roots.json of the task exists
          op,       \* what the controller holds its lock for
          pend,     \* request files
          status,   \* status files
          batch,    \* requests of the runner's current pass
          writes, faults, crashes, requests

disk == <<main, wal, tree, ver, dropin, current, marker, journal, rolldir, roots>>
bridge == <<pend, status, batch, requests>>
svc == <<up, wanted>>
counts == <<writes, faults, crashes>>
vars == <<disk, svc, op, bridge, counts>>

Operations == {"activate", "deactivate"}
NoOp == [kind |-> "idle", task |-> None, todo |-> <<>>, rest |-> {}, for |-> "none"]

Markers == {"none", "activating", "active", "failed", "failed_reverted", "recovery_required",
            "deactivating", "deactivated", "recovered"}

Init ==
  /\ main = [l \in Locs |-> IF l = Data THEN Home ELSE None]
  /\ wal = [l \in Locs |-> None]
  /\ tree = main
  /\ ver = [d \in Dbs |-> 0]
  /\ up = TRUE /\ wanted = TRUE
  /\ dropin = None /\ current = None
  /\ marker = [t \in Tasks |-> "none"]
  /\ journal = [t \in Tasks |-> [owner |-> None, dropin |-> None, digest |-> <<None, 0>>]]
  /\ rolldir = {} /\ roots = {}
  /\ op = NoOp
  /\ pend = {} /\ status = [r \in Operations \X Tasks |-> "none"] /\ batch = {}
  /\ writes = 0 /\ faults = 0 /\ crashes = 0 /\ requests = 0

(***************************************************************************)
(* The service.                                                            *)
(***************************************************************************)

\* _sha256_file of the active main file
Digest == <<main[Data], IF main[Data] = None THEN 0 ELSE ver[main[Data]]>>

\* _database_owns_runtime: the active database has the task committed
DbOwns(t) == main[Data] = t

\* A commit of the running service goes to the write-ahead log
ServiceWrites ==
  /\ up /\ main[Data] # None /\ writes < MaxWrites
  /\ wal' = [wal EXCEPT ![Data] = main[Data]]
  /\ writes' = writes + 1
  /\ UNCHANGED <<main, tree, ver, dropin, current, marker, journal, rolldir, roots,
                 up, wanted, op, bridge, faults, crashes>>

\* SQLite copies the log into the main file
Checkpoint ==
  /\ up /\ wal[Data] # None /\ wal[Data] = main[Data]
  /\ ver' = [ver EXCEPT ![main[Data]] = @ + 1]
  /\ wal' = [wal EXCEPT ![Data] = None]
  /\ UNCHANGED <<main, tree, dropin, current, marker, journal, rolldir, roots,
                 up, wanted, op, bridge, counts>>

(***************************************************************************)
(* The scripts.  A script is the sequence of steps still to be done.       *)
(***************************************************************************)

\* _switch_subject_trees after its write-ahead of roots.json
SwitchTrees == <<"roots", "saveTree", "putTree">>


\* _activate from staging on
ActivateScript ==
  <<"stage", "stop">> \o SwitchTrees \o
  <<"saveMain", "saveWal", "install", "dropin", "start", "ready", "owner", "active">>

\* _restore_subject_trees
RestoreTrees == <<"treeOut", "treeBack">>

FailSet == <<"failMain", "failWal">>
BackSet == <<"backMain", "backWal">>

\* _restore_previous_runtime
RestoreScript(t) ==
  <<"stopIfUp">> \o RestoreTrees
  \o (IF main[Roll(t)] # None THEN FailSet \o BackSet ELSE <<>>)
  \o <<"dropinBack", "start", "readyBack", "ownerBack", "failed_reverted">>

\* _deactivate of an active task
DeactivateScript ==
  <<"deactivating", "stop">> \o RestoreTrees \o FailSet \o BackSet \o
  <<"dropinBack", "start", "readyBack", "ownerBack", "deactivated">>

\* Mutant: a deactivation is only recovered from its backup
RecoverScript_BackupOnly(t) ==
  IF marker[t] = "activating" /\ main[Data] # None /\ Digest = journal[t].digest
     /\ main[Roll(t)] = None
    THEN (IF t \in roots THEN <<"stopIfUp">> ELSE <<>>) \o RestoreTrees \o <<"recovered">>
  ELSE IF main[Roll(t)] = None THEN <<"unavailable">>
  ELSE <<"stopIfUp">> \o RestoreTrees
       \o (IF main[Data] # None THEN FailSet ELSE <<>>) \o BackSet
       \o <<"dropinBack", "ownerBack", "recovered">>

\* Mutant: an interrupted activation is recovered without its subject tree
RecoverScript_NoTree(t) ==
  IF marker[t] = "deactivating" /\ main[Data] # None /\ Digest = journal[t].digest
    THEN <<"stopIfUp">> \o RestoreTrees \o <<"dropinBack", "ownerBack", "recovered">>
  ELSE IF marker[t] = "activating" /\ main[Data] # None /\ Digest = journal[t].digest
          /\ main[Roll(t)] = None
    THEN <<"recovered">>
  ELSE IF main[Roll(t)] = None THEN <<"unavailable">>
  ELSE <<"stopIfUp">> \o RestoreTrees
       \o (IF main[Data] # None THEN FailSet ELSE <<>>) \o BackSet
       \o <<"dropinBack", "ownerBack", "recovered">>

\* _recover_incomplete for one marker that is activating, deactivating or recovery_required
RecoverScript(t) ==
  IF marker[t] = "deactivating" /\ main[Data] # None /\ Digest = journal[t].digest
    THEN <<"stopIfUp">> \o RestoreTrees \o <<"dropinBack", "ownerBack", "recovered">>
  ELSE IF marker[t] = "activating" /\ main[Data] # None /\ Digest = journal[t].digest
          /\ main[Roll(t)] = None
    THEN (IF t \in roots THEN <<"stopIfUp">> ELSE <<>>) \o RestoreTrees \o <<"recovered">>
  ELSE IF main[Roll(t)] = None THEN <<"unavailable">>
  ELSE <<"stopIfUp">> \o RestoreTrees
       \o (IF main[Data] # None THEN FailSet ELSE <<>>) \o BackSet
       \o <<"dropinBack", "ownerBack", "recovered">>

(***************************************************************************)
(* The steps.                                                              *)
(***************************************************************************)

Step == Head(op.todo)
Doing(s) == op.todo # <<>> /\ Step = s
Done == op' = [op EXCEPT !.todo = Tail(@)]

\* What a move of the controller moves: _move_database_set, os.replace of a directory
Moves(t) ==
  [saveTree |-> <<"tree", Data, Roll(t)>>, saveMain |-> <<"main", Data, Roll(t)>>,
   saveWal  |-> <<"wal", Data, Roll(t)>>,  failMain |-> <<"main", Data, Fail(t)>>,
   failWal  |-> <<"wal", Data, Fail(t)>>,  backMain |-> <<"main", Roll(t), Data>>,
   backWal  |-> <<"wal", Roll(t), Data>>,  treeOut  |-> <<"tree", Data, Fail(t)>>,
   treeBack |-> <<"tree", Roll(t), Data>>]

Files(k) == CASE k = "main" -> main [] k = "wal" -> wal [] k = "tree" -> tree

\* A tree is taken out only where the previous one was saved
Skips(s, m) ==
  \/ Files(m[1])[m[2]] = None
  \/ s = "treeOut" /\ (op.task \notin roots \/ tree[Roll(op.task)] = None)

\* database_handoff_destination_exists, subject_state_rollback_conflict
Collides(s) ==
  /\ s \in DOMAIN Moves(op.task)
  /\ LET m == Moves(op.task)[s] IN ~Skips(s, m) /\ Files(m[1])[m[3]] # None

\* The service answers with the expected subject and target
ReadyFor(d, conf) == up /\ main[Data] = d /\ dropin = conf

\* The step cannot succeed in this state
Blocked ==
  LET t == op.task IN
  \/ Collides(Step)
  \/ Step = "unavailable"
  \/ Step = "start" /\ main[Data] = None
  \/ Step = "ready" /\ ~ReadyFor(t, t)
  \/ Step = "readyBack" /\ ~ReadyFor(journal[t].digest[1], journal[t].dropin)
  \/ Step = "ownerBack" /\ journal[t].owner # None /\ ~DbOwns(journal[t].owner)

Relocate(f, m) == [f EXCEPT ![m[3]] = f[m[2]], ![m[2]] = None]

\* One os.replace
Move ==
  /\ op.todo # <<>> /\ Step \in DOMAIN Moves(op.task) /\ ~Blocked
  /\ LET m == Moves(op.task)[Step] IN
       IF Skips(Step, m) THEN UNCHANGED <<main, wal, tree>>
       ELSE /\ main' = IF m[1] = "main" THEN Relocate(main, m) ELSE main
            /\ wal' = IF m[1] = "wal" THEN Relocate(wal, m) ELSE wal
            /\ tree' = IF m[1] = "tree" THEN Relocate(tree, m) ELSE tree
  /\ Done
  /\ UNCHANGED <<ver, dropin, current, marker, journal, rolldir, roots, svc, bridge,
                 counts>>

\* The restored snapshot is copied, verified and finalized; the tree is staged with it
Stage ==
  /\ Doing("stage") /\ Done
  /\ UNCHANGED <<disk, svc, bridge, counts>>

\* systemctl stop: the process closes its database, or is killed at its timeout
Stop ==
  /\ op.todo # <<>> /\ Step \in {"stop", "stopIfUp"} /\ Done
  /\ up' = FALSE /\ wanted' = FALSE
  /\ \/ /\ up /\ wal[Data] # None /\ wal[Data] = main[Data]
        /\ ver' = [ver EXCEPT ![main[Data]] = @ + 1]
        /\ wal' = [wal EXCEPT ![Data] = None]
     \/ UNCHANGED <<ver, wal>>
  /\ UNCHANGED <<main, tree, dropin, current, marker, journal, rolldir, roots, bridge,
                 counts>>

\* _switch_subject_trees writes ahead which roots were present
WriteRoots ==
  /\ Doing("roots") /\ Done
  /\ roots' = roots \cup {op.task}
  /\ UNCHANGED <<main, wal, tree, ver, dropin, current, marker, journal, rolldir, svc,
                 bridge, counts>>

\* The staged tree and the staged database take the places of the former ones
PutStaged ==
  /\ op.todo # <<>> /\ Step \in {"putTree", "install"} /\ Done
  /\ tree' = IF Step = "putTree" THEN [tree EXCEPT ![Data] = op.task] ELSE tree
  /\ main' = IF Step = "install" THEN [main EXCEPT ![Data] = op.task] ELSE main
  /\ UNCHANGED <<wal, ver, dropin, current, marker, journal, rolldir, roots, svc, bridge,
                 counts>>

\* _write_target_dropin and daemon-reload, or _restore_dropin
WriteDropin ==
  /\ op.todo # <<>> /\ Step \in {"dropin", "dropinBack"} /\ Done
  /\ dropin' = IF Step = "dropin" THEN op.task ELSE journal[op.task].dropin
  /\ UNCHANGED <<main, wal, tree, ver, current, marker, journal, rolldir, roots, svc,
                 bridge, counts>>

\* systemctl start: its recovery prerequisite finds the lock held and does nothing
Start ==
  /\ Doing("start") /\ ~Blocked /\ Done
  /\ up' = TRUE /\ wanted' = TRUE
  /\ UNCHANGED <<disk, bridge, counts>>

\* wait_ready returns True
Ready ==
  /\ op.todo # <<>> /\ Step \in {"ready", "readyBack"} /\ ~Blocked /\ Done
  /\ UNCHANGED <<disk, svc, bridge, counts>>

\* current.json is replaced, or _restore_current_runtime_owner
WriteOwner ==
  /\ op.todo # <<>> /\ Step \in {"owner", "ownerBack"} /\ ~Blocked /\ Done
  /\ current' = IF Step = "owner" THEN op.task ELSE journal[op.task].owner
  /\ UNCHANGED <<main, wal, tree, ver, dropin, marker, journal, rolldir, roots, svc,
                 bridge, counts>>

\* The marker file is replaced
Mark ==
  /\ op.todo # <<>> /\ Step \in Markers /\ Done
  /\ marker' = [marker EXCEPT ![op.task] = Step]
  /\ UNCHANGED <<main, wal, tree, ver, dropin, current, journal, rolldir, roots, svc,
                 bridge, counts>>

(***************************************************************************)
(* Requests and their results.                                             *)
(***************************************************************************)

Report(res) == [NoOp EXCEPT !.kind = "report", !.task = op.task, !.for = res]

\* TargetActivationBridge._submit
Submit(o, t) ==
  /\ requests < MaxRequests
  /\ <<o, t>> \notin pend
  /\ o = "activate" => status[<<"deactivate", t>>] # "deactivated"
  /\ status[<<o, t>>] = "none" \/ (o = "deactivate" /\ status[<<o, t>>] = "failed")
  /\ pend' = pend \cup {<<o, t>>}
  /\ requests' = requests + 1
  /\ UNCHANGED <<disk, svc, op, status, batch, counts>>

\* run_target_activation_requests lists the request files
RunnerStart ==
  /\ batch = {} /\ pend # {}
  /\ batch' = pend
  /\ UNCHANGED <<disk, svc, op, pend, status, requests, counts>>

\* Request files are handled in the order of their names
First(r) ==
  /\ r \in batch
  /\ \A q \in batch : r[2] < q[2] \/ (r[2] = q[2] /\ (r[1] = "activate" \/ q[1] = r[1]))

NextRequest(o, t) == First(<<o, t>>) /\ op = NoOp

\* Mutant: the runner handles a request again after it has removed its file
Finish_KeepBatch ==
  /\ op.kind = "report"
  /\ \E r \in batch :
       /\ First(r)
       /\ status' = [status EXCEPT ![r] = op.for]
       /\ pend' = pend \ {r}
  /\ op' = NoOp
  /\ UNCHANGED <<disk, svc, batch, requests, counts>>

\* The runner writes the status file, then removes the request
Finish ==
  /\ op.kind = "report"
  /\ \E r \in batch :
       /\ First(r)
       /\ status' = [status EXCEPT ![r] = op.for]
       /\ pend' = pend \ {r}
       /\ batch' = batch \ {r}
  /\ op' = NoOp
  /\ UNCHANGED <<disk, svc, requests, counts>>

\* A request that meets the lock of a recovery is answered with a failure
LockBusy(r) ==
  /\ First(r)
  /\ op.kind \in {"recover", "recovering"} /\ op.for = "boot"
  /\ status' = [status EXCEPT ![r] = "failed"]
  /\ pend' = pend \ {r}
  /\ batch' = batch \ {r}
  /\ UNCHANGED <<disk, svc, op, requests, counts>>

\* Mutant: a tombstone does not reject a delayed activation
ActivateRefused_NoTombstone(t) ==
  \/ ~up \/ main[Data] = None
  \/ marker[t] \notin {"none", "active", "deactivated"}

\* _activate refuses before it has written anything
ActivateRefused(t) ==
  \/ ~up \/ main[Data] = None
  \/ marker[t] \notin {"none", "active"}

\* _activate: a repeated request returns its receipt, others are refused or start
ActivateBegin(t) ==
  /\ NextRequest("activate", t)
  /\ IF ActivateRefused(t)
       THEN op' = [Report("failed") EXCEPT !.task = t] /\ UNCHANGED rolldir
     ELSE IF marker[t] = "active"
       THEN op' = [Report("active") EXCEPT !.task = t] /\ UNCHANGED rolldir
     ELSE IF t \in rolldir
       THEN op' = [Report("failed") EXCEPT !.task = t] /\ UNCHANGED rolldir
     ELSE /\ rolldir' = rolldir \cup {t}
          /\ op' = IF current # None /\ ~DbOwns(current)
                     THEN [Report("failed") EXCEPT !.task = t]
                   ELSE [NoOp EXCEPT !.kind = "journal", !.task = t]
  /\ UNCHANGED <<main, wal, tree, ver, dropin, current, marker, journal, roots, svc,
                 bridge, counts>>

\* The journal names the runtime that is replaced, while its service is still running
WriteJournal ==
  /\ op.kind = "journal"
  /\ marker' = [marker EXCEPT ![op.task] = "activating"]
  /\ journal' = [journal EXCEPT ![op.task] =
                   [owner |-> current, dropin |-> dropin, digest |-> Digest]]
  /\ op' = [op EXCEPT !.kind = "activate", !.todo = ActivateScript, !.for = "activate"]
  /\ UNCHANGED <<main, wal, tree, ver, dropin, current, rolldir, roots, svc, bridge,
                 counts>>

\* What a deactivation does with the marker it reads
DeactivateFrom(t) ==
  LET fails == [Report("failed") EXCEPT !.task = t]
      receipt == [Report("deactivated") EXCEPT !.task = t]
      cancel == [NoOp EXCEPT !.kind = "cancel", !.task = t, !.todo = <<"deactivated">>]
  IN  CASE marker[t] = "deactivated" -> receipt
        [] marker[t] \in {"none", "failed", "failed_reverted", "recovered"} ->
             IF DbOwns(t) THEN fails ELSE cancel
        [] marker[t] = "active" ->
             IF current = t /\ DbOwns(t) /\ main[Roll(t)] # None
               THEN [NoOp EXCEPT !.kind = "deactivate", !.task = t, !.todo = DeactivateScript]
             ELSE fails
        [] OTHER -> fails

Interrupted == {"activating", "deactivating", "recovery_required"}

\* _deactivate: an interrupted switch is recovered first
DeactivateBegin(t) ==
  /\ NextRequest("deactivate", t)
  /\ op' = IF marker[t] \in Interrupted
             THEN [NoOp EXCEPT !.kind = "recover", !.task = t, !.rest = Tasks, !.for = "cancel"]
           ELSE DeactivateFrom(t)
  /\ UNCHANGED <<disk, svc, bridge, counts>>

\* A script has run to its end
ScriptEnds ==
  /\ op.kind \in {"activate", "restore", "deactivate", "cancel"} /\ op.todo = <<>>
  /\ op' = Report(CASE op.kind = "activate" -> "active"
                    [] op.kind = "restore" -> "failed"
                    [] OTHER -> "deactivated")
  /\ UNCHANGED <<disk, svc, bridge, counts>>

(***************************************************************************)
(* Recovery.                                                               *)
(***************************************************************************)

\* Starting noyra.service first runs recover_incomplete
BootStart ==
  /\ ~up /\ op = NoOp
  /\ op' = [NoOp EXCEPT !.kind = "recover", !.rest = Tasks, !.for = "boot"]
  /\ UNCHANGED <<disk, svc, bridge, counts>>

\* The loop of _recover_incomplete reaches its next marker
RecoverNext ==
  /\ op.kind = "recover" /\ op.todo = <<>> /\ op.rest # {}
  /\ LET t == CHOOSE x \in op.rest : \A y \in op.rest : x <= y
         rest == op.rest \ {t}
     IN  /\ current' = IF marker[t] = "deactivated" /\ current = t THEN None ELSE current
         /\ op' = IF marker[t] \in Interrupted
                    THEN [op EXCEPT !.kind = "recovering", !.rest = rest,
                                    !.task = t, !.todo = RecoverScript(t)]
                  ELSE [op EXCEPT !.rest = rest]
  /\ UNCHANGED <<main, wal, tree, ver, dropin, marker, journal, rolldir, roots, svc,
                 bridge, counts>>

RecoverContinues ==
  /\ op.kind = "recovering" /\ op.todo = <<>>
  /\ op' = [op EXCEPT !.kind = "recover"]
  /\ UNCHANGED <<disk, svc, bridge, counts>>

\* Recovery is over: the service starts, or the deactivation goes on with its marker
RecoverEnds ==
  /\ op.kind = "recover" /\ op.todo = <<>> /\ op.rest = {}
  /\ \/ /\ op.for = "boot"
        /\ up' = (main[Data] # None) /\ wanted' = up' /\ op' = NoOp
     \/ /\ op.for = "cancel"
        /\ \E r \in batch : First(r) /\ op' = DeactivateFrom(r[2])
        /\ UNCHANGED svc
  /\ UNCHANGED <<disk, bridge, counts>>

\* What follows an exception: activation restores, recovery and deactivation give up
AfterRaise ==
  LET t == op.task IN
  CASE op.kind = "activate" /\ Step = "stage" ->
         [marker |-> "failed", op |-> Report("failed")]
    [] op.kind = "activate" /\ Step # "stage" ->
         [marker |-> marker[t],
          op |-> [op EXCEPT !.kind = "restore", !.todo = RestoreScript(t)]]
    [] op.kind = "restore" -> [marker |-> "recovery_required", op |-> Report("failed")]
    [] op.kind = "deactivate" -> [marker |-> "deactivating", op |-> Report("failed")]
    [] op.kind = "cancel" -> [marker |-> marker[t], op |-> Report("failed")]
    [] op.kind = "recovering" ->
         [marker |-> marker[t], op |-> IF op.for = "boot" THEN NoOp ELSE Report("failed")]

\* A step raises: because it must, or because the file system or systemd fails
Raise ==
  /\ op.todo # <<>>
  /\ \/ Blocked /\ UNCHANGED faults
     \/ ~Blocked /\ faults < MaxFaults /\ faults' = faults + 1
  /\ marker' = [marker EXCEPT ![op.task] = AfterRaise.marker]
  /\ op' = AfterRaise.op
  /\ wanted' = (wanted /\ ~(op.kind = "recovering" /\ op.for = "boot"))
  /\ UNCHANGED <<main, wal, tree, ver, dropin, current, journal, rolldir, roots, up,
                 bridge, writes, crashes>>

\* The controller dies: its lock is released, the request file stays
ControllerCrash ==
  /\ op # NoOp /\ crashes < MaxCrashes
  /\ crashes' = crashes + 1
  /\ op' = NoOp /\ batch' = {}
  /\ wanted' = (wanted /\ op.for # "boot")
  /\ UNCHANGED <<disk, up, pend, status, requests, writes, faults>>

\* The host dies: the service with it, whose log stays on disk
HostCrash ==
  /\ up \/ op # NoOp
  /\ crashes < MaxCrashes
  /\ crashes' = crashes + 1
  /\ up' = FALSE /\ wanted' = TRUE /\ op' = NoOp /\ batch' = {}
  /\ UNCHANGED <<disk, pend, status, requests, writes, faults>>

ControllerStep ==
  \/ Stage \/ Stop \/ Move \/ WriteRoots \/ PutStaged \/ WriteDropin \/ Start \/ Ready
  \/ WriteOwner \/ Mark \/ ScriptEnds \/ Finish \/ WriteJournal
  \/ RecoverNext \/ RecoverContinues \/ RecoverEnds

Next ==
  \/ ServiceWrites \/ Checkpoint
  \/ \E o \in Operations, t \in Tasks : Submit(o, t)
  \/ RunnerStart \/ BootStart
  \/ \E r \in batch : LockBusy(r)
  \/ \E t \in Tasks : ActivateBegin(t) \/ DeactivateBegin(t)
  \/ ControllerStep \/ Raise
  \/ ControllerCrash \/ HostCrash

Spec == Init /\ [][Next]_vars

\* The path unit starts the runner again while request files exist, a script goes
\* on while its process lives, and systemd carries out the start it was asked for.
\* An operator's start of a service that was stopped is not assumed.
Fairness ==
  /\ WF_vars(ControllerStep) /\ WF_vars(Raise /\ Blocked)
  /\ WF_vars(RunnerStart) /\ WF_vars(BootStart /\ wanted)
  /\ WF_vars(\E t \in Tasks : ActivateBegin(t) \/ DeactivateBegin(t))

LiveSpec == Spec /\ Fairness

\* The start of the service is retried for as long as it is down
RetrySpec == LiveSpec /\ WF_vars(BootStart)

(***************************************************************************)
(* Properties.                                                             *)
(***************************************************************************)

TypeOK ==
  /\ main \in [Locs -> Dbs \cup {None}]
  /\ wal \in [Locs -> Dbs \cup {None}]
  /\ tree \in [Locs -> Dbs \cup {None}]
  /\ ver \in [Dbs -> 0..MaxWrites]
  /\ up \in BOOLEAN /\ wanted \in BOOLEAN
  /\ {dropin, current} \subseteq Tasks \cup {None}
  /\ marker \in [Tasks -> Markers]
  /\ rolldir \subseteq Tasks /\ roots \subseteq rolldir
  /\ op.task \in Tasks \cup {None} /\ op.rest \subseteq Tasks
  /\ batch \subseteq pend /\ pend \subseteq Operations \X Tasks

\* A task whose deactivation is recorded or reported is never the served runtime again, whatever
\* activation request arrives late and wherever the controller dies
\* (the tombstone of _deactivate, and the order of its steps).
DeactivatedStaysOut ==
  \A t \in Tasks :
    marker[t] = "deactivated" \/ status[<<"deactivate", t>>] = "deactivated"
      => main[Data] # t

Settled == op = NoOp /\ \A t \in Tasks : marker[t] \notin Interrupted

\* With no switch in progress or interrupted, the host has a database and the subject
\* tree of the same runtime (_activate, _deactivate, _restore_previous_runtime and
\* _recover_incomplete leave no mixture behind, however often they are interrupted).
SettledPaired ==
  Settled => main[Data] # None /\ tree[Data] = main[Data]

\* With no switch in progress or interrupted, the unit configuration and current.json
\* name the runtime that is served: recovery can repeat after any move.
SettledAgrees ==
  Settled => /\ main[Data] = IF current = None THEN Home ELSE current
             /\ dropin = current

\* No switch, failure or recovery destroys the database or the tree of a runtime that
\* was served: each is at exactly one place (_move_database_set never overwrites).
NothingOverwritten ==
  \A f \in {main, tree} :
    /\ \E l \in Locs : f[l] = Home
    /\ \A t \in Tasks : marker[t] = "active" => \E l \in Locs : f[l] = t
    /\ \A k, l \in Locs : f[k] = f[l] /\ f[k] # None => k = l

\* _recover_incomplete finds the former database after every interruption of a switch.
RecoveryFindsDatabase == ~Doing("unavailable")

\* The service never runs on a database whose write-ahead log is missing or is another's
\* (_move_database_set moves the two files one after the other).
ServedWhole ==
  up => /\ wal[Data] \in {None, main[Data]}
        /\ \A l \in Locs \ {Data} : wal[l] # None => wal[l] # main[Data]

\* After a recorded deactivation the service runs again.
DeactivationRestores ==
  \A t \in Tasks : status[<<"deactivate", t>>] = "deactivated" ~> up

\* Whatever step a crash or an exception interrupts, the service runs again once its
\* start is retried: every recovery can be repeated until it ends (_recover_incomplete).
ServiceReturns == []<>up
=============================================================================

------------------------------ MODULE Runtime -------------------------------
(***************************************************************************)
(* One runtime process and the durable state it leaves behind: the service *)
(* thread (boot, integrity audit, tick, shutdown: service.py and           *)
(* autonomy/loop.py), the operator's lifecycle controls                    *)
(* (core/operator_controls.py, served by HTTP threads), ordinary and       *)
(* recovery requests, and crashes, around the admission gate (Gate.tla)    *)
(* and the lifecycle (Lifecycle.tla).                                      *)
(*                                                                         *)
(*   gate, lease, holder   the gate, its leases, and who keeps its lock: a *)
(*              worker inside a commit, or the operator's control, which   *)
(*              runs inside lifecycle_control_scope from start to end      *)
(*   lifecycle  the durable row of runtime_state                           *)
(*   sleep      the durable open row of sleep_runs ("reflected": status    *)
(*              reflective_sleep with a committed reflection)              *)
(*   findings, pending   the integrity controller's active findings and    *)
(*              its flag pause_pending, both persisted                     *)
(*   owned      the process runs and holds the process lock                *)
(*   recovering _boot_recovery_pending;  stopping  _integrity_stop         *)
(*   loop       where the service thread is; boot: inside service.boot     *)
(*   ctl        the operator's control in progress                         *)
(*                                                                         *)
(* Epochs are kept up to the one comparison the code makes with them: the  *)
(* gate's epoch is always Now, a lease cut off by a newer epoch has epoch  *)
(* 0.  Whether the lifecycle version passed to open() exceeds the epoch is *)
(* left open, so no counter needs a bound.                                 *)
(***************************************************************************)
EXTENDS Gate, Lifecycle

CONSTANTS
  Requests,    \* HTTP mutation threads
  Tick,        \* the active tick, which also takes a lease
  Operator,    \* the lifecycle control's thread
  Nobody, NoLease,
  Mode,        \* integrity policy: "off", "alert" or "pause"
  Crashes      \* whether the process may die

ASSUME ModeAssumption == Mode \in {"off", "alert", "pause"} /\ Crashes \in BOOLEAN
ASSUME ThreadsAssumption ==
  Tick \notin Requests /\ {Operator, Nobody} \cap (Requests \cup {Tick}) = {} /\ Operator # Nobody
ASSUME NoLeaseAssumption == NoLease \notin Lease

VARIABLES gate, lease, holder, lifecycle, sleep, findings, pending,
          owned, recovering, stopping, loop, ctl

durable == <<lifecycle, sleep, findings, pending>>
gateVars == <<gate, lease, holder>>
process == <<owned, recovering, stopping>>
vars == <<gateVars, durable, process, loop, ctl>>

Workers == Requests \cup {Tick}
Controls == {"pause", "resume", "wake", "reset"}
SleepRuns == SleepStates \cup {"none", "reflected"}

Now == 1
Leaseless == [w \in Workers |-> NoLease]
Down == [at |-> "down", arg |-> "none", boot |-> FALSE]
NoControl == [at |-> "idle", op |-> "none"]

Init ==
  /\ gate = [NewGate EXCEPT !.epoch = Now]
  /\ lease = Leaseless
  /\ holder = Nobody
  /\ lifecycle = "stopped"
  /\ sleep = "none"
  /\ findings = FALSE
  /\ pending = FALSE
  /\ owned = FALSE
  /\ recovering = FALSE
  /\ stopping = FALSE
  /\ loop = Down
  /\ ctl = NoControl

-----------------------------------------------------------------------------

Unlocked == holder = Nobody

\* A gate method ran and left the gate as g.
GateBecomes(g) ==
  /\ gate' = [g EXCEPT !.epoch = Now]
  /\ lease' = [w \in Workers |->
                 IF lease[w] = NoLease \/ lease[w].epoch = g.epoch THEN lease[w]
                 ELSE [lease[w] EXCEPT !.epoch = 0]]

\* admission.open(epoch=version) and admission.open().
OpensAt == \E e \in {Now, Now + 1} : GateBecomes(Opened(gate, e))
Opens == GateBecomes(Opened(gate, 0))

At(place) == loop.at = place
Goto(place) == loop' = [loop EXCEPT !.at = place]
GotoWith(place, arg) == loop' = [loop EXCEPT !.at = place, !.arg = arg]

\* service.boot, or the tick, has returned.
Return == loop' = [at |-> "idle", arg |-> "none", boot |-> FALSE]

Blocking == Mode = "pause" /\ findings

\* IntegrityRuntimeController.summary()["pause_pending"].
PausePending == Mode = "pause" /\ (pending \/ (findings /\ lifecycle # "paused"))

\* _http_quarantine_active.
HttpQuarantine == recovering \/ Blocking \/ PausePending

\* HTTP is served once boot has returned.
Serving == owned /\ ~loop.boot

-----------------------------------------------------------------------------
(* Boot.  The same code completes a boot that a startup finding deferred.  *)

Boot ==
  /\ ~owned
  /\ owned' = TRUE
  /\ recovering' = TRUE
  /\ GateBecomes(Quarantined(gate))
  /\ loop' = [at |-> "audit", arg |-> "none", boot |-> TRUE]
  /\ UNCHANGED <<holder, durable, stopping, ctl>>

\* recover_after_integrity.
Recover ==
  /\ At("recover")
  /\ lifecycle' = Restarted(lifecycle)
  /\ Goto(IF lifecycle' = "booting" THEN "orient" ELSE "settle")
  /\ UNCHANGED <<gateVars, sleep, findings, pending, process, ctl>>

\* Any recovery step may raise, before or after its transaction.
RecoverFails ==
  /\ loop.at \in {"recover", "orient", "activate", "open", "settle"}
  /\ Goto("shutdown")
  /\ UNCHANGED <<gateVars, durable, process, ctl>>

Orient ==
  /\ At("orient")
  /\ CanMove(lifecycle, "orienting")
  /\ lifecycle' = "orienting"
  /\ Goto("activate")
  /\ UNCHANGED <<gateVars, sleep, findings, pending, process, ctl>>

Activate ==
  /\ At("activate")
  /\ CanMove(lifecycle, "active")
  /\ lifecycle' = "active"
  /\ Goto("open")
  /\ UNCHANGED <<gateVars, sleep, findings, pending, process, ctl>>

ActivateOpens ==
  /\ At("open")
  /\ Unlocked
  /\ OpensAt
  /\ Goto("settle")
  /\ UNCHANGED <<holder, durable, process, ctl>>

\* _boot_recovery_pending is cleared and the lifecycle read ...
Settle ==
  /\ At("settle")
  /\ recovering' = FALSE
  /\ Goto(IF lifecycle = "active" THEN "admit" ELSE "wait")
  /\ UNCHANGED <<gateVars, durable, owned, stopping, ctl>>

\* Policy synchronisation and cognition's bootstrap follow, and may raise.
AfterBoot ==
  \/ IF loop.boot THEN Return ELSE Goto("judge")
  \/ Goto("shutdown")

\* ... then admission is opened, or only the quarantine is lifted.
Admit ==
  /\ At("admit")
  /\ Unlocked
  /\ OpensAt
  /\ AfterBoot
  /\ UNCHANGED <<holder, durable, process, ctl>>

LiftQuarantine ==
  /\ At("wait")
  /\ Unlocked
  /\ ClearQuarantineAllowed(gate)
  /\ GateBecomes(QuarantineCleared(gate))
  /\ AfterBoot
  /\ UNCHANGED <<holder, durable, process, ctl>>

-----------------------------------------------------------------------------
(* The integrity audit, in a worker thread that the service thread awaits. *)

\* _apply_pending_pause: a finding is known and the lifecycle is active.
PauseStillDue == Mode = "pause" /\ findings /\ lifecycle = "active" /\ ~loop.boot

\* Mutant: the pause is flagged again but not applied.
AuditResumesPause_FlagOnly ==
  /\ At("audit")
  /\ PauseStillDue
  /\ pending' = TRUE
  /\ GotoWith("verdict", "none")
  /\ UNCHANGED <<gateVars, lifecycle, sleep, findings, process, ctl>>

\* The known finding goes to the policy again, without a new audit.
AuditResumesPause ==
  /\ At("audit")
  /\ PauseStillDue
  /\ pending' = TRUE
  /\ Goto("policy")
  /\ UNCHANGED <<gateVars, lifecycle, sleep, findings, process, ctl>>

\* Nothing is due (or a shutdown stopped the audit): no report.
AuditSkips ==
  /\ At("audit")
  /\ ~PauseStillDue
  /\ Mode = "off" \/ ~loop.boot
  /\ pending' = (Mode = "pause" /\ findings /\ lifecycle # "paused")
  /\ GotoWith("verdict", "none")
  /\ UNCHANGED <<gateVars, lifecycle, sleep, findings, process, ctl>>

\* _commit_report: what the checks found (f) is made durable first.
CommitReport(f) ==
  /\ findings' = f
  /\ pending' = (f /\ Mode = "pause")

AuditRuns(f) ==
  /\ At("audit")
  /\ ~PauseStillDue
  /\ Mode # "off"
  /\ CommitReport(f)
  /\ Goto("policy")
  /\ UNCHANGED <<gateVars, lifecycle, sleep, process, ctl>>

\* The watchdog raises: a check crashed, or its report could not be written.
\* The tick is deferred, at boot the service stops.
AuditFails ==
  /\ loop.at \in {"audit", "policy"}
  /\ Mode # "off"
  /\ IF loop.boot THEN Goto("shutdown") ELSE Return
  /\ UNCHANGED <<gateVars, durable, process, ctl>>

\* _apply_policy up to safe_pause.
Policy ==
  /\ At("policy")
  /\ \/ /\ ~Blocking
        /\ GotoWith("verdict", "clean")
        /\ UNCHANGED pending
     \/ /\ Blocking /\ lifecycle = "paused"
        /\ pending' = FALSE
        /\ GotoWith("verdict", "already_paused")
     \/ /\ Blocking /\ lifecycle \notin {"paused", "active"}
        /\ pending' = TRUE
        /\ GotoWith("verdict", "pause_deferred")
     \/ /\ Blocking /\ lifecycle = "active"
        /\ Goto("quarantine")
        /\ UNCHANGED pending
  /\ UNCHANGED <<gateVars, lifecycle, sleep, findings, process, ctl>>

\* Mutant: the pause is recorded first and the quarantine left to the verdict.
SafePauseQuarantines_Later ==
  /\ At("quarantine")
  /\ Goto("safe_read")
  /\ UNCHANGED <<gateVars, durable, process, ctl>>

\* SubjectKernel.safe_pause quarantines first ...
SafePauseQuarantines ==
  /\ At("quarantine")
  /\ Unlocked
  /\ GateBecomes(Quarantined(gate))
  /\ Goto("safe_read")
  /\ UNCHANGED <<holder, durable, process, ctl>>

\* ... then LifecycleManager.safe_pause reads the lifecycle ...
SafePauseReads ==
  /\ At("safe_read")
  /\ CASE lifecycle = "paused" -> Goto("safe_after") /\ UNCHANGED pending
       [] lifecycle = "active" -> Goto("safe_tx") /\ UNCHANGED pending
       [] OTHER -> GotoWith("verdict", "pause_failed") /\ pending' = TRUE
  /\ UNCHANGED <<gateVars, lifecycle, sleep, findings, process, ctl>>

\* ... and pauses it in a second transaction.
SafePauseCommits ==
  /\ At("safe_tx")
  /\ CanMove(lifecycle, "paused")
  /\ lifecycle' = "paused"
  /\ Goto("safe_after")
  /\ UNCHANGED <<gateVars, sleep, findings, pending, process, ctl>>

\* The transaction fails, or the migration source epoch cannot be written
\* although the pause is committed.
SafePauseFails ==
  /\ loop.at \in {"safe_tx", "safe_after"}
  /\ pending' = TRUE
  /\ GotoWith("verdict", "pause_failed")
  /\ UNCHANGED <<gateVars, lifecycle, sleep, findings, process, ctl>>

\* _apply_policy reads the lifecycle once more to see whether the pause held.
SafePauseChecks ==
  /\ At("safe_after")
  /\ pending' = (lifecycle # "paused")
  /\ GotoWith("verdict", IF lifecycle = "paused" THEN "paused" ELSE "pause_lost")
  /\ UNCHANGED <<gateVars, lifecycle, sleep, findings, process, ctl>>

-----------------------------------------------------------------------------
(* _integrity_pre_tick after the worker has returned. *)

Verdict ==
  /\ At("verdict")
  /\ \/ /\ stopping
        /\ Return
     \/ /\ ~stopping /\ loop.boot /\ loop.arg = "pause_failed"
        /\ Goto("shutdown")
     \/ /\ ~stopping /\ recovering /\ ~(loop.boot /\ loop.arg = "pause_failed")
        /\ Goto(IF Blocking THEN "hold" ELSE "recover")
     \/ /\ ~stopping /\ ~recovering
        /\ Goto("judge")
  /\ UNCHANGED <<gateVars, durable, process, ctl>>

\* Mutant: a report that found nothing new lets the tick go on.
Judge_ReportOnly ==
  /\ At("judge")
  /\ CASE loop.arg \in {"paused", "pause_lost"} -> Goto("hold")
       [] loop.arg = "pause_failed" -> Goto("shutdown")
       [] loop.arg \notin {"none", "paused", "pause_lost", "pause_failed"} /\ lifecycle = "active" -> Goto("reopen")
       [] OTHER -> Goto("tick")
  /\ UNCHANGED <<gateVars, durable, process, ctl>>

\* Mutant: admission is not reopened after a clean report.
Judge_NoReopen ==
  /\ At("judge")
  /\ Goto(IF Blocking \/ PausePending THEN "hold" ELSE "tick")
  /\ UNCHANGED <<gateVars, durable, process, ctl>>

\* The report, the findings and the lifecycle decide what this tick may do.
Judge ==
  /\ At("judge")
  /\ LET report == loop.arg
     IN  CASE report = "none" /\ PausePending -> Goto("hold")
           [] report = "none" /\ ~PausePending -> Goto("tick")
           [] report \in {"paused", "already_paused"} /\ lifecycle = "paused" -> Goto("hold")
           [] report = "pause_failed" -> Goto("shutdown")
           [] report \notin {"none", "pause_failed"} /\ Blocking -> Goto("hold")
           [] report \notin {"none", "pause_failed"} /\ ~Blocking /\ lifecycle = "active" -> Goto("reopen")
           [] OTHER -> Goto("tick")
  /\ UNCHANGED <<gateVars, durable, process, ctl>>

Hold ==
  /\ At("hold")
  /\ Unlocked
  /\ GateBecomes(Quarantined(gate))
  /\ Return
  /\ UNCHANGED <<holder, durable, process, ctl>>

\* The lifecycle was active when it was read: unless the gate is draining,
\* admission is opened with the version read then.
Reopen ==
  /\ At("reopen")
  /\ Unlocked
  /\ IF gate.closed THEN UNCHANGED <<gate, lease>> ELSE OpensAt
  /\ Goto("tick")
  /\ UNCHANGED <<holder, durable, process, ctl>>

-----------------------------------------------------------------------------
(* AutonomyLoop.tick. *)

\* Mutant: run_forever does not look at its stop event between ticks.
PreTick_Unstopped ==
  /\ At("idle")
  /\ Goto("audit")
  /\ UNCHANGED <<gateVars, durable, process, ctl>>

\* run_forever starts the next tick with the integrity watchdog.
PreTick ==
  /\ At("idle")
  /\ ~stopping
  /\ Goto("audit")
  /\ UNCHANGED <<gateVars, durable, process, ctl>>

\* An open circuit breaker, or a lifecycle with nothing to do, waits.
TickReads ==
  /\ At("tick")
  /\ \/ Return
     \/ lifecycle \in SleepStates /\ sleep # "none" /\ GotoWith("advance", sleep)
     \/ lifecycle = "active" /\ GotoWith("start", "first")
     \/ lifecycle = "active" /\ GotoWith("hook", "done")
  /\ UNCHANGED <<gateVars, durable, process, ctl>>

\* The run a sleep method moves to, and the lifecycle that goes with it.
NextSleep ==
  [winding_down |-> "reflective_sleep", reflective_sleep |-> "reflected",
   reflected |-> "deep_sleep", deep_sleep |-> "waking", waking |-> "none"]

SleepLifecycle(run) ==
  CASE run = "none" -> "active"
    [] run = "reflected" -> "reflective_sleep"
    [] OTHER -> run

\* begin_reflection, commit_reflection, enter_deep_sleep, wake, complete_wake:
\* run and lifecycle move in one transaction, which reads both again.
Advance ==
  /\ At("advance")
  /\ sleep = loop.arg
  /\ sleep' = NextSleep[sleep]
  /\ LET to == SleepLifecycle(sleep')
     IN  /\ lifecycle # to => CanMove(lifecycle, to)
         /\ lifecycle' = to
  /\ Return
  /\ UNCHANGED <<gateVars, findings, pending, process, ctl>>

\* The run has moved on, an action has not settled, the wake time has not
\* come, or the reflection failed.
AdvanceWaits ==
  /\ At("advance")
  /\ Return
  /\ UNCHANGED <<gateVars, durable, process, ctl>>

\* SleepEngine.start.
StartSleep ==
  /\ At("start")
  /\ sleep = "none" /\ lifecycle = "active"
  /\ sleep' = "winding_down" /\ lifecycle' = "winding_down"
  /\ Return
  /\ UNCHANGED <<gateVars, findings, pending, process, ctl>>

\* SleepStateConflictError: the hook gets a chance to settle what is open, then
\* start is tried again; past the deadline the loop pauses the runtime.
SleepConflict ==
  /\ At("start")
  /\ \/ loop.arg = "first" /\ GotoWith("hook", "retry")
     \/ loop.arg = "retry" /\ Return
     \/ loop.arg = "retry" /\ Goto("pause")
  /\ UNCHANGED <<gateVars, durable, process, ctl>>

AfterHook == IF loop.arg = "retry" THEN Goto("start") ELSE Return

\* _active_tick takes a lease, or gives up.
HookBegins ==
  /\ At("hook")
  /\ Unlocked
  /\ IF ~stopping /\ BeginAllowed(gate, owned, TRUE, FALSE)
     THEN /\ gate' = Begun(gate)
          /\ lease' = [lease EXCEPT ![Tick] = NewLease(gate, FALSE)]
          /\ Goto("working")
     ELSE /\ AfterHook
          /\ UNCHANGED <<gate, lease>>
  /\ UNCHANGED <<holder, durable, process, ctl>>

HookEnds ==
  /\ At("working")
  /\ Unlocked
  /\ gate' = Finished(gate)
  /\ lease' = [lease EXCEPT ![Tick] = NoLease]
  /\ AfterHook
  /\ UNCHANGED <<holder, durable, process, ctl>>

\* SubjectKernel.pause, called by the loop outside lifecycle_control_scope.
LoopPauseFences ==
  /\ At("pause")
  /\ Unlocked
  /\ GateBecomes(Invalidated(gate, FALSE, FALSE))
  /\ Goto("pause_tx")
  /\ UNCHANGED <<holder, durable, process, ctl>>

LoopPauseCommits ==
  /\ At("pause_tx")
  /\ \/ /\ CanMove(lifecycle, "paused") \/ lifecycle = "paused"
        /\ lifecycle' = "paused"
        /\ Return
     \/ /\ UNCHANGED lifecycle
        /\ IF lifecycle = "active" THEN Goto("pause_undo") ELSE Return
  /\ UNCHANGED <<gateVars, sleep, findings, pending, process, ctl>>

\* The transaction failed although the lifecycle is active: admission reopens.
LoopPauseReopens ==
  /\ At("pause_undo")
  /\ Unlocked
  /\ Opens
  /\ Return
  /\ UNCHANGED <<holder, durable, process, ctl>>

-----------------------------------------------------------------------------
(* Lifecycle controls.  Each holds the gate's lock from entry to end.      *)

\* do_POST: lifecycle_control_scope, then allow_mutation again under the lock.
Enter(op) ==
  /\ Serving
  /\ Unlocked
  /\ LifecycleScopeAllowed(gate)
  /\ ~HttpQuarantine
  /\ holder' = Operator
  /\ ctl' = [at |-> "read", op |-> op]
  /\ UNCHANGED <<gate, lease, durable, process, loop>>

Leave == holder' = Nobody /\ ctl' = NoControl
Doing(op, place) == ctl = [at |-> place, op |-> op]

\* What each control requires of the state it reads before it commits.
Ready(op) ==
  CASE op = "pause"  -> lifecycle = "active"
    [] op = "resume" -> ~Blocking /\ lifecycle = "paused"
    [] op = "wake"   -> ~Blocking /\ lifecycle = "deep_sleep" /\ sleep = "deep_sleep"
    [] op = "reset"  -> ~Blocking /\ lifecycle = "paused" /\ gate.active = 0

\* pause and reset invalidate every lease before they commit.
ControlReads(op) ==
  /\ Doing(op, "read")
  /\ IF Ready(op)
     THEN /\ IF op \in {"pause", "reset"}
             THEN GateBecomes(Invalidated(gate, FALSE, FALSE))
             ELSE UNCHANGED <<gate, lease>>
          /\ ctl' = [ctl EXCEPT !.at = "tx"]
          /\ UNCHANGED holder
     ELSE Leave /\ UNCHANGED <<gate, lease>>
  /\ UNCHANGED <<durable, process, loop>>

\* Work that is not settled, an export or a failed transaction refuses it.
ControlRefused(op) ==
  /\ op # "pause"
  /\ Doing(op, "tx")
  /\ Leave
  /\ UNCHANGED <<gate, lease, durable, process, loop>>

PauseCommits ==
  /\ Doing("pause", "tx")
  /\ CanMove(lifecycle, "paused") \/ lifecycle = "paused"
  /\ lifecycle' = "paused"
  /\ Leave
  /\ UNCHANGED <<gate, lease, sleep, findings, pending, process, loop>>

\* The pause failed: admission is restored if the lifecycle is still active.
PauseFails ==
  /\ Doing("pause", "tx")
  /\ IF lifecycle = "active" THEN Opens ELSE UNCHANGED <<gate, lease>>
  /\ Leave
  /\ UNCHANGED <<durable, process, loop>>

ResumeCommits ==
  /\ Doing("resume", "tx")
  /\ CanMove(lifecycle, "active")
  /\ lifecycle' = "active"
  /\ OpensAt
  /\ Leave
  /\ UNCHANGED <<sleep, findings, pending, process, loop>>

\* The lifecycle moved but the migration source epoch could not be written:
\* the control reports a failure and admission stays shut.
ResumeUnsynced ==
  /\ Doing("resume", "tx")
  /\ CanMove(lifecycle, "active")
  /\ lifecycle' = "active"
  /\ Leave
  /\ UNCHANGED <<gate, lease, sleep, findings, pending, process, loop>>

\* wake_early: both lifecycle edges and the run in one transaction.  A run
\* that completed meanwhile is left alone, a run already waking is a conflict.
WakeCommits ==
  /\ Doing("wake", "tx")
  /\ sleep # "waking"
  /\ IF sleep = "deep_sleep"
     THEN sleep' = "none" /\ lifecycle' = "active"
     ELSE UNCHANGED <<sleep, lifecycle>>
  /\ OpensAt
  /\ Leave
  /\ UNCHANGED <<findings, pending, process, loop>>

\* reset: stopped, resetting, booting, orienting, active in one transaction.
ResetCommits ==
  /\ Doing("reset", "tx")
  /\ sleep = "none"
  /\ CanMove(lifecycle, "stopped")
  /\ lifecycle' = "active"
  /\ OpensAt
  /\ Leave
  /\ UNCHANGED <<sleep, findings, pending, process, loop>>

-----------------------------------------------------------------------------
(* Requests, and the commits of everyone who has a lease. *)

\* do_POST: allow_mutation has only advised; begin() decides.
BeginRequest(w, allow) ==
  /\ Serving
  /\ Unlocked
  /\ lease[w] = NoLease
  /\ BeginAllowed(gate, owned, TRUE, allow)
  /\ gate' = Begun(gate)
  /\ lease' = [lease EXCEPT ![w] = NewLease(gate, allow)]
  /\ UNCHANGED <<holder, durable, process, loop, ctl>>

EndRequest(w) ==
  /\ Unlocked
  /\ lease[w] # NoLease
  /\ gate' = Finished(gate)
  /\ lease' = [lease EXCEPT ![w] = NoLease]
  /\ UNCHANGED <<holder, durable, process, loop, ctl>>

EnterCommit(w) ==
  /\ Unlocked
  /\ lease[w] # NoLease
  /\ AssertCurrent(gate, lease[w], owned, TRUE)
  /\ holder' = w
  /\ UNCHANGED <<gate, lease, durable, process, loop, ctl>>

LeaveCommit(w) ==
  /\ holder = w
  /\ holder' = Nobody
  /\ UNCHANGED <<gate, lease, durable, process, loop, ctl>>

-----------------------------------------------------------------------------
(* Shutdown and crash. *)

\* Where the service thread awaits, so that a signal handler can run.
Awaiting ==
  {"idle", "audit", "policy", "quarantine", "safe_read", "safe_tx", "safe_after",
   "advance", "working"}

\* request_shutdown, from a signal.
Signal ==
  /\ loop.at \in Awaiting /\ ~loop.boot
  /\ ~stopping
  /\ Unlocked
  /\ GateBecomes(Draining(gate))
  /\ stopping' = TRUE
  /\ UNCHANGED <<holder, durable, owned, recovering, loop, ctl>>

\* request_shutdown after a failed recovery or pause, and boot's error path.
Shutdown ==
  /\ At("shutdown")
  /\ Unlocked
  /\ GateBecomes(Draining(gate))
  /\ stopping' = TRUE
  /\ Return
  /\ UNCHANGED <<holder, durable, owned, recovering, ctl>>

\* Mutant: run's finally clause trusts that request_shutdown has drained.
Drain_Once ==
  /\ At("idle")
  /\ stopping
  /\ Goto("closing")
  /\ UNCHANGED <<gateVars, durable, process, ctl>>

\* run's finally clause drains once more, whoever asked for the shutdown ...
Drain ==
  /\ At("idle")
  /\ stopping
  /\ Unlocked
  /\ GateBecomes(Draining(gate))
  /\ Goto("closing")
  /\ UNCHANGED <<holder, durable, process, ctl>>

\* Mutant: the lock is released without waiting for the leases.
Release_NoDrain ==
  /\ At("closing")
  /\ Unlocked /\ ctl = NoControl
  /\ gate' = [NewGate EXCEPT !.epoch = Now]
  /\ owned' = FALSE /\ recovering' = FALSE /\ stopping' = FALSE
  /\ loop' = Down
  /\ UNCHANGED <<lease, holder, durable, ctl>>

\* ... then requests are joined, wait_for_drain returns, the lock goes.  The
\* next process starts with a new gate.
Release ==
  /\ At("closing")
  /\ Unlocked /\ ctl = NoControl
  /\ gate.active = 0
  /\ gate' = [NewGate EXCEPT !.epoch = Now]
  /\ owned' = FALSE /\ recovering' = FALSE /\ stopping' = FALSE
  /\ loop' = Down
  /\ UNCHANGED <<lease, holder, durable, ctl>>

\* The process dies; what is durable stays.
Crash ==
  /\ Crashes /\ owned
  /\ gate' = [NewGate EXCEPT !.epoch = Now]
  /\ lease' = Leaseless
  /\ holder' = Nobody
  /\ owned' = FALSE /\ recovering' = FALSE /\ stopping' = FALSE
  /\ loop' = Down
  /\ ctl' = NoControl
  /\ UNCHANGED durable

-----------------------------------------------------------------------------

BootStep ==
  \/ Boot \/ Recover \/ RecoverFails \/ Orient \/ Activate \/ ActivateOpens
  \/ Settle \/ Admit \/ LiftQuarantine

AuditStep ==
  \/ AuditResumesPause \/ AuditSkips \/ (\E f \in BOOLEAN : AuditRuns(f))
  \/ AuditFails \/ Policy \/ SafePauseQuarantines \/ SafePauseReads
  \/ SafePauseCommits \/ SafePauseFails \/ SafePauseChecks \/ Verdict \/ Judge \/ Hold \/ Reopen

TickStep ==
  \/ PreTick \/ TickReads \/ Advance \/ AdvanceWaits \/ StartSleep \/ SleepConflict
  \/ HookBegins \/ HookEnds \/ LoopPauseFences \/ LoopPauseCommits \/ LoopPauseReopens

LoopStep == BootStep \/ AuditStep \/ TickStep \/ Shutdown \/ Drain \/ Release

ControlStep ==
  \/ \E op \in Controls : ControlReads(op) \/ ControlRefused(op)
  \/ PauseCommits \/ PauseFails \/ ResumeCommits \/ ResumeUnsynced \/ WakeCommits \/ ResetCommits

Next ==
  \/ LoopStep
  \/ ControlStep
  \/ \E op \in Controls : Enter(op)
  \/ \E w \in Requests : (\E allow \in BOOLEAN : BeginRequest(w, allow)) \/ EndRequest(w)
  \/ \E w \in Workers : EnterCommit(w) \/ LeaveCommit(w)
  \/ Signal \/ Crash

Spec == Init /\ [][Next]_vars

(***************************************************************************)
(* Threads keep running, commits and requests end, and an audit falls due  *)
(* again and again as time passes and does not fail every time.  The       *)
(* service thread is strongly fair: it waits for the gate's lock, which    *)
(* others release and take again.                                          *)
(***************************************************************************)
FairSpec ==
  /\ Spec
  /\ SF_vars(LoopStep)
  /\ SF_vars(AuditResumesPause \/ \E f \in BOOLEAN : AuditRuns(f))
  /\ SF_vars(Policy)
  /\ WF_vars(ControlStep)
  /\ \A w \in Workers : WF_vars(LeaveCommit(w))
  /\ \A w \in Requests : SF_vars(EndRequest(w))

-----------------------------------------------------------------------------
(* Properties. *)

Outstanding == {w \in Workers : lease[w] # NoLease}

\* Every variable keeps its type, and the lock's holder is doing what the
\* lock is held for.
TypeOK ==
  /\ gate \in GateState /\ gate.epoch = Now /\ ~gate.fenced /\ ~gate.control
  /\ lease \in [Workers -> Lease \cup {NoLease}]
  /\ holder \in Workers \cup {Operator, Nobody}
  /\ lifecycle \in LifecycleStates
  /\ sleep \in SleepRuns
  /\ {findings, pending, owned, recovering, stopping, loop.boot} \subseteq BOOLEAN
  /\ ctl \in [at : {"idle", "read", "tx"}, op : Controls \cup {"none"}]
  /\ holder = Operator <=> ctl # NoControl

\* The open sleep run and the lifecycle tell the same story in every state a
\* crash can leave behind, though tick, operator and restart all move them.
SleepRunMatchesLifecycle ==
  IF sleep = "none" THEN lifecycle \notin SleepStates ELSE lifecycle = SleepLifecycle(sleep)

\* Under the pause policy the tick never advances a sleep run over an unresolved
\* finding, whatever the operator, a failed audit or a restart did in between
\* (test_pause_pending_quarantines_all_sleep_progression).
FindingsHoldSleep == Blocking => ~At("advance")

\* Once safe_pause has quarantined the gate, nobody moves the lifecycle under
\* it: its pause commits and is not lost ("pause_failed" would stop the service).
SafePauseHolds ==
  /\ loop.at = "safe_tx" => lifecycle = "active"
  /\ loop.at = "safe_after" => lifecycle = "paused"

\* After run's last begin_drain no operation begins in this process, although a
\* pause that fails meanwhile calls open(), which also clears the drain.
DrainIsFinal == [][At("closing") => Outstanding' \subseteq Outstanding]_vars

\* The process lock is never given up while an operation holds a lease
\* ("Every operation lease must be finished before the subject lock is released").
LockOutlivesLeases == ~owned => Outstanding = {}

\* Tick, operator, restart and shutdown hand the runtime over without a gap:
\* the three properties above, with the types.
HandoversHold == TypeOK /\ FindingsHoldSleep /\ SafePauseHolds /\ LockOutlivesLeases

\* A requested shutdown completes: no thread waits on another forever.
ShutdownCompletes == stopping ~> ~owned

\* An active lifecycle does not stay without admission ("must not strand an
\* otherwise active runtime with admission permanently closed").
ActiveIsServed ==
  (owned /\ lifecycle = "active")
    ~> (Accepting(gate) \/ lifecycle # "active" \/ Blocking \/ stopping \/ ~owned)

\* Under the pause policy a finding that the operator's resume overtook pauses
\* the runtime after all.
FindingsPauseTheRuntime ==
  (owned /\ Blocking /\ lifecycle = "active")
    ~> (lifecycle # "active" \/ ~Blocking \/ stopping \/ ~owned)

\* A paused runtime admits no ordinary work
\* (test_clean_integrity_report_does_not_reopen_paused_admission).
PausedStaysShut == lifecycle = "paused" => ~Accepting(gate)
=============================================================================

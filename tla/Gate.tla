-------------------------------- MODULE Gate --------------------------------
(***************************************************************************)
(* The methods of RuntimeAdmissionGate (src/noyra/core/admission.py) as    *)
(* functions of the gate's state.  Every method runs under the gate's one  *)
(* re-entrant lock, so a method is one value-to-value function here; who   *)
(* holds the lock, and for how long, is modelled by the modules that call  *)
(* these functions.                                                        *)
(*                                                                         *)
(*   owned   process_lock.held                                             *)
(*   clear   migration_clear_check(): no durable migration epoch, pending  *)
(*           rollback or fence file blocks this runtime                    *)
(*                                                                         *)
(* ownership_check is owned /\ clear; control_ownership_check is owned     *)
(* (SubjectKernel.__init__ passes these three callbacks).                  *)
(***************************************************************************)
EXTENDS Integers

\* _migration_fence_epoch = None.  A fence always has a positive epoch.
NoFence == 0

GateState ==
  [epoch: Nat, active: Nat, accepting: BOOLEAN, quarantined: BOOLEAN,
   closed: BOOLEAN, fenced: BOOLEAN, fenceEpoch: Nat, control: BOOLEAN]

\* RuntimeAdmissionGate.__init__ as SubjectKernel calls it (not accepting).
NewGate ==
  [epoch |-> 0, active |-> 0, accepting |-> FALSE, quarantined |-> FALSE,
   closed |-> FALSE, fenced |-> FALSE, fenceEpoch |-> NoFence,
   control |-> FALSE]

\* The `accepting` property: what allow_mutation and the health routes read.
Accepting(g) == g.accepting /\ ~g.closed /\ ~g.fenced

-----------------------------------------------------------------------------
(* open(epoch=e); open() is Opened(g, 0), which leaves the epoch alone. *)

OpenAllowed(g, clear) == g.fenced => clear

Opened(g, e) ==
  [g EXCEPT !.epoch = IF e > g.epoch THEN e ELSE g.epoch,
            !.quarantined = FALSE,
            !.accepting   = TRUE,
            !.fenced      = FALSE,
            !.fenceEpoch  = NoFence,
            !.closed      = FALSE]

(* invalidate(quarantined=q, closed=c) and its two named uses. *)

\* Mutant: the epoch moves only when admission was open.
Invalidated_IfOpen(g, q, c) ==
  [g EXCEPT !.epoch       = IF g.accepting THEN g.epoch + 1 ELSE g.epoch,
            !.accepting   = FALSE,
            !.quarantined = q \/ g.quarantined,
            !.closed      = c \/ g.closed]

Invalidated(g, q, c) ==
  [g EXCEPT !.epoch       = g.epoch + 1,
            !.accepting   = FALSE,
            !.quarantined = q \/ g.quarantined,
            !.closed      = c \/ g.closed]

Quarantined(g) == Invalidated(g, TRUE, FALSE)

Draining(g) == Invalidated(g, FALSE, TRUE)

(* clear_quarantine(): ends a startup quarantine without opening. *)

ClearQuarantineAllowed(g) == ~g.closed

QuarantineCleared(g) == [g EXCEPT !.quarantined = FALSE, !.accepting = FALSE]

-----------------------------------------------------------------------------
(* The migration control scope and the fence it may raise and clear. *)

ControlAllowed(g, owned) ==
  owned /\ ~g.closed /\ ~g.quarantined /\ ~g.control

ControlEntered(g) == [g EXCEPT !.control = TRUE]

ControlLeft(g) == [g EXCEPT !.control = FALSE]

FenceAllowed(g) == g.control /\ ~g.closed

Fenced(g) ==
  [g EXCEPT !.epoch      = g.epoch + 1,
            !.accepting  = FALSE,
            !.fenced     = TRUE,
            !.fenceEpoch = g.epoch + 1]

ClearFenceAllowed(g, e, clear) ==
  g.control /\ g.fenceEpoch = e /\ ~g.closed /\ clear

FenceCleared(g) ==
  [g EXCEPT !.fenced     = FALSE,
            !.fenceEpoch = NoFence,
            !.accepting  = ~g.quarantined]

-----------------------------------------------------------------------------
(* Leases.  allow is allow_quarantine, set only for recovery endpoints. *)

Lease == [epoch: Nat, allow: BOOLEAN]

\* Mutant: a recovery operation may begin under a migration fence.
Admits_Unfenced(g, allow) ==
  /\ ~g.closed
  /\ ~g.fenced \/ allow
  /\ g.accepting \/ allow
  /\ ~g.quarantined \/ allow

Admits(g, allow) ==
  /\ ~g.closed
  /\ ~g.fenced
  /\ g.accepting \/ allow
  /\ ~g.quarantined \/ allow

BeginAllowed(g, owned, clear, allow) == owned /\ clear /\ Admits(g, allow)

Begun(g) == [g EXCEPT !.active = g.active + 1]

NewLease(g, allow) == [epoch |-> g.epoch, allow |-> allow]

\* Mutant: finish() forgets to count the operation off.
Finished_Leak(g) == g

\* Mutant: the scope and the caller both finish one lease, without the clamp.
Finished_Twice(g) == [g EXCEPT !.active = g.active - 2]

Finished(g) == [g EXCEPT !.active = IF g.active > 0 THEN g.active - 1 ELSE 0]

\* _assert_current_locked without its ownership callback.
Current(g, l) == l.epoch = g.epoch /\ Admits(g, l.allow)

AssertCurrent(g, l, owned, clear) == owned /\ clear /\ Current(g, l)

\* lifecycle_control_scope(): the operator's pause, resume, reset and wake.
LifecycleScopeAllowed(g) == ~g.closed /\ ~g.quarantined

=============================================================================

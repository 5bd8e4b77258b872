--------------------------- MODULE AdmissionGate ----------------------------
(***************************************************************************)
(* RuntimeAdmissionGate under arbitrary callers: any thread may call any   *)
(* method at any time that the method itself permits.  What holds here     *)
(* holds whatever the service does with the gate; Runtime.tla shows what   *)
(* the service does with it.                                               *)
(*                                                                         *)
(*   gate    the gate's fields                                             *)
(*   holder  who keeps the gate's lock across more than one step: a worker *)
(*           inside commit_scope/external_side_effect_scope, or nobody     *)
(*   lease   the outstanding OperationLease of each worker                 *)
(*   ctl     the one migration controller: outside its scope, inside it,   *)
(*           waiting for the drain of its fence, or past that drain        *)
(*   owned, clear   the answers of the ownership callbacks; the process    *)
(*           lock and the epoch table change without the gate's lock       *)
(*   cut     history: workers whose outstanding lease has been fenced off  *)
(***************************************************************************)
EXTENDS Gate, FiniteSets

CONSTANTS
  Workers,    \* operations that may hold a lease at the same time
  MaxEpoch    \* bound on the epoch, and on the versions passed to open

CONSTANT Nobody, NoLease

ASSUME WorkersAssumption == IsFiniteSet(Workers) /\ Nobody \notin Workers
ASSUME LeaseAssumption == NoLease \notin Lease
ASSUME EpochAssumption == MaxEpoch \in Nat

VARIABLES gate, holder, lease, ctl, owned, clear, cut

vars == <<gate, holder, lease, ctl, owned, clear, cut>>

Outstanding == {w \in Workers : lease[w] # NoLease}

Unlocked == holder = Nobody

Init ==
  /\ gate = NewGate
  /\ holder = Nobody
  /\ lease = [w \in Workers |-> NoLease]
  /\ ctl = "outside"
  /\ owned \in BOOLEAN
  /\ clear \in BOOLEAN
  /\ cut = {}

-----------------------------------------------------------------------------
(* Methods that open or close admission. *)

Open(e) ==
  /\ Unlocked
  /\ OpenAllowed(gate, clear)
  /\ gate' = Opened(gate, e)
  /\ cut' = IF e > gate.epoch THEN Outstanding ELSE cut
  /\ UNCHANGED <<holder, lease, ctl, owned, clear>>

\* Mutant: invalidate() does not wait for the lock of a commit in progress.
Invalidate_Unlocked(q, c) ==
  /\ gate.epoch < MaxEpoch
  /\ gate' = Invalidated(gate, q, c)
  /\ cut' = Outstanding
  /\ UNCHANGED <<holder, lease, ctl, owned, clear>>

Invalidate(q, c) ==
  /\ Unlocked
  /\ gate.epoch < MaxEpoch
  /\ gate' = Invalidated(gate, q, c)
  /\ cut' = Outstanding
  /\ UNCHANGED <<holder, lease, ctl, owned, clear>>

ClearQuarantine ==
  /\ Unlocked
  /\ ClearQuarantineAllowed(gate)
  /\ gate' = QuarantineCleared(gate)
  /\ UNCHANGED <<holder, lease, ctl, owned, clear, cut>>

-----------------------------------------------------------------------------
(* The migration controller. *)

EnterControl ==
  /\ Unlocked
  /\ ctl = "outside"
  /\ ControlAllowed(gate, owned)
  /\ gate' = ControlEntered(gate)
  /\ ctl' = "inside"
  /\ UNCHANGED <<holder, lease, owned, clear, cut>>

\* The scope's finally clause runs on success and on every exception.
LeaveControl ==
  /\ Unlocked
  /\ ctl # "outside"
  /\ gate' = ControlLeft(gate)
  /\ ctl' = "outside"
  /\ UNCHANGED <<holder, lease, owned, clear, cut>>

\* fence_for_migration raises the fence, then waits outside the lock.
Fence ==
  /\ Unlocked
  /\ ctl = "inside"
  /\ FenceAllowed(gate)
  /\ gate.epoch < MaxEpoch
  /\ gate' = Fenced(gate)
  /\ ctl' = "draining"
  /\ cut' = Outstanding
  /\ UNCHANGED <<holder, lease, owned, clear>>

FenceDrained ==
  /\ Unlocked
  /\ ctl = "draining"
  /\ gate.active = 0
  /\ ctl' = "drained"
  /\ UNCHANGED <<gate, holder, lease, owned, clear, cut>>

ClearFence(e) ==
  /\ Unlocked
  /\ ctl # "outside"
  /\ ClearFenceAllowed(gate, e, clear)
  /\ gate' = FenceCleared(gate)
  /\ ctl' = "inside"
  /\ UNCHANGED <<holder, lease, owned, clear, cut>>

-----------------------------------------------------------------------------
(* Operations. *)

Begin(w, allow) ==
  /\ Unlocked
  /\ lease[w] = NoLease
  /\ BeginAllowed(gate, owned, clear, allow)
  /\ gate' = Begun(gate)
  /\ lease' = [lease EXCEPT ![w] = NewLease(gate, allow)]
  /\ UNCHANGED <<holder, ctl, owned, clear, cut>>

\* commit_scope: the lock is taken, the lease asserted, and the lock kept
\* until the transaction has been committed or rolled back.
EnterCommit(w) ==
  /\ Unlocked
  /\ lease[w] # NoLease
  /\ AssertCurrent(gate, lease[w], owned, clear)
  /\ holder' = w
  /\ UNCHANGED <<gate, lease, ctl, owned, clear, cut>>

LeaveCommit(w) ==
  /\ holder = w
  /\ holder' = Nobody
  /\ UNCHANGED <<gate, lease, ctl, owned, clear, cut>>

Finish(w) ==
  /\ Unlocked
  /\ lease[w] # NoLease
  /\ gate' = Finished(gate)
  /\ lease' = [lease EXCEPT ![w] = NoLease]
  /\ cut' = cut \ {w}
  /\ UNCHANGED <<holder, ctl, owned, clear>>

\* The process lock and the epoch table are not protected by the gate's lock.
Environment ==
  /\ owned' \in BOOLEAN
  /\ clear' \in BOOLEAN
  /\ UNCHANGED <<gate, holder, lease, ctl, cut>>

\* The process ends; the next one builds a new gate and has no leases.
Restart ==
  /\ gate' = NewGate
  /\ holder' = Nobody
  /\ lease' = [w \in Workers |-> NoLease]
  /\ ctl' = "outside"
  /\ cut' = {}
  /\ UNCHANGED <<owned, clear>>

-----------------------------------------------------------------------------

Next ==
  \/ \E e \in 0..MaxEpoch : Open(e)
  \/ \E q, c \in BOOLEAN : Invalidate(q, c)
  \/ ClearQuarantine
  \/ EnterControl \/ LeaveControl \/ Fence \/ FenceDrained
  \/ \E e \in 1..MaxEpoch : ClearFence(e)
  \/ \E w \in Workers, allow \in BOOLEAN : Begin(w, allow)
  \/ \E w \in Workers : EnterCommit(w) \/ LeaveCommit(w) \/ Finish(w)
  \/ Environment
  \/ Restart

Spec == Init /\ [][Next]_vars

\* Every lease is finished in a finally clause, every scope is a `with`
\* block, and the drain waits on a condition that finish() notifies.
FairSpec ==
  /\ Spec
  /\ \A w \in Workers : WF_vars(LeaveCommit(w)) /\ WF_vars(Finish(w))
  /\ WF_vars(FenceDrained)

-----------------------------------------------------------------------------
(* Properties *)

\* Every variable keeps its type; in particular the count of operations in
\* flight (RuntimeAdmissionGate._active) never goes below zero.
TypeOK ==
  /\ gate \in GateState
  /\ holder \in Workers \cup {Nobody}
  /\ lease \in [Workers -> Lease \cup {NoLease}]
  /\ ctl \in {"outside", "inside", "draining", "drained"}
  /\ owned \in BOOLEAN
  /\ clear \in BOOLEAN
  /\ cut \subseteq Workers

\* A transaction that is being committed inside commit_scope is admissible at
\* every instant until it is durable: no pause, quarantine, drain or fence
\* slips in between the assertion of the lease and the commit.
CommitIsCurrent ==
  \A w \in Workers : holder = w =>
    /\ lease[w] # NoLease
    /\ lease[w].epoch = gate.epoch
    /\ ~gate.closed /\ ~gate.fenced
    /\ gate.quarantined => lease[w].allow

\* Once an invalidation, a fence or a newer lifecycle version has passed over
\* an outstanding lease, that lease never again enters a commit scope,
\* however often admission is closed and reopened afterwards.
CutLeaseNeverCommits == holder \notin cut

\* The count that wait_for_drain waits on is the number of leases out.
ActiveCountsLeases == gate.active = Cardinality(Outstanding)

\* After fence_for_migration has returned and for as long as its fence stands,
\* no operation of any kind is in flight, recovery operations included.
DrainedStaysQuiet ==
  ctl = "drained" /\ gate.fenced => Outstanding = {}

\* A raised migration fence does not wait forever: the wait ends, or the fence
\* is taken away by open().
FenceDrains == ctl = "draining" ~> (ctl # "draining" \/ ~gate.fenced)

=============================================================================

------------------------ MODULE AdmissionGateProofs -------------------------
(***************************************************************************)
(* Proofs about RuntimeAdmissionGate for any finite set of workers and any *)
(* bound on the epoch.                                                     *)
(*                                                                         *)
(* A cut lease stays harmless because its epoch is strictly below the      *)
(* gate's for as long as it is outstanding (CutIsStale), and the epoch     *)
(* never moves backwards within one process; a lease inside a commit scope *)
(* carries the gate's own epoch (CommitIsCurrent), because nothing that    *)
(* moves the epoch can run while the lock is held.                         *)
(***************************************************************************)
EXTENDS AdmissionGate, FiniteSetTheorems, TLAPS

\* No lease carries an epoch the gate has not reached.
LeasesFromThePast ==
  \A w \in Workers : lease[w] # NoLease => lease[w].epoch <= gate.epoch

\* A fenced-off lease is still outstanding and its epoch is behind.
CutIsStale ==
  \A w \in cut : lease[w] # NoLease /\ lease[w].epoch < gate.epoch

\* The inductive invariant; the lease count is added by a second induction.
FenceInv ==
  /\ TypeOK
  /\ LeasesFromThePast
  /\ CutIsStale
  /\ CommitIsCurrent
  /\ DrainedStaysQuiet

IInv == FenceInv /\ ActiveCountsLeases

-----------------------------------------------------------------------------

\* Every gate method maps gate states to gate states.
LEMMA GateMethodsTyped ==
  ASSUME NEW g \in GateState, NEW e \in Nat, NEW q \in BOOLEAN, NEW c \in BOOLEAN
  PROVE  /\ Opened(g, e) \in GateState
         /\ Invalidated(g, q, c) \in GateState
         /\ QuarantineCleared(g) \in GateState
         /\ ControlEntered(g) \in GateState
         /\ ControlLeft(g) \in GateState
         /\ Fenced(g) \in GateState
         /\ FenceCleared(g) \in GateState
         /\ Begun(g) \in GateState
         /\ Finished(g) \in GateState
         /\ NewLease(g, q) \in Lease
<1> USE DEF GateState
<1>1. Opened(g, e) \in GateState
  BY DEF Opened, NoFence
<1>2. Invalidated(g, q, c) \in GateState
  <2>1. g.epoch + 1 \in Nat
    OBVIOUS
  <2>2. (q \/ g.quarantined) \in BOOLEAN /\ (c \/ g.closed) \in BOOLEAN
    OBVIOUS
  <2>3. QED
    BY <2>1, <2>2 DEF Invalidated, GateState
<1>3. QuarantineCleared(g) \in GateState
  BY DEF QuarantineCleared
<1>4. ControlEntered(g) \in GateState /\ ControlLeft(g) \in GateState
  BY DEF ControlEntered, ControlLeft
<1>5. Fenced(g) \in GateState
  <2>1. g.epoch + 1 \in Nat
    OBVIOUS
  <2>2. QED
    BY <2>1 DEF Fenced, GateState
<1>6. FenceCleared(g) \in GateState
  BY DEF FenceCleared, NoFence
<1>7. Begun(g) \in GateState /\ Finished(g) \in GateState
  BY DEF Begun, Finished
<1>8. NewLease(g, q) \in Lease
  BY DEF NewLease, Lease
<1>9. QED
  BY <1>1, <1>2, <1>3, <1>4, <1>5, <1>6, <1>7, <1>8

LEMMA InitInv == Init => IInv
<1> SUFFICES ASSUME Init
             PROVE  IInv
  OBVIOUS
<1>1. FenceInv
  BY WorkersAssumption
     DEF Init, FenceInv, TypeOK, LeasesFromThePast, CutIsStale,
         CommitIsCurrent, DrainedStaysQuiet, NewGate, GateState, NoFence
<1>2. ActiveCountsLeases
  <2>1. Outstanding = {} /\ gate.active = 0
    BY DEF Init, Outstanding, NewGate
  <2>2. QED
    BY <2>1, FS_EmptySet DEF ActiveCountsLeases
<1>3. QED
  BY <1>1, <1>2 DEF IInv

\* A drained gate has no lease out.
LEMMA NoneWhenZero ==
  ASSUME TypeOK, ActiveCountsLeases, gate.active = 0
  PROVE  Outstanding = {}
<1>1. IsFiniteSet(Outstanding)
  BY WorkersAssumption, FS_Subset DEF Outstanding
<1>2. QED
  BY <1>1, FS_EmptySet DEF ActiveCountsLeases

\* begin() and finish() keep the count and the leases together.
LEMMA CountStep ==
  ASSUME TypeOK, ActiveCountsLeases, [Next]_vars
  PROVE  ActiveCountsLeases'
<1>1. IsFiniteSet(Outstanding)
  BY WorkersAssumption, FS_Subset DEF Outstanding
<1>2. ASSUME NEW w \in Workers, NEW allow \in BOOLEAN, Begin(w, allow)
      PROVE  ActiveCountsLeases'
  <2>1. Outstanding' = Outstanding \cup {w} /\ w \notin Outstanding
    <3>1. NewLease(gate, allow) # NoLease
      BY GateMethodsTyped, LeaseAssumption, 0 \in Nat DEF TypeOK
    <3>2. QED
      BY <1>2, <3>1 DEF Begin, Outstanding, TypeOK
  <2>2. gate'.active = gate.active + 1
    BY <1>2 DEF Begin, Begun, TypeOK, GateState
  <2>3. QED
    BY <1>1, <2>1, <2>2, FS_AddElement DEF ActiveCountsLeases
<1>3. ASSUME NEW w \in Workers, Finish(w)
      PROVE  ActiveCountsLeases'
  <2>1. Outstanding' = Outstanding \ {w} /\ w \in Outstanding
    BY <1>3 DEF Finish, Outstanding, TypeOK
  <2>2. gate.active # 0
    BY <2>1, NoneWhenZero
  <2>3. gate'.active = gate.active - 1
    BY <1>3, <2>2 DEF Finish, Finished, TypeOK, GateState
  <2>4. QED
    BY <1>1, <2>1, <2>3, FS_RemoveElement DEF ActiveCountsLeases
<1>4. CASE Restart
  <2>1. Outstanding' = {} /\ gate'.active = 0
    BY <1>4 DEF Restart, Outstanding, NewGate
  <2>2. QED
    BY <2>1, FS_EmptySet DEF ActiveCountsLeases
<1>5. ASSUME lease' = lease, gate'.active = gate.active
      PROVE  ActiveCountsLeases'
  BY <1>5 DEF ActiveCountsLeases, Outstanding
<1>6. ASSUME NEW e \in 0..MaxEpoch, Open(e) \/ ClearFence(e)
      PROVE  ActiveCountsLeases'
  BY <1>6, <1>5 DEF Open, Opened, ClearFence, FenceCleared, TypeOK, GateState
<1>7. ASSUME NEW q \in BOOLEAN, NEW c \in BOOLEAN, Invalidate(q, c)
      PROVE  ActiveCountsLeases'
  BY <1>7, <1>5 DEF Invalidate, Invalidated, TypeOK, GateState
<1>8. CASE ClearQuarantine \/ EnterControl \/ LeaveControl \/ Fence \/ FenceDrained
  BY <1>8, <1>5
     DEF ClearQuarantine, EnterControl, LeaveControl, Fence, FenceDrained,
         QuarantineCleared, ControlEntered, ControlLeft, Fenced, TypeOK, GateState
<1>9. ASSUME NEW w \in Workers, EnterCommit(w) \/ LeaveCommit(w)
      PROVE  ActiveCountsLeases'
  BY <1>9, <1>5 DEF EnterCommit, LeaveCommit
<1>10. CASE Environment \/ UNCHANGED vars
  BY <1>10, <1>5 DEF Environment, vars
<1>11. QED
  BY <1>2, <1>3, <1>4, <1>6, <1>7, <1>8, <1>9, <1>10, EpochAssumption DEF Next

\* The inductive step: one case per gate method.
LEMMA FenceStep ==
  ASSUME FenceInv, ActiveCountsLeases, [Next]_vars
  PROVE  FenceInv'
<1> USE WorkersAssumption, LeaseAssumption, EpochAssumption
        DEF FenceInv, TypeOK, LeasesFromThePast, CutIsStale, CommitIsCurrent,
            DrainedStaysQuiet, Outstanding, Unlocked
<1>1. ASSUME NEW e \in 0..MaxEpoch, Open(e)
      PROVE  FenceInv'
  <2>1. gate' \in GateState
    BY <1>1, GateMethodsTyped DEF Open
  <2>2. gate'.epoch \in Nat /\ gate'.epoch >= gate.epoch /\ gate'.fenced = FALSE
        /\ (e > gate.epoch => gate'.epoch > gate.epoch)
    BY <1>1 DEF Open, Opened, GateState
  <2>3. QED
    BY <1>1, <2>1, <2>2 DEF Open, Lease, GateState
<1>2. ASSUME NEW q \in BOOLEAN, NEW c \in BOOLEAN, Invalidate(q, c)
      PROVE  FenceInv'
  <2>1. gate' \in GateState
    BY <1>2, GateMethodsTyped, 0 \in Nat DEF Invalidate
  <2>2. gate'.epoch = gate.epoch + 1 /\ gate'.fenced = gate.fenced
    BY <1>2 DEF Invalidate, Invalidated, GateState
  <2>3. QED
    BY <1>2, <2>1, <2>2 DEF Invalidate, Lease, GateState
<1>3. CASE ClearQuarantine
  BY <1>3 DEF ClearQuarantine, QuarantineCleared, GateState, Lease
<1>4. CASE EnterControl
  BY <1>4 DEF EnterControl, ControlEntered, GateState, Lease
<1>5. CASE LeaveControl
  BY <1>5 DEF LeaveControl, ControlLeft, GateState, Lease
<1>6. CASE Fence
  <2>1. gate' \in GateState
    BY <1>6, GateMethodsTyped, 0 \in Nat, TRUE \in BOOLEAN DEF Fence
  <2>2. gate'.epoch = gate.epoch + 1
    BY <1>6 DEF Fence, Fenced, GateState
  <2>3. QED
    BY <1>6, <2>1, <2>2 DEF Fence, Lease, GateState
<1>7. CASE FenceDrained
  BY <1>7, NoneWhenZero DEF FenceDrained
<1>8. ASSUME NEW e \in 1..MaxEpoch, ClearFence(e)
      PROVE  FenceInv'
  BY <1>8 DEF ClearFence, FenceCleared, NoFence, GateState, Lease
<1>9. ASSUME NEW w \in Workers, NEW allow \in BOOLEAN, Begin(w, allow)
      PROVE  FenceInv'
  <2>1. gate' \in GateState /\ lease'[w] \in Lease /\ lease'[w].epoch = gate.epoch
    BY <1>9, GateMethodsTyped, 0 \in Nat DEF Begin, NewLease
  <2>2. gate'.epoch = gate.epoch /\ gate'.fenced = gate.fenced /\ gate.fenced = FALSE
    BY <1>9 DEF Begin, Begun, BeginAllowed, Admits, GateState
  <2>3. QED
    BY <1>9, <2>1, <2>2 DEF Begin, Lease, GateState
<1>10. ASSUME NEW w \in Workers, EnterCommit(w)
       PROVE  FenceInv'
  BY <1>10 DEF EnterCommit, AssertCurrent, Current, Admits, GateState, Lease
<1>11. ASSUME NEW w \in Workers, LeaveCommit(w)
       PROVE  FenceInv'
  BY <1>11 DEF LeaveCommit
<1>12. ASSUME NEW w \in Workers, Finish(w)
       PROVE  FenceInv'
  BY <1>12 DEF Finish, Finished, GateState, Lease
<1>13. CASE Environment
  BY <1>13 DEF Environment
<1>14. CASE Restart
  BY <1>14 DEF Restart, NewGate, GateState, NoFence
<1>15. CASE UNCHANGED vars
  BY <1>15 DEF vars
<1>16. QED
  BY <1>1, <1>2, <1>3, <1>4, <1>5, <1>6, <1>7, <1>8, <1>9, <1>10, <1>11,
     <1>12, <1>13, <1>14, <1>15 DEF Next

\* Every reachable state of the gate satisfies the inductive invariant.
THEOREM Invariant == Spec => []IInv
<1>1. IInv /\ [Next]_vars => IInv'
  BY FenceStep, CountStep DEF IInv, FenceInv
<1>2. QED
  BY <1>1, InitInv, PTL DEF Spec

\* The gate's fields, leases and controller state keep their types.
THEOREM TypeCorrect == Spec => []TypeOK
BY Invariant, PTL DEF IInv, FenceInv

\* A lease that a pause, quarantine, drain, fence or newer lifecycle version
\* has passed over never enters commit_scope again (admission.py: commit_scope,
\* _assert_current_locked), for any number of workers and reopenings.
THEOREM FencedLeasesStayOut == Spec => []CutLeaseNeverCommits
<1>1. IInv => CutLeaseNeverCommits
  <2> SUFFICES ASSUME IInv, holder \in cut
               PROVE  FALSE
    BY DEF CutLeaseNeverCommits
  <2>1. holder \in Workers /\ lease[holder].epoch = gate.epoch
    BY DEF IInv, FenceInv, TypeOK, CommitIsCurrent
  <2>2. lease[holder].epoch < gate.epoch /\ gate.epoch \in Nat
    BY DEF IInv, FenceInv, TypeOK, CutIsStale, GateState
  <2>3. QED
    BY <2>1, <2>2
<1>2. QED
  BY <1>1, Invariant, PTL

\* What commit_scope asserted on entry is still true when it leaves.
THEOREM CommitsAreCurrent == Spec => []CommitIsCurrent
BY Invariant, PTL DEF IInv, FenceInv

\* wait_for_drain waits for exactly the leases that are out, and once
\* fence_for_migration has returned nothing runs behind its fence.
THEOREM DrainIsExact == Spec => [](ActiveCountsLeases /\ DrainedStaysQuiet)
BY Invariant, PTL DEF IInv, FenceInv

=============================================================================

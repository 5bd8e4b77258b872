----------------------------- MODULE ToolRunner -----------------------------
(***************************************************************************)
(* Executors, crashes and the operator around the action ledger:           *)
(* ToolRunner.read_text, fetch_document and write_text of                  *)
(* src/noyra/capability/tools.py, restart recovery of core/runtime.py, and *)
(* OperatorControl.reconcile_action.                                       *)
(*                                                                         *)
(*   actions   the ledger, one row per idempotency key                     *)
(*   charges   capability_uses rows recorded for the key's action          *)
(*   grant     the capability grant is active (it can be revoked)          *)
(*   effects   history: how often the key's file was really replaced       *)
(*   job       what each caller of the tools is doing; a job keeps the     *)
(*             record that prepare returned, which may be stale later      *)
(*   op        the reconciliation request the operator is serving          *)
(*   open      the admission gate grants new leases                        *)
(*   fenced    callers (and the operator) whose lease is no longer current *)
(*   up        the process is running                                      *)
(*                                                                         *)
(* A transaction takes the gate's lock and checks the caller's lease       *)
(* before BEGIN IMMEDIATE and keeps the lock to the commit, so it is one   *)
(* step; accounting_scope skips the check.  AdmissionGate.tla justifies    *)
(* reading "fenced" atomically with the step.                              *)
(***************************************************************************)
EXTENDS ActionLedger

CONSTANTS
  Keys,        \* idempotency keys
  Callers,     \* concurrent callers of the tools
  Operator,    \* the operator's request thread
  MaxCharges   \* bound on capability_uses rows per key

ASSUME CallersAssumption == Operator \notin Callers
ASSUME ChargesAssumption == MaxCharges \in Nat

VARIABLES actions, charges, grant, effects, job, op, open, fenced, up

vars == <<actions, charges, grant, effects, job, op, open, fenced, up>>

Idle == [at |-> "idle"]

\* A caller's position: about to run capabilities.use, cancel, start, the
\* tool itself, the check after publication, or finish.
Jobs ==
  {Idle}
    \cup [at : {"charge", "cancel", "start", "run", "check"}, key : Keys,
          seen : {"prepared", "executing"}]
    \cup [at : {"finish"}, key : Keys, outcome : ExecutorCompletion]

Requests ==
  {Idle} \cup [at : {"act"}, key : Keys, seen : ActionStates, outcome : Reconciliation]

Init ==
  /\ actions = [k \in Keys |-> NoRow]
  /\ charges = [k \in Keys |-> 0]
  /\ grant = TRUE
  /\ effects = [k \in Keys |-> 0]
  /\ job = [c \in Callers |-> Idle]
  /\ op = Idle
  /\ open = TRUE
  /\ fenced = {}
  /\ up = TRUE

Current(c) == c \notin fenced

At(c, place) == job[c].at = place
Goto(c, place) == job' = [job EXCEPT ![c].at = place]
Return(c) == job' = [job EXCEPT ![c] = Idle]
Finishing(c, s) ==
  job' = [job EXCEPT ![c] = [at |-> "finish", key |-> job[c].key, outcome |-> s]]

Kind(c) == actions[job[c].key].kind

-----------------------------------------------------------------------------
(* The tools, transaction by transaction. *)

\* Mutant: a record that was prepared before is taken to be charged already.
Prepare_Resumed(c, k, kind) ==
  /\ At(c, "idle") /\ up /\ open
  /\ ~Duplicate(actions[k], kind)
  /\ ~Terminal(actions[k])
  /\ actions' = [actions EXCEPT ![k] = IF Exists(@) THEN @ ELSE Prepared(kind)]
  /\ job' = [job EXCEPT ![c] = [at |-> IF Exists(actions[k]) THEN "start" ELSE "charge",
                               key |-> k, seen |-> actions'[k].status]]
  /\ fenced' = fenced \ {c}
  /\ UNCHANGED <<charges, grant, effects, op, open, up>>

\* Admission grants a lease, prepare commits.  A terminal record, or a key
\* that identifies another action, ends the call at once (no step here).
Prepare(c, k, kind) ==
  /\ At(c, "idle") /\ up /\ open
  /\ ~Duplicate(actions[k], kind)
  /\ ~Terminal(actions[k])
  /\ actions' = [actions EXCEPT ![k] = IF Exists(@) THEN @ ELSE Prepared(kind)]
  /\ job' = [job EXCEPT ![c] = [at |-> "charge", key |-> k, seen |-> actions'[k].status]]
  /\ fenced' = fenced \ {c}
  /\ UNCHANGED <<charges, grant, effects, op, open, up>>

\* capabilities.use records one use, whatever became of the action since.
Charge(c) ==
  /\ At(c, "charge")
  /\ Current(c) /\ grant
  /\ charges[job[c].key] < MaxCharges
  /\ charges' = [charges EXCEPT ![job[c].key] = @ + 1]
  /\ Goto(c, "start")
  /\ UNCHANGED <<actions, grant, effects, op, open, fenced, up>>

\* use raised (no grant, rate limit reached, or the lease is fenced): only a
\* record that was returned as prepared is cancelled.
ChargeFails(c) ==
  /\ At(c, "charge")
  /\ IF job[c].seen = "prepared" THEN Goto(c, "cancel") ELSE Return(c)
  /\ UNCHANGED <<actions, charges, grant, effects, op, open, fenced, up>>

\* Mutant: cancel is decided on the record read by prepare.
Cancel_Stale(c) ==
  /\ At(c, "cancel")
  /\ actions' = [actions EXCEPT ![job[c].key] = IF Current(c) THEN Cancelled(@) ELSE @]
  /\ Return(c)
  /\ UNCHANGED <<charges, grant, effects, op, open, fenced, up>>

\* cancel commits, or raises when the lease is fenced or another caller has
\* started the action meanwhile.
Cancel(c) ==
  /\ At(c, "cancel")
  /\ actions' = [actions EXCEPT ![job[c].key] =
                   IF Current(c) /\ CancelAllowed(@) THEN Cancelled(@) ELSE @]
  /\ Return(c)
  /\ UNCHANGED <<charges, grant, effects, op, open, fenced, up>>

Start(c) ==
  /\ At(c, "start")
  /\ IF Current(c) /\ StartAllowed(actions[job[c].key])
     THEN /\ actions' = [actions EXCEPT ![job[c].key] = Started(@)]
          /\ Goto(c, "run")
     ELSE /\ Return(c)
          /\ UNCHANGED actions
  /\ UNCHANGED <<charges, grant, effects, op, open, fenced, up>>

\* Mutant: write_atomic publishes without current_commit_scope.
Publish_Unfenced(c) ==
  /\ At(c, "run") /\ Kind(c) = "write"
  /\ grant
  /\ effects' = [effects EXCEPT ![job[c].key] = @ + 1]
  /\ IF Current(c) THEN Goto(c, "check") ELSE Finishing(c, "failed")
  /\ UNCHANGED <<actions, charges, grant, op, open, fenced, up>>

\* write_atomic: os.replace inside current_commit_scope, after before_publish
\* has found the charged grant still active.
Publish(c) ==
  /\ At(c, "run") /\ Kind(c) = "write"
  /\ Current(c) /\ grant
  /\ effects' = [effects EXCEPT ![job[c].key] = @ + 1]
  /\ Goto(c, "check")
  /\ UNCHANGED <<actions, charges, grant, op, open, fenced, up>>

\* The lease was fenced before publication: OperationInvalidated.
PublishFenced(c) ==
  /\ At(c, "run") /\ Kind(c) = "write"
  /\ ~Current(c)
  /\ Finishing(c, "failed")
  /\ UNCHANGED <<actions, charges, grant, effects, op, open, fenced, up>>

\* Any other failure before publication: I/O error or a revoked grant.
WriteFails(c) ==
  /\ At(c, "run") /\ Kind(c) = "write"
  /\ Finishing(c, "unknown")
  /\ UNCHANGED <<actions, charges, grant, effects, op, open, fenced, up>>

\* The check after publication reads the grant only, not the lease.
CheckPublished(c) ==
  /\ At(c, "check")
  /\ Finishing(c, IF grant THEN "succeeded" ELSE "unknown")
  /\ UNCHANGED <<actions, charges, grant, effects, op, open, fenced, up>>

\* read_text and fetch_document: the result is kept only if the grant (and,
\* for fetch_document's authorize, the lease) is still good at the end.
Fetch(c) ==
  /\ At(c, "run") /\ Kind(c) \in {"read", "web"}
  /\ \E ok \in BOOLEAN :
       /\ ok => grant /\ (Kind(c) = "web" => Current(c))
       /\ Finishing(c, IF ok THEN "succeeded" ELSE "failed")
  /\ UNCHANGED <<actions, charges, grant, effects, op, open, fenced, up>>

\* Mutant: finish is never called under accounting_scope.
Finish_NoAccounting(c) ==
  /\ At(c, "finish")
  /\ actions' = [actions EXCEPT ![job[c].key] =
                   IF FinishAllowed(@) /\ Current(c) THEN Finished(@, job[c].outcome) ELSE @]
  /\ Return(c)
  /\ UNCHANGED <<charges, grant, effects, op, open, fenced, up>>

\* finish.  write_text and fetch_document settle under accounting_scope;
\* read_text does not, so a fenced read raises and stays executing.
Finish(c) ==
  /\ At(c, "finish")
  /\ LET k == job[c].key
     IN  actions' = [actions EXCEPT ![k] =
           IF FinishAllowed(@) /\ (Kind(c) = "read" => Current(c))
           THEN Finished(@, job[c].outcome)
           ELSE @]
  /\ Return(c)
  /\ UNCHANGED <<charges, grant, effects, op, open, fenced, up>>

-----------------------------------------------------------------------------
(* The operator: reconcile_action reads the status, then calls the ledger. *)

OperatorReads(k, s) ==
  /\ op = Idle /\ up
  /\ actions[k].status \in {"prepared", "unknown"}
  /\ actions[k].status = "prepared" => s = "cancelled"
  /\ op' = [at |-> "act", key |-> k, seen |-> actions[k].status, outcome |-> s]
  /\ fenced' = fenced \ {Operator}
  /\ UNCHANGED <<actions, charges, grant, effects, job, open, up>>

\* The ledger checks the status again in its own transaction; a status that
\* changed is a conflict.
OperatorActs ==
  /\ op # Idle
  /\ LET r == actions[op.key]
         new == CASE op.seen = "prepared" /\ CancelAllowed(r) -> Cancelled(r)
                  [] op.seen = "unknown" /\ ReconcileAllowed(r) -> Reconciled(r, op.outcome)
                  [] OTHER -> r
     IN  actions' = [actions EXCEPT ![op.key] = IF Current(Operator) THEN new ELSE r]
  /\ op' = Idle
  /\ UNCHANGED <<charges, grant, effects, job, open, fenced, up>>

-----------------------------------------------------------------------------
(* The environment: pause and resume, grants, crashes, restart. *)

\* A pause, quarantine or fence: the epoch moves on under every lease.
Fence ==
  /\ up
  /\ open' = FALSE
  /\ fenced' = Callers \cup {Operator}
  /\ UNCHANGED <<actions, charges, grant, effects, job, op, up>>

Reopen ==
  /\ up /\ ~open
  /\ open' = TRUE
  /\ UNCHANGED <<actions, charges, grant, effects, job, op, fenced, up>>

GrantOrRevoke ==
  /\ up
  /\ grant' = ~grant
  /\ UNCHANGED <<actions, charges, effects, job, op, open, fenced, up>>

\* The process dies, or shuts down after its operations drained; every
\* caller is gone.
Crash ==
  /\ up
  /\ up' = FALSE
  /\ open' = FALSE
  /\ job' = [c \in Callers |-> Idle]
  /\ op' = Idle
  /\ UNCHANGED <<actions, charges, grant, effects, fenced>>

\* recover_after_integrity calls recover_interrupted before anything runs.
Boot ==
  /\ ~up
  /\ up' = TRUE
  /\ actions' = [k \in Keys |-> Recovered(actions[k])]
  /\ UNCHANGED <<charges, grant, effects, job, op, open, fenced>>

-----------------------------------------------------------------------------

CallerStep(c) ==
  \/ Charge(c) \/ ChargeFails(c) \/ Cancel(c) \/ Start(c)
  \/ Publish(c) \/ PublishFenced(c) \/ WriteFails(c) \/ CheckPublished(c)
  \/ Fetch(c) \/ Finish(c)

Next ==
  \/ \E c \in Callers :
       \/ CallerStep(c)
       \/ \E k \in Keys, kind \in Kinds : Prepare(c, k, kind)
  \/ \E k \in Keys, s \in Reconciliation : OperatorReads(k, s)
  \/ OperatorActs
  \/ Fence \/ Reopen \/ GrantOrRevoke \/ Crash \/ Boot

Spec == Init /\ [][Next]_vars

\* A thread that is running keeps running until its call returns, and the
\* supervisor restarts a dead process.  Nothing else is assumed.
FairSpec ==
  /\ Spec
  /\ \A c \in Callers : WF_vars(CallerStep(c))
  /\ WF_vars(Boot)

-----------------------------------------------------------------------------
(* Properties. *)

\* Every variable keeps its type.
TypeOK ==
  /\ actions \in [Keys -> Row \cup {NoRow}]
  /\ charges \in [Keys -> 0..MaxCharges]
  /\ grant \in BOOLEAN
  /\ effects \in [Keys -> Nat]
  /\ job \in [Callers -> Jobs]
  /\ op \in Requests
  /\ open \in BOOLEAN
  /\ fenced \subseteq Callers \cup {Operator}
  /\ up \in BOOLEAN

\* Callers that have started the key's action and not yet settled it.
Running(k) == {c \in Callers : job[c].at \in {"run", "check", "finish"} /\ job[c].key = k}

\* At most one execution per idempotency key: however many callers retry and
\* however often the process dies between start and finish, the action starts
\* once, one caller at most runs it, and the file is replaced once at most
\* ("Quarantine interrupted actions as unknown so they cannot execute twice").
AtMostOneExecution ==
  \A k \in Keys :
    /\ actions[k].retry <= 1
    /\ effects[k] <= 1
    /\ \A c, d \in Running(k) : c = d

\* The outcome an executor records for a write tells the truth about the file:
\* "succeeded" was published, "failed" ("write fenced before publication"),
\* "cancelled" and "prepared" were not.  Only "unknown" leaves it open.
RecordIsTruthful ==
  \A k \in Keys :
    LET r == actions[k]
    IN  r.kind = "write" /\ Len(r.log) <= 1 =>
          /\ r.status = "succeeded" => effects[k] = 1
          /\ r.status \in {"prepared", "failed", "cancelled"} => effects[k] = 0

\* verify_integrity accepts every ledger the running system can leave behind,
\* in particular after a crash between any two transactions.
LedgerVerifies == \A k \in Keys : Exists(actions[k]) => Intact(actions[k])

\* No action runs that was not charged to a capability grant.
ChargedBeforeRun == \A k \in Keys : actions[k].retry <= charges[k]

KeepsOutcomes ==
  \A k \in Keys :
    /\ actions[k].status \in Reconciliation => actions'[k] = actions[k]
    /\ actions[k].status = "unknown" =>
         actions'[k].status \in {"unknown"} \cup Reconciliation

\* A known outcome is final, and an unknown one changes only into a known one:
\* no later caller, recovery or operator rewrites what was recorded.
OutcomeIsFinal == [][KeepsOutcomes]_vars

\* The ledger and its executors implement the at-most-once promise.
Phase(s) ==
  CASE s \in {"none", "prepared"} -> "idle"
    [] s = "executing" -> "attempt"
    [] s = "unknown" -> "doubt"
    [] s \in Reconciliation -> "settled"

Promise == INSTANCE AtMostOnce WITH phase <- [k \in Keys |-> Phase(actions[k].status)]

ImplementsAtMostOnce == Promise!ASpec

\* A started write or fetch is settled: fenced or not, its executor records an
\* outcome, or the next boot records "unknown".  (A fenced read waits for the
\* next boot, which nothing forces.)
StartedIsSettled ==
  \A k \in Keys :
    (actions[k].status = "executing" /\ actions[k].kind # "read")
      ~> actions[k].status # "executing"
=============================================================================

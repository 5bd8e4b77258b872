---------------------------- MODULE ActionLedger ----------------------------
(***************************************************************************)
(* The action ledger of src/noyra/core/actions.py: one row of table        *)
(* actions per (subject, idempotency key), its action_revisions, and the   *)
(* behavior log with its revisions.  Every method runs in one BEGIN        *)
(* IMMEDIATE transaction, so each is a function from a row to a row; the   *)
(* modules that run actions say when a method is called.                   *)
(*                                                                         *)
(* A row keeps what the methods branch on or write: the status, the kind   *)
(* of action the key identifies, retry_count, the statuses of its          *)
(* action_revisions in order, and the result statuses of its behavior-log  *)
(* revisions in order (empty: no behavior log was inserted).               *)
(***************************************************************************)
EXTENDS Naturals, Sequences

Kinds == {"read", "web", "write"}

\* ACTION_STATES, EXECUTOR_COMPLETION_STATES and RECONCILIATION_STATES.
ExecutorCompletion == {"succeeded", "failed", "unknown", "cancelled"}
Reconciliation == {"succeeded", "failed", "cancelled"}
ActionStates == {"prepared", "executing"} \cup ExecutorCompletion

NoRow == [status |-> "none", kind |-> "none", retry |-> 0,
        revs |-> << >>, log |-> << >>]

Row == [status : ActionStates, kind : Kinds, retry : Nat,
      revs : Seq(ActionStates), log : Seq(ExecutorCompletion)]

Exists(r) == r.status # "none"
Terminal(r) == r.status \in ExecutorCompletion

(***************************************************************************)
(* prepare: an existing row is returned unchanged when it identifies the   *)
(* same action, and refused when the key identifies a different one.       *)
(***************************************************************************)
Duplicate(r, kind) == Exists(r) /\ r.kind # kind

Prepared(kind) ==
  [status |-> "prepared", kind |-> kind, retry |-> 0,
   revs |-> <<"prepared">>, log |-> << >>]

\* Mutant: start also accepts an action that is already executing.
StartAllowed_Again(r) == r.status \in {"prepared", "executing"}

StartAllowed(r) == r.status = "prepared"

\* Every write of a row appends its new status to the revisions
\* (_record_revision).
Started(r) ==
  [r EXCEPT !.status = "executing", !.retry = @ + 1, !.revs = Append(@, "executing")]

\* Mutant: the outcome is recorded, but the behavior log is forgotten.
Recorded_NoLog(r, s) == [r EXCEPT !.status = s, !.revs = Append(@, s)]

\* Mutant: the behavior log takes its status from the row read before the update.
Recorded_OldRow(r, s) ==
  [r EXCEPT !.status = s, !.revs = Append(@, s), !.log = Append(@, r.status)]

\* An outcome is recorded: the row, its revision, and the behavior log with its
\* initial revision (_insert_behavior_log), or the log's next revision
\* (_append_behavior_log_revision).
Recorded(r, s) ==
  [r EXCEPT !.status = s, !.revs = Append(@, s), !.log = Append(@, s)]

FinishAllowed(r) == r.status = "executing"

Finished(r, s) == Recorded(r, s)

CancelAllowed(r) == r.status = "prepared"

Cancelled(r) == Recorded(r, "cancelled")

\* Mutant: interrupted work goes back to prepared, to be tried again.
Recovered_Replay(r) ==
  IF r.status = "executing" THEN Recorded_NoLog(r, "prepared") ELSE r

\* recover_interrupted, for one row of the SELECT.
Recovered(r) == IF r.status = "executing" THEN Recorded(r, "unknown") ELSE r

ReconcileAllowed(r) == r.status = "unknown" /\ Len(r.log) > 0

Reconciled(r, s) == Recorded(r, s)

(***************************************************************************)
(* verify_integrity, for one row: the last revision carries the row's      *)
(* status; a terminal row has one behavior log and a nonterminal row none; *)
(* a log has at most two revisions, the second only on top of "unknown";   *)
(* the last log revision carries the row's status.                         *)
(***************************************************************************)
Intact(r) ==
  /\ Len(r.revs) > 0 /\ r.revs[Len(r.revs)] = r.status
  /\ Terminal(r) <=> Len(r.log) > 0
  /\ Len(r.log) <= 2
  /\ Len(r.log) = 2 => r.log[1] = "unknown" /\ r.log[2] # "unknown"
  /\ Len(r.log) > 0 => r.log[Len(r.log)] = r.status
=============================================================================

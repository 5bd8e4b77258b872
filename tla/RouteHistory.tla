----------------------------- MODULE RouteHistory -----------------------------
\* The evidence a routed model call leaves (model/resources.py): one decision per
\* call, its attempts, its outcome, and the wait of its purpose, which belongs to
\* a parent (an observation or a sleep run) that may end at any moment
\* (core/cognitive_waits.py). Every row is written in a transaction of its own, so
\* a crash may fall between any two.
EXTENDS Integers, Sequences

CONSTANTS
  RouteCallers,  \* threads that route calls of this purpose, each with its own key
  NoDecision,
  MaxDecisions,  \* bound on the decisions of a behaviour
  MaxFailovers,  \* max_group_failovers
  MaxRetries     \* bound on the wait's retry_count

VARIABLES
  decisions,  \* cognitive_route_decisions with their attempts and outcome
  wait,       \* the row of waiting_cognitive_tasks and its revisions
  parent,     \* "open", then "ended"
  plan,       \* the fingerprint an operator previewed for repair_waits
  caller      \* [pc, decision, reason] of each thread

routeVars == <<decisions, wait, parent, plan, caller>>

Reasons == {"all_pool_resources_unavailable", "model_outcome_unknown_quarantined"}

NoWait == [status |-> "none", reason |-> "none", count |-> 0, due |-> TRUE, revs |-> <<>>]

\* One retry_count per scheduled next_retry_at, so a revision needs only one.
Revision(status, count) == [status |-> status, count |-> count]

Idle == [pc |-> "idle", decision |-> NoDecision, reason |-> "none"]

\* terminal_wait_reason
TerminalReason == parent = "ended"

\* A wait changes status together with its revision.
Waiting(w, reason) ==
  [status |-> "waiting", reason |-> reason, count |-> w.count + 1, due |-> FALSE,
   revs |-> Append(w.revs, Revision("waiting", w.count + 1))]

Closed(w, status) ==
  IF w.status # "waiting" THEN w
  ELSE [w EXCEPT !.status = status, !.reason = "none",
                 !.revs = Append(@, Revision(status, w.count))]

\* Mutant: the parent is not looked at when a wait is recorded.
RecordUnavailable_NoParent(reason, force) ==
  IF wait.status = "waiting" /\ (wait.reason = reason \/ (~wait.due /\ ~force)) THEN wait
  ELSE Waiting(wait, reason)

\* Mutant: an unforced reason replaces a retry that is not due.
RecordUnavailable_Reschedules(reason, force) ==
  IF TerminalReason THEN Closed(wait, "cancelled") ELSE Waiting([wait EXCEPT !.count = 0], reason)

\* _record_unavailable: the wait of an ended parent is closed; the same reason,
\* or another one before the retry is due, changes nothing unless forced.
RecordUnavailable(reason, force) ==
  IF TerminalReason THEN Closed(wait, "cancelled")
  ELSE IF wait.status = "waiting" /\ (wait.reason = reason \/ (~wait.due /\ ~force)) THEN wait
  ELSE Waiting(wait, reason)

\* _retry_due
RetryDue == wait.status # "waiting" \/ wait.due

Attempts(d) == decisions[d].attempts

Finished(d) == decisions[d].outcome # "none"

------------------------------------------------------------------------------
\* _complete_structured_locked up to its decision row.
Decide(c) ==
  /\ caller[c].pc = "idle" /\ RetryDue
  /\ Len(decisions) < MaxDecisions
  /\ decisions' = Append(decisions, [attempts |-> <<>>, outcome |-> "none"])
  /\ caller' = [caller EXCEPT ![c] = [@ EXCEPT !.pc = "route", !.decision = Len(decisions) + 1]]
  /\ UNCHANGED <<wait, parent, plan>>

\* Mutant: an attempt is selected beside one that is still open.
MaySelect_Beside(d) == Len(Attempts(d)) < MaxFailovers

\* _record_attempt("selected"): no row of this attempt number exists, and the
\* previous attempts of the loop have their terminal rows.
MaySelect(d) ==
  Len(Attempts(d)) < MaxFailovers /\ \A i \in DOMAIN Attempts(d) : Attempts(d)[i] # "selected"

SelectAttempt(c) ==
  LET d == caller[c].decision IN
  /\ caller[c].pc \in {"route", "calling"} /\ MaySelect(d)
  /\ decisions' = [decisions EXCEPT ![d].attempts = Append(@, "selected")]
  /\ caller' = [caller EXCEPT ![c].pc = "calling"]
  /\ UNCHANGED <<wait, parent, plan>>

\* _record_attempt with the terminal outcome. A known failure goes on with the
\* loop, an unknown one ends it, a local refusal (lifecycle, changed request,
\* capacity, withdrawn invitation) finishes the decision without a wait.
SettleAttempt(c) ==
  LET d == caller[c].decision IN
  /\ caller[c].pc = "calling" /\ Attempts(d)[Len(Attempts(d))] = "selected"
  /\ \E step \in {<<"failed", "route", "none">>, <<"failed", "finish", "none">>,
                  <<"unknown", "wait", "model_outcome_unknown_quarantined">>,
                  <<"succeeded", "resolve", "none">>} :
       /\ decisions' = [decisions EXCEPT ![d].attempts[Len(Attempts(d))] = step[1]]
       /\ caller' = [caller EXCEPT ![c] = [@ EXCEPT !.pc = step[2], !.reason = step[3]]]
  /\ UNCHANGED <<wait, parent, plan>>

\* The loop ran out of groups and keys.
GiveUp(c) ==
  /\ caller[c].pc = "route"
  /\ caller' = [caller EXCEPT ![c] = [@ EXCEPT !.pc = "wait",
                                               !.reason = "all_pool_resources_unavailable"]]
  /\ UNCHANGED <<decisions, wait, parent, plan>>

\* The wait is written before the outcome, in its own transaction. Only the
\* quarantine is forced.
WriteWait(c) ==
  /\ caller[c].pc = "wait"
  /\ wait.count < MaxRetries
  /\ wait' = RecordUnavailable(caller[c].reason,
                               caller[c].reason = "model_outcome_unknown_quarantined")
  /\ caller' = [caller EXCEPT ![c].pc = "finish"]
  /\ UNCHANGED <<decisions, parent, plan>>

\* _resolve_wait
ResolveWait(c) ==
  /\ caller[c].pc = "resolve"
  /\ wait' = Closed(wait, "resolved")
  /\ caller' = [caller EXCEPT ![c].pc = "finish"]
  /\ UNCHANGED <<decisions, parent, plan>>

\* _finish_decision: the first outcome stays.
FinishDecision(c) ==
  LET d == caller[c].decision IN
  /\ caller[c].pc = "finish"
  /\ decisions' = IF Finished(d) THEN decisions
                  ELSE [decisions EXCEPT ![d].outcome =
                          IF caller[c].reason = "none" THEN "settled" ELSE "deferred"]
  /\ caller' = [caller EXCEPT ![c] = Idle]
  /\ UNCHANGED <<wait, parent, plan>>

\* _recover_existing: a recorded result resolves the wait without a decision.
Recover(c) ==
  /\ caller[c].pc = "idle"
  /\ \E d \in 1..Len(decisions) : \E i \in DOMAIN Attempts(d) : Attempts(d)[i] = "succeeded"
  /\ wait' = Closed(wait, "resolved")
  /\ UNCHANGED <<decisions, parent, plan, caller>>

\* An unhandled exception or a restart: the caller's rows stay as they are.
Abandon(c) ==
  /\ caller[c].pc # "idle"
  /\ caller' = [caller EXCEPT ![c] = Idle]
  /\ UNCHANGED <<decisions, wait, parent, plan>>

\* Mutant: the parent ends without its waits.
EndParent_LeavesWaits ==
  /\ parent = "open" /\ parent' = "ended"
  /\ UNCHANGED <<decisions, wait, plan, caller>>

\* ObservationStore.mark, commit_reflection and the sleep engine's transitions:
\* the parent ends and its waits are cancelled in one transaction.
EndParent ==
  /\ parent = "open" /\ parent' = "ended"
  /\ wait' = Closed(wait, "cancelled")
  /\ UNCHANGED <<decisions, plan, caller>>

\* next_retry_at passes.
RetryTime == /\ wait.status = "waiting" /\ ~wait.due
             /\ wait' = [wait EXCEPT !.due = TRUE]
             /\ UNCHANGED <<decisions, parent, plan, caller>>

\* inspect_waits: the plan is a hash over the row and its parent.
PreviewRepair ==
  /\ wait.status = "waiting" /\ TerminalReason
  /\ plan' = Append(wait.revs, Revision(parent, wait.count)) /\ plan' # plan
  /\ UNCHANGED <<decisions, wait, parent, caller>>

\* repair_waits: refused unless the plan computed now is the one previewed.
ApplyRepair ==
  /\ plan = Append(wait.revs, Revision(parent, wait.count)) /\ TerminalReason
  /\ wait' = Closed(wait, "cancelled") /\ plan' = <<>>
  /\ UNCHANGED <<decisions, parent, caller>>

------------------------------------------------------------------------------
\* The purpose is new, or an earlier version left a wait behind its parent's end.
RouteInit ==
  /\ decisions = <<>> /\ plan = <<>>
  /\ \/ wait = NoWait /\ parent = "open"
     \/ wait = Waiting(NoWait, "all_pool_resources_unavailable") /\ parent = "ended"
  /\ caller = [c \in RouteCallers |-> Idle]

RouteNext ==
  \/ \E c \in RouteCallers :
       \/ Decide(c) \/ SelectAttempt(c) \/ SettleAttempt(c) \/ GiveUp(c) \/ WriteWait(c)
       \/ ResolveWait(c) \/ FinishDecision(c) \/ Recover(c) \/ Abandon(c)
  \/ EndParent \/ RetryTime \/ PreviewRepair \/ ApplyRepair

RouteSpec == RouteInit /\ [][RouteNext]_routeVars

------------------------------------------------------------------------------
RouteTypeOK ==
  /\ \A d \in DOMAIN decisions :
       /\ \A i \in DOMAIN Attempts(d) : Attempts(d)[i] \in {"selected", "failed", "unknown", "succeeded"}
       /\ decisions[d].outcome \in {"none", "settled", "deferred"}
  /\ wait.status \in {"none", "waiting", "resolved", "cancelled"}
  /\ parent \in {"open", "ended"}
  /\ \A c \in RouteCallers : caller[c].decision = NoDecision \/ caller[c].decision \in DOMAIN decisions

\* The last part of verify_routing_integrity: at most one attempt of a decision
\* is open, it is the last one, and the decision then has no outcome.
AttemptsVerify(d) ==
  \A i \in DOMAIN Attempts(d) :
    Attempts(d)[i] = "selected" => i = Len(Attempts(d)) /\ ~Finished(d)

\* validate_wait, and the same comparison in verify_routing_integrity.
WaitVerifies ==
  \/ wait = NoWait
  \/ /\ wait.revs # <<>>
     /\ wait.revs[1] = Revision("waiting", 1)
     /\ \A i \in 2..Len(wait.revs) :
          IF wait.revs[i].status = "waiting" THEN wait.revs[i].count = wait.revs[i - 1].count + 1
          ELSE wait.revs[i - 1].status = "waiting" /\ wait.revs[i].count = wait.revs[i - 1].count
     /\ wait.revs[Len(wait.revs)] = Revision(wait.status, wait.count)

\* Whatever two callers, a crash, an ending parent and an operator's repair do in
\* between, the routing evidence passes verify_routing_integrity.
RoutingVerifies == WaitVerifies /\ \A d \in DOMAIN decisions : AttemptsVerify(d)

\* A late caller never revives the wait of a parent that has ended: after the
\* end nothing waits, except what an earlier version left and nobody repaired.
KeepsClosed ==
  /\ parent' = "ended"
  /\ wait'.status = "waiting"
  => wait'.revs = wait.revs /\ parent = "ended"

EndedParentStaysClosed == [][KeepsClosed]_routeVars
==============================================================================

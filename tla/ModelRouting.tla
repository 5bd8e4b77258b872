---------------------------- MODULE ModelRouting ----------------------------
(***************************************************************************)
(* Model calls on their way to a provider: RoutedModelGateway of           *)
(* src/noyra/model/resources.py (one logical request, several resource     *)
(* groups), ModelGateway of model/gateway.py (one physical call, several   *)
(* attempts), the HTTP provider of model/openai_compatible.py, restart     *)
(* recovery and the operator's reconciliation of unknown calls.            *)
(*                                                                         *)
(*   job       what the worker of a logical request is doing; the route    *)
(*             locks admit one worker per request and refuse a second      *)
(*             without changing anything                                   *)
(*   enabled   the resource groups whose status is active                  *)
(*   rev       limit_revision of each group                                *)
(*   open, epoch  the admission gate; a lease is current while the gate is *)
(*             open and the epoch is the one it was granted in.  The       *)
(*             lifecycle row leaves "active" only while the gate is closed *)
(*   day       budget_day                                                  *)
(*   up        the process runs                                            *)
(*   decisions history: grants, failure reconciliations and closures the   *)
(*             operator recorded for the request                           *)
(*                                                                         *)
(* One key per group; key cooldowns and provider health only decide which  *)
(* groups a worker tries, so the choice among them is free.                *)
(***************************************************************************)
EXTENDS ModelLedger

CONSTANTS
  Requests,      \* logical requests
  MaxAttempts,   \* retry_policy.max_attempts
  MaxFailovers,  \* max_group_failovers
  CallRows,      \* evidence_row_limit of model_calls
  AttemptRows,   \* evidence_row_limit of model_attempts
  MaxToggles, MaxRev, MaxEpoch, MaxDay, MaxCrashes, MaxDecisions  \* bounds of the environment

VARIABLES job, enabled, toggles, rev, open, epoch, day, up, crashes, decisions

world == <<enabled, toggles, rev, open, epoch, day, up, crashes>>

vars == <<ledger, job, world, decisions>>

Idle ==
  [pc |-> "idle", lease |-> 0, tried |-> {}, forced |-> 0, group |-> Null, rev |-> 0,
   call |-> 0, att |-> 0, idx |-> 0, status |-> "none", tokens |-> Null,
   out |-> "none", next |-> "idle"]

Init ==
  /\ calls = << >> /\ attempts = << >> /\ audit = {}
  /\ job = [r \in Requests |-> Idle]
  /\ enabled = Groups /\ toggles = 0
  /\ rev = [g \in Groups |-> 0]
  /\ open = TRUE /\ epoch = 0 /\ day = 0 /\ up = TRUE /\ crashes = 0
  /\ decisions = [r \in Requests |-> 0]

At(r, pc) == up /\ job[r].pc = pc

Goto(r, pc) == job' = [job EXCEPT ![r].pc = pc]

Return(r) == job' = [job EXCEPT ![r] = Idle]

\* assert_current_lease.
Current(r) == open /\ job[r].lease = epoch

CallsOf(r) == {c \in DOMAIN calls : calls[c].req = r}

-----------------------------------------------------------------------------
(* RoutedModelGateway *)

\* Prepared calls whose retry an operator authorized.
Granted(r) == {c \in CallsOf(r) : calls[c].st = "prepared" /\ <<"authorized", c>> \in audit}

\* A failed retry stays a fence until the operator closes it or had
\* cancelled it before it ran.
SpentGrant(c) ==
  /\ calls[c].st = "failed"
  /\ <<"authorized", c>> \in audit
  /\ <<"closed", c>> \notin audit
  /\ ~(calls[c].operatorCancelled /\ <<"cancelled", c>> \in audit)

\* Mutant: only calls in flight fence the request, not the ambiguous ones.
Quarantined_InFlightOnly(r) ==
  \/ \E c \in CallsOf(r) : calls[c].st = "executing"
  \/ \E c \in CallsOf(r) : calls[c].st = "prepared" /\ c \notin Granted(r)
  \/ \E c \in CallsOf(r) : SpentGrant(c)
  \/ Cardinality(Granted(r)) > 1

\* _logical_route_state: "quarantine".
Quarantined(r) ==
  \/ \E c \in CallsOf(r) : calls[c].st \in {"unknown", "executing"}
  \/ \E c \in CallsOf(r) : calls[c].st = "prepared" /\ c \notin Granted(r)
  \/ \E c \in CallsOf(r) : SpentGrant(c)
  \/ Cardinality(Granted(r)) > 1

\* _recover_existing: the answer is served from the ledger.
Answered(r) == \E c \in CallsOf(r) : calls[c].st = "succeeded"

\* complete_structured takes the request's locks, reads its durable state and
\* goes on with an authorized retry or, when nothing was answered, a new call.
Route(r) ==
  /\ At(r, "idle") /\ open
  /\ ~Quarantined(r)
  /\ Granted(r) # {} \/ ~Answered(r)
  /\ job' = [job EXCEPT ![r].pc = "select", ![r].lease = epoch,
                        ![r].forced = IF Granted(r) = {} THEN 0 ELSE Max(Granted(r))]
  /\ UNCHANGED <<ledger, world, decisions>>

Choose(r, g) ==
  job' = [job EXCEPT ![r].pc = "prepare", ![r].group = g, ![r].rev = rev[g],
                     ![r].tried = @ \cup {g}]

\* select_key and _gateway.  An authorized retry is pinned to its route and
\* gets one try; any other request moves to a group it has not tried.
Select(r) ==
  /\ At(r, "select")
  /\ \/ /\ Current(r)
        /\ job[r].forced # 0 => job[r].tried = {}
        /\ Cardinality(job[r].tried) < MaxFailovers
        /\ \E g \in enabled \ job[r].tried :
             /\ job[r].forced # 0 => g = calls[job[r].forced].group
             /\ Choose(r, g)
     \/ Return(r)
  /\ UNCHANGED <<ledger, world, decisions>>

-----------------------------------------------------------------------------
(* ModelGateway.complete_structured *)

EnterLoop(r, c) ==
  job' = [job EXCEPT ![r].pc = "top", ![r].call = c, ![r].idx = 1]

\* prepare_call finds the call of an authorized retry, which an operator may
\* have settled in the meantime, or creates a new one.
Prepare(r) ==
  /\ At(r, "prepare")
  /\ \/ /\ Current(r) /\ job[r].forced # 0
        /\ calls[job[r].forced].st = "prepared"
        /\ EnterLoop(r, job[r].forced)
        /\ UNCHANGED ledger
     \/ /\ Current(r) /\ job[r].forced = 0
        /\ Len(calls) < CallRows
        /\ PrepareCall(r, job[r].group)
        /\ EnterLoop(r, Len(calls) + 1)
     \/ /\ \/ ~Current(r)
           \/ job[r].forced # 0 /\ calls[job[r].forced].st # "prepared"
           \/ job[r].forced = 0 /\ Len(calls) >= CallRows
        /\ Return(r)
        /\ UNCHANGED ledger
  /\ UNCHANGED <<world, decisions>>

\* The top of the attempt loop: a stale lease makes the call unknown.
Top(r) ==
  /\ At(r, "top")
  /\ IF Current(r)
     THEN Goto(r, "authorize") /\ UNCHANGED ledger
     ELSE Return(r) /\ FinishCall(job[r].call, "unknown")
  /\ UNCHANGED <<world, decisions>>

\* The call is finished in a transaction of its own, then the gateway
\* returns to the router, which stops or tries another group.
Settle(r, out, next) ==
  job' = [job EXCEPT ![r].pc = "settle", ![r].out = out, ![r].next = next]

\* Another group is tried only by a request that is no authorized retry.
Failover(r) == IF job[r].forced = 0 THEN "select" ELSE "idle"

\* check_request_authorization, apart from the lease.
RequestAuthorized(r) ==
  LET g == calls[job[r].call].group IN g \in enabled /\ rev[g] = job[r].rev

\* authorize_attempt.  A lease that went stale since Top raises out of the
\* transaction and is handled nowhere.
Authorize(r) ==
  LET c == job[r].call
      g == calls[c].group
      may == MayAuthorize(c, job[r].idx > 1)
  IN
  /\ At(r, "authorize")
  /\ \/ /\ ~Current(r) \/ ~may
        /\ Return(r) /\ UNCHANGED ledger
     \/ /\ Current(r) /\ may /\ ~RequestAuthorized(r)
        /\ Settle(r, "failed", "idle") /\ UNCHANGED ledger
     \/ /\ Current(r) /\ may /\ RequestAuthorized(r) /\ ~Fits(g, day, enabled)
        /\ Settle(r, "failed", Failover(r)) /\ UNCHANGED ledger
     \/ /\ Current(r) /\ may /\ RequestAuthorized(r) /\ Fits(g, day, enabled)
        /\ Len(attempts) >= AttemptRows
        /\ Settle(r, "failed", "idle") /\ UNCHANGED ledger
     \/ /\ Current(r) /\ may /\ RequestAuthorized(r) /\ Fits(g, day, enabled)
        /\ Len(attempts) < AttemptRows
        /\ AuthorizeAttempt(c, day)
        /\ job' = [job EXCEPT ![r].pc = "start", ![r].att = Len(attempts) + 1]
  /\ UNCHANGED <<world, decisions>>

\* The attempt is settled first, the call in a second transaction.
Account(r, status, tokens, out, next) ==
  job' = [job EXCEPT ![r].pc = "account", ![r].status = status, ![r].tokens = tokens,
                     ![r].out = out, ![r].next = next]

Deny(r) == Account(r, "cancelled", Null, "failed", "idle")

Start(r) ==
  /\ At(r, "start")
  /\ IF Current(r) /\ RequestAuthorized(r)
     THEN StartAttempt(job[r].att) /\ Goto(r, "check")
     ELSE Deny(r) /\ UNCHANGED ledger
  /\ UNCHANGED <<world, decisions>>

\* before_send, run before the provider is called, again when it is, and a
\* last time when the connection is up and the headers are about to leave.
BeforeSend(r) ==
  /\ At(r, "check")
  /\ IF Current(r) /\ RequestAuthorized(r) THEN Goto(r, "send") ELSE Deny(r)
  /\ UNCHANGED <<ledger, world, decisions>>

\* Mutant: one retry too many.
Rejection_OffByOne(r, tokens, retryable) ==
  IF retryable /\ job[r].idx <= MaxAttempts
  THEN Account(r, "failed", tokens, "retry", "idle")
  ELSE Account(r, "failed", tokens, "failed", Failover(r))

\* A known failure is retried inside the call, then the next group is tried.
Rejection(r, tokens, retryable) ==
  IF retryable /\ job[r].idx < MaxAttempts
  THEN Account(r, "failed", tokens, "retry", "idle")
  ELSE Account(r, "failed", tokens, "failed", Failover(r))

\* No connection: nothing was sent.
ConnectFailed(r, retryable) ==
  /\ At(r, "send")
  /\ Rejection(r, 0, retryable)
  /\ UNCHANGED <<ledger, world, decisions>>

Send(r) ==
  /\ At(r, "send")
  /\ attempts' = [attempts EXCEPT ![job[r].att].sent = TRUE]
  /\ Goto(r, "await")
  /\ UNCHANGED <<calls, audit, world, decisions>>

\* A timeout, a broken connection, a server error, an unreadable body, a
\* cancelled task: whether the provider did the work is not known.
Lost(r) ==
  /\ job[r].pc \in {"send", "await"} /\ up
  /\ \E u \in {0, Reserve} :
       /\ u > 0 => job[r].pc = "await"
       /\ attempts' = [attempts EXCEPT ![job[r].att].used = u]
  /\ Account(r, "unknown", Null, "unknown", "idle")
  /\ UNCHANGED <<calls, audit, world, decisions>>

\* The provider refuses: nothing was consumed.
Rejected(r, retryable) ==
  /\ At(r, "await")
  /\ Rejection(r, 0, retryable)
  /\ UNCHANGED <<ledger, world, decisions>>

\* An answer, with the usage the provider reports or else the reservation.
\* One that does not parse is retried or fails the call; on a stale lease it
\* fails the call at once, and a good one is recorded but not returned.
Answer(r) ==
  /\ At(r, "await")
  /\ \E u \in 1..Reserve, reported \in BOOLEAN, usable \in BOOLEAN :
       /\ attempts' = [attempts EXCEPT ![job[r].att].used = u,
                                       ![job[r].att].usable = usable]
       /\ LET tokens == IF reported THEN u ELSE Reserve
          IN  CASE usable ->
                     Account(r, "succeeded", tokens, "succeeded", "idle")
                [] ~usable /\ Current(r) /\ job[r].idx < MaxAttempts ->
                     Account(r, "succeeded", tokens, "retry", "idle")
                [] OTHER ->
                     Account(r, "succeeded", tokens, "failed",
                             IF Current(r) THEN Failover(r) ELSE "idle")
  /\ UNCHANGED <<calls, audit, world, decisions>>

\* Mutant: a fenced worker does not account what it sent.
AccountStep_Fenced(r) ==
  LET j == job[r] IN
  /\ At(r, "account")
  /\ IF j.status = "cancelled" \/ ~Current(r)
     THEN CancelUnsentAttempt(j.att)
     ELSE FinishAttempt(j.att, j.status, j.tokens)
  /\ Goto(r, IF j.out = "retry" THEN "retry" ELSE "settle")
  /\ UNCHANGED <<world, decisions>>

\* Mutant: a cancelled attempt is not written back.
AccountStep_Kept(r) ==
  LET j == job[r] IN
  /\ At(r, "account")
  /\ IF j.status = "cancelled"
     THEN UNCHANGED ledger
     ELSE FinishAttempt(j.att, j.status, j.tokens)
  /\ Goto(r, IF j.out = "retry" THEN "retry" ELSE "settle")
  /\ UNCHANGED <<world, decisions>>

\* cancel_unsent_attempt or finish_attempt, in the accounting scope: a fence
\* does not stop it.
AccountStep(r) ==
  LET j == job[r] IN
  /\ At(r, "account")
  /\ IF j.status = "cancelled"
     THEN CancelUnsentAttempt(j.att)
     ELSE FinishAttempt(j.att, j.status, j.tokens)
  /\ Goto(r, IF j.out = "retry" THEN "retry" ELSE "settle")
  /\ UNCHANGED <<world, decisions>>

\* _retry_after_settlement: a stale lease makes the call unknown, a task
\* cancelled during the delay fails it, or the loop goes round.
Retry(r) ==
  /\ At(r, "retry")
  /\ \/ ~Current(r) /\ Settle(r, "unknown", "idle")
     \/ Current(r) /\ Settle(r, "failed", "idle")
     \/ Current(r) /\ job' = [job EXCEPT ![r].pc = "top", ![r].idx = @ + 1]
  /\ UNCHANGED <<ledger, world, decisions>>

\* finish_call, in the accounting scope, then back to the router.
SettleStep(r) ==
  /\ At(r, "settle")
  /\ FinishCall(job[r].call, job[r].out)
  /\ IF job[r].next = "select" THEN Goto(r, "select") ELSE Return(r)
  /\ UNCHANGED <<world, decisions>>

Worker(r) ==
  \/ Route(r) \/ Select(r) \/ Prepare(r) \/ Top(r) \/ Authorize(r) \/ Start(r)
  \/ BeforeSend(r) \/ Send(r) \/ Lost(r) \/ Answer(r) \/ AccountStep(r)
  \/ Retry(r) \/ SettleStep(r)
  \/ \E retryable \in BOOLEAN : ConnectFailed(r, retryable) \/ Rejected(r, retryable)

-----------------------------------------------------------------------------
(* The operator: reconcile_model_call, and resource settings *)

Decide(c) ==
  /\ decisions[calls[c].req] < MaxDecisions
  /\ decisions' = [decisions EXCEPT ![calls[c].req] = @ + 1]

GrantRetry(c) == PrepareUnknownRetry(c) /\ Decide(c) /\ UNCHANGED <<job, world>>

ReconcileFailed(c) == ReconcileUnknown(c, "failed") /\ Decide(c) /\ UNCHANGED <<job, world>>

ReconcileSucceeded(c) ==
  ReconcileUnknown(c, "succeeded") /\ UNCHANGED <<job, world, decisions>>

CancelPrepared(c) ==
  ReconcilePreparedFailed(c) /\ UNCHANGED <<job, world, decisions>>

CloseRetry(c) == CloseFailedUnknownRetry(c) /\ Decide(c) /\ UNCHANGED <<job, world>>

Operator(c) ==
  /\ up
  /\ \/ GrantRetry(c) \/ ReconcileFailed(c) \/ ReconcileSucceeded(c)
     \/ CancelPrepared(c) \/ CloseRetry(c)

ToggleGroup(g) ==
  /\ up /\ toggles < MaxToggles
  /\ toggles' = toggles + 1
  /\ enabled' = IF g \in enabled THEN enabled \ {g} ELSE enabled \cup {g}
  /\ UNCHANGED <<ledger, job, rev, open, epoch, day, up, crashes, decisions>>

\* update moves the limit revision; the limits themselves are constants here.
UpdateGroup(g) ==
  /\ up /\ rev[g] < MaxRev
  /\ rev' = [rev EXCEPT ![g] = @ + 1]
  /\ UNCHANGED <<ledger, job, enabled, toggles, open, epoch, day, up, crashes, decisions>>

-----------------------------------------------------------------------------
(* Fencing, time, crashes *)

Fence ==
  /\ up /\ open /\ epoch < MaxEpoch
  /\ open' = FALSE /\ epoch' = epoch + 1
  /\ UNCHANGED <<ledger, job, enabled, toggles, rev, day, up, crashes, decisions>>

Reopen ==
  /\ up /\ ~open
  /\ open' = TRUE
  /\ UNCHANGED <<ledger, job, enabled, toggles, rev, epoch, day, up, crashes, decisions>>

NewDay ==
  /\ day < MaxDay
  /\ day' = day + 1
  /\ UNCHANGED <<ledger, job, enabled, toggles, rev, open, epoch, up, crashes, decisions>>

Crash ==
  /\ up /\ crashes < MaxCrashes
  /\ up' = FALSE /\ crashes' = crashes + 1
  /\ job' = [r \in Requests |-> Idle]
  /\ UNCHANGED <<ledger, enabled, toggles, rev, open, epoch, day, decisions>>

\* The cognition cycle's bootstrap recovers the ledger before any call.
Boot ==
  /\ ~up
  /\ up' = TRUE /\ open' = TRUE
  /\ RecoverInterrupted
  /\ UNCHANGED <<job, enabled, toggles, rev, epoch, day, crashes, decisions>>

Next ==
  \/ \E r \in Requests : Worker(r)
  \/ \E c \in DOMAIN calls : Operator(c)
  \/ \E g \in Groups : ToggleGroup(g) \/ UpdateGroup(g)
  \/ Fence \/ Reopen \/ NewDay \/ Crash \/ Boot

Spec == Init /\ [][Next]_vars

-----------------------------------------------------------------------------
(* Properties *)

TypeOK ==
  /\ LedgerTypeOK(Requests, 0..MaxDay)
  /\ \A r \in Requests :
       /\ job[r].lease \in 0..epoch
       /\ job[r].tried \subseteq Groups
       /\ job[r].pc \notin {"idle", "select", "prepare"} => job[r].call \in DOMAIN calls
       /\ job[r].pc \in {"start", "check", "send", "await", "account"} =>
            job[r].att \in AttemptsOf(job[r].call)
       /\ job[r].idx \in 0..MaxAttempts

SentBy(r) ==
  {i \in DOMAIN attempts : attempts[i].sent /\ calls[attempts[i].call].req = r}

\* A provider may have done the work: the outcome is open or ambiguous, or a
\* usable answer came back.
MayHaveDone(i) ==
  \/ attempts[i].st \in {"executing", "unknown"}
  \/ attempts[i].st = "succeeded" /\ attempts[i].usable

\* "Unknown calls never retry automatically": over all physical calls, groups
\* and restarts, the provider may have done the work of one logical request
\* at most once more than the operator decided to let it run again.
NoSilentDuplicate ==
  \A r \in Requests :
    Cardinality({i \in SentBy(r) : MayHaveDone(i)}) <= 1 + decisions[r]

\* What the providers of a group really consumed in a day, and the requests
\* they really received, stay within the group's daily limits, also across
\* crashes, fences and cancellations.
NeverOverspent ==
  \A g \in Groups, d \in 0..day :
    LET rows == {i \in DOMAIN attempts :
                   /\ attempts[i].sent /\ attempts[i].day = d
                   /\ calls[attempts[i].call].group = g}
    IN  /\ Cardinality(rows) <= DailyAttempts[g]
        /\ MapThenSumSet(LAMBDA i : attempts[i].used, rows) <= DailyTokens[g]

\* A reservation that may still be charged belongs to a running worker, or
\* restart recovery is still to come.
NoOrphanReservation ==
  up => \A i \in DOMAIN attempts :
          attempts[i].st \in Active => \E r \in Requests :
            /\ job[r].att = i
            /\ job[r].pc \in {"start", "check", "send", "await", "account"}

\* A failed retry that fences its request can still be closed: no sequence of
\* cancellations and failures leaves a fence that nobody can lift.
FenceCanBeLifted ==
  \A c \in DOMAIN calls : SpentGrant(c) => <<"cancelled", c>> \notin audit

\* Once the call is closed as failed without an operator's decision, every
\* request sent for it is known to have come to nothing, so that trying
\* another group duplicates no work.
FailedIsKnown ==
  \A c \in DOMAIN calls :
    calls[c].st = "failed" /\ decisions[calls[c].req] = 0 =>
      \A i \in AttemptsOf(c) : attempts[i].sent => ~MayHaveDone(i)

\* "Provider/delivery workers must record an unknown or terminal outcome
\* after a pause or shutdown": a call whose worker is gone is settled, or
\* waits for a retry the operator granted.
WorkersSettle ==
  up => \A c \in DOMAIN calls :
          calls[c].st \in {"prepared", "executing"} =>
            \/ \E r \in Requests : job[r].call = c
            \/ <<"authorized", c>> \in audit

-----------------------------------------------------------------------------
(* Liveness *)

\* A started worker keeps running: the provider call has an absolute
\* deadline and every other step is local.  A crashed process is restarted.
\* Starting a request, the operator and the gate are free.
Running(r) == job[r].pc # "idle" /\ Worker(r)

LiveSpec ==
  /\ Spec
  /\ \A r \in Requests : WF_vars(Running(r))
  /\ WF_vars(Boot)

Unsettled(i) == i \in DOMAIN attempts /\ attempts[i].st \in Active

\* Every reservation is settled in the end, by its worker or by the recovery
\* that follows a crash.
AttemptsSettle == \A i \in 1..AttemptRows : Unsettled(i) ~> ~Unsettled(i)

=============================================================================

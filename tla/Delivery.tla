------------------------------ MODULE Delivery ------------------------------
(***************************************************************************)
(* Outgoing messages (interaction/transport.py): the scheduler queues one  *)
(* delivery row per message, claims it, loads the transport's credentials, *)
(* checks that the message may still be sent, writes it to a remote        *)
(* provider and records what came back.  Meanwhile operators disable and   *)
(* revoke transports, change a participant's binding and consent, delete   *)
(* private conversations and reconcile unknown rows; the admission gate    *)
(* may make the scheduler's lease stale; the process may crash.            *)
(*                                                                         *)
(* Ticks of the scheduler are the only callers of deliver_pending, one at  *)
(* a time.  A provider may accept a request, reject it or lose it, answer  *)
(* or stay silent, and accept one long after the dispatcher gave up.       *)
(***************************************************************************)
EXTENDS Integers, FiniteSets

CONSTANTS
    Plain,          \* messages not tied to an inbound message
    Replies,        \* replies to an authenticated inbound message
    Pushes,         \* web replies pushed to a consenting participant
    NumTransports,  \* transports of the one channel, in label order
    Bound,          \* the transport of the participant's binding
    Email,          \* the transports that speak SMTP
    MaxChanges,     \* operator changes to transports, binding and consent
    MaxFences,      \* times the gate makes the scheduler's lease stale
    MaxCrashes,     \* crashes and shutdowns
    MaxFaults       \* database transactions that fail

Messages == Plain \cup Replies \cup Pushes
Transports == 1 .. NumTransports
MaxAttempts == 3

VARIABLES
    row,        \* interaction_deliveries, with the push's route revision and
                \* the terminal reconciliation of the row
    waiting,    \* rows whose next_retry_at lies in the future
    created,    \* the interactions that exist
    fresh,      \* pushes whose sequence is above the route's push_after_sequence
    trans,      \* interaction_transports: status and updated_at (a generation)
    binding,    \* the participant's interaction_bindings.status
    route,      \* private_channel_routes: push consent and revision
    withdrawn,  \* messages of conversations being deleted
    disp,       \* the scheduler's tick: where it is and what it read
    lease,      \* the tick's lease: "live" or "stale"
    recovered,  \* _recovered_subjects holds the subject
    lookups,    \* provider status lookups under way
    wire,       \* requests written that the provider has not yet treated
    accepted,   \* how often the provider accepted the message
    stopped,    \* history: messages whose authorization was withdrawn before
                \* their last check
    used        \* how much of each bound has been used

vars == <<row, waiting, created, fresh, trans, binding, route, withdrawn, disp,
          lease, recovered, lookups, wire, accepted, stopped, used>>
db == <<row, waiting, created, fresh, trans, binding, route, withdrawn>>
remote == <<wire, accepted>>

Idle == [pc |-> "idle", todo |-> {}, m |-> "none", gen |-> 0, token |-> 0,
         resp |-> "none", out |-> "none"]
NoRow == [st |-> "none", n |-> 0, tr |-> 0, rev |-> 0, rec |-> "none"]

Init ==
    /\ row = [m \in Messages |-> NoRow]
    /\ waiting = {} /\ created = {} /\ fresh = {}
    /\ trans = [t \in Transports |-> [status |-> "active", gen |-> 0]]
    /\ binding = "active"
    /\ route = [on |-> FALSE, rev |-> 0]
    /\ withdrawn = {}
    /\ disp = Idle
    /\ lease = "live" /\ recovered = FALSE
    /\ lookups = {}
    /\ wire = [m \in Messages |-> 0] /\ accepted = [m \in Messages |-> 0]
    /\ stopped = {}
    /\ used = [changes |-> 0, fences |-> 0, crashes |-> 0, faults |-> 0]

Use(what) == used' = [used EXCEPT ![what] = @ + 1]

-----------------------------------------------------------------------------
(***************************************************************************)
(* Operators and participants: HTTP handlers, under leases of their own.   *)
(***************************************************************************)

\* The tick has passed the last authorization check of m and not come back.
PastLastCheck(m) == disp.m = m /\ disp.pc \in {"write", "wait", "finish"}

\* An outgoing message is stored; its sequence is above every earlier one.
Create(m) ==
    /\ m \notin created
    /\ created' = created \cup {m}
    /\ fresh' = fresh \cup ({m} \cap Pushes)
    /\ UNCHANGED <<row, waiting, trans, binding, route, withdrawn, disp, lease,
                   recovered, lookups, remote, stopped, used>>

\* Every way of ending push consent also moves the route to a new revision.
StopPush(r) == IF r.rev = 0 THEN r ELSE [on |-> FALSE, rev |-> r.rev + 1]

\* TransportStore.disable, enable and revoke (_set_status).
SetTransport(t, s) ==
    /\ used.changes < MaxChanges
    /\ trans[t].status = "revoked" => s = "revoked"
    /\ trans' = [trans EXCEPT ![t] = [status |-> s, gen |-> @.gen + 1]]
    /\ route' = IF s # "active" /\ t = Bound THEN StopPush(route) ELSE route
    /\ stopped' = IF s = "active" THEN stopped
                  ELSE stopped \cup {m \in Messages :
                            /\ row[m].tr = t /\ ~PastLastCheck(m)
                            /\ m \in Pushes \/ (disp.m = m /\ row[m].st = "sending")}
    /\ Use("changes")
    /\ UNCHANGED <<row, waiting, created, fresh, binding, withdrawn, disp, lease,
                   recovered, lookups, remote>>

\* InboundStore.route_private_chat: consent to the conversation, with or
\* without pushes; only messages after it qualify.
RoutePrivateChat(push) ==
    /\ used.changes < MaxChanges
    /\ binding = "active" /\ trans[Bound].status = "active"
    /\ route' = [on |-> push, rev |-> route.rev + 1]
    /\ fresh' = {}
    /\ stopped' = stopped \cup {m \in Pushes : row[m].tr # 0 /\ ~PastLastCheck(m)}
    /\ Use("changes")
    /\ UNCHANGED <<row, waiting, created, trans, binding, withdrawn, disp, lease,
                   recovered, lookups, remote>>

\* InboundStore.unlink_private_chat.
UnlinkPrivateChat ==
    /\ used.changes < MaxChanges
    /\ route' = StopPush(route)
    /\ stopped' = stopped \cup {m \in Pushes : row[m].tr # 0 /\ ~PastLastCheck(m)}
    /\ Use("changes")
    /\ UNCHANGED <<row, waiting, created, fresh, trans, binding, withdrawn, disp,
                   lease, recovered, lookups, remote>>

\* InboundStore.change_binding.
ChangeBinding(s) ==
    /\ used.changes < MaxChanges
    /\ binding = "revoked" => s = "revoked"
    /\ binding' = s
    /\ route' = IF s = "active" THEN route ELSE StopPush(route)
    /\ stopped' = IF s = "active" THEN stopped
                  ELSE stopped \cup {m \in Pushes : row[m].tr # 0 /\ ~PastLastCheck(m)}
    /\ Use("changes")
    /\ UNCHANGED <<row, waiting, created, fresh, trans, withdrawn, disp, lease,
                   recovered, lookups, remote>>

\* Deletion of the private conversation a message belongs to begins.
Withdraw(m) ==
    /\ used.changes < MaxChanges
    /\ m \in created \ (Plain \cup withdrawn)
    /\ withdrawn' = withdrawn \cup {m}
    /\ stopped' = IF PastLastCheck(m) THEN stopped ELSE stopped \cup {m}
    /\ Use("changes")
    /\ UNCHANGED <<row, waiting, created, fresh, trans, binding, route, disp, lease,
                   recovered, lookups, remote>>

-----------------------------------------------------------------------------
(***************************************************************************)
(* The scheduler's tick.                                                   *)
(***************************************************************************)

\* Mutant: rows left in sending are made retryable.
RecoverInflight_Requeue ==
    [m \in Messages |->
        IF row[m].st = "sending" THEN [row[m] EXCEPT !.st = "failed"] ELSE row[m]]

\* Mutant: nothing is recovered.
RecoverInflight_Nothing == row

\* recover_inflight: a row found in sending may have been dispatched.
RecoverInflight ==
    [m \in Messages |->
        IF row[m].st = "sending" THEN [row[m] EXCEPT !.st = "unknown"] ELSE row[m]]

\* A tick starts under a new lease; the first of a process recovers rows.
Tick ==
    /\ disp.pc = "idle"
    /\ disp' = [Idle EXCEPT !.pc = "enqueue"]
    /\ lease' = "live"
    /\ row' = IF recovered THEN row ELSE RecoverInflight
    /\ waiting' = {m \in waiting : row'[m].st = "failed"}
    /\ recovered' = TRUE
    /\ UNCHANGED <<created, fresh, trans, binding, route, withdrawn, lookups, remote,
                   stopped, used>>

\* _web_push_recipient's conditions, for the route revision rev.
\* Mutant: any consent that is on now will do.
PushAllowed_AnyRevision(m, rev) ==
    /\ trans[Bound].status = "active" /\ binding = "active"
    /\ m \notin withdrawn /\ route.on

PushAllowed(m, rev) ==
    /\ trans[Bound].status = "active" /\ binding = "active"
    /\ m \notin withdrawn
    /\ route.on /\ route.rev = rev
    /\ m \in fresh

\* The transport enqueue_pending picks for m, 0 for none: a reply only leaves
\* through the transport that authenticated the message it answers.
Chosen(m) ==
    LET active == {t \in Transports : trans[t].status = "active"}
    IN  CASE m \in Replies -> IF Bound \in active THEN Bound ELSE 0
          [] m \in Pushes  -> IF PushAllowed(m, route.rev) THEN Bound ELSE 0
          [] OTHER         -> IF active = {} THEN 0
                              ELSE CHOOSE t \in active : \A u \in active : t <= u

EndTick == disp' = Idle

\* enqueue_pending: one transaction, one row per message that has none.
EnqueuePending ==
    /\ disp.pc = "enqueue"
    /\ IF lease = "stale"
       THEN EndTick /\ UNCHANGED row
       ELSE /\ row' = [m \in Messages |->
                  IF m \in created /\ row[m].st = "none" /\ Chosen(m) # 0
                  THEN [NoRow EXCEPT !.st = "queued", !.tr = Chosen(m),
                        !.rev = IF m \in Pushes THEN route.rev ELSE 0]
                  ELSE row[m]]
            /\ disp' = [disp EXCEPT !.pc = "select"]
    /\ UNCHANGED <<waiting, created, fresh, trans, binding, route, withdrawn, lease,
                   recovered, lookups, remote, stopped, used>>

\* Mutant: the attempt limit is not part of the query.
Due_Unlimited(m) == row[m].st \in {"queued", "failed"} /\ m \notin waiting

Due(m) ==
    /\ row[m].st \in {"queued", "failed"}
    /\ m \notin waiting
    /\ row[m].n < MaxAttempts

\* deliver_pending reads the rows that are due.
SelectDue ==
    /\ disp.pc = "select"
    /\ disp' = [disp EXCEPT !.pc = "next", !.todo = {m \in Messages : Due(m)}]
    /\ UNCHANGED <<db, lease, recovered, lookups, remote, stopped, used>>

\* The next row, or the end of the tick.  _deliver checks the lease and reads
\* the transport before it claims.
TakeNext ==
    /\ disp.pc = "next"
    /\ \/ /\ disp.todo = {} \/ lease = "stale"
          /\ EndTick
       \/ /\ lease = "live"
          /\ \E m \in disp.todo :
                disp' = [Idle EXCEPT !.pc = "claim", !.m = m, !.todo = disp.todo \ {m},
                         !.gen = trans[row[m].tr].gen]
    /\ UNCHANGED <<db, lease, recovered, lookups, remote, stopped, used>>

\* The claim is a compare and set in a transaction that a stale lease aborts.
Claim ==
    /\ disp.pc = "claim"
    /\ IF lease = "stale"
       THEN EndTick /\ UNCHANGED row
       ELSE IF row[disp.m].st \in {"queued", "failed"}
       THEN /\ row' = [row EXCEPT ![disp.m].st = "sending", ![disp.m].n = @ + 1]
            /\ disp' = [disp EXCEPT !.pc = "load"]
       ELSE disp' = [disp EXCEPT !.pc = "next"] /\ UNCHANGED row
    /\ stopped' = IF disp.m \in Pushes \cup withdrawn THEN stopped ELSE stopped \ {disp.m}
    /\ UNCHANGED <<waiting, created, fresh, trans, binding, route, withdrawn, lease,
                   recovered, lookups, remote, used>>

Finishing(o) == disp' = [disp EXCEPT !.pc = "finish", !.out = o]
FailingClosed == disp' = [disp EXCEPT !.pc = "finish", !.out = "denied"]

\* The recipient of a push or a reply is still permitted.
RecipientPermitted(m) ==
    CASE m \in Pushes  -> PushAllowed(m, row[m].rev)
      [] m \in Replies -> binding = "active" /\ m \notin withdrawn
      [] OTHER         -> TRUE

\* Lease, credentials (refused for a revoked transport) and recipient.
Load ==
    /\ disp.pc = "load"
    /\ IF lease = "stale" THEN Finishing("unknown")
       ELSE IF /\ trans[row[disp.m].tr].status # "revoked"
               /\ RecipientPermitted(disp.m)
       THEN disp' = [disp EXCEPT !.pc = "send"]
       ELSE FailingClosed
    /\ UNCHANGED <<db, lease, recovered, lookups, remote, stopped, used>>

\* before_send: the transport is active and still the row that was read, the
\* delivery is being sent, and the recipient is still permitted.
SendAllowed(m) ==
    /\ trans[row[m].tr].status = "active"
    /\ row[m].st = "sending"
    /\ RecipientPermitted(m)
    /\ trans[row[m].tr].gen = disp.gen

\* before_send at pc from: go on to pc to, or end the delivery.  Inside an
\* SMTP conversation the denial is an OSError and the outcome is unknown.
BeforeSend(from, to) ==
    /\ disp.pc = from
    /\ \/ lease = "stale" /\ Finishing("unknown")
       \/ lease = "live" /\ SendAllowed(disp.m) /\ disp' = [disp EXCEPT !.pc = to]
       \/ /\ lease = "live" /\ ~SendAllowed(disp.m)
          /\ \/ FailingClosed
             \/ /\ from = "check" /\ row[disp.m].tr \in Email
                /\ Finishing("unknown")
    /\ UNCHANGED <<db, lease, recovered, lookups, remote, stopped, used>>

StartSend == BeforeSend("send", "token")
LastCheck == BeforeSend("check", "write")

\* The provider token (or the SMTP connection and login) is obtained, is
\* refused, or its request times out.
GetToken ==
    /\ disp.pc = "token"
    /\ \/ disp' = [disp EXCEPT !.pc = "check"]
       \/ Finishing("failed")
       \/ Finishing("unknown")
    /\ UNCHANGED <<db, lease, recovered, lookups, remote, stopped, used>>

\* The connection is refused before anything is written.
ConnectFails ==
    /\ disp.pc = "check"
    /\ Finishing("failed")
    /\ UNCHANGED <<db, lease, recovered, lookups, remote, stopped, used>>

WriteRequest ==
    /\ disp.pc = "write"
    /\ wire' = [wire EXCEPT ![disp.m] = @ + 1]
    /\ disp' = [disp EXCEPT !.pc = "wait", !.resp = "none"]
    /\ UNCHANGED <<db, lease, recovered, lookups, accepted, stopped, used>>

\* Mutant: a server error is an ordinary failure.
Outcome_ServerErrorFails(resp, email) ==
    CASE resp = "ok"       -> "delivered"
      [] resp = "rejected" -> IF email THEN "unknown" ELSE "failed"
      [] resp = "expired"  -> "failed"
      [] resp = "server"   -> "failed"
      [] OTHER             -> "unknown"

\* Mutant: a timeout is an ordinary failure.
Outcome_TimeoutFails(resp, email) ==
    CASE resp = "ok"       -> "delivered"
      [] resp = "rejected" -> IF email THEN "unknown" ELSE "failed"
      [] resp = "expired"  -> "failed"
      [] resp = "server"   -> "unknown"
      [] OTHER             -> "failed"

\* What _send and _deliver's handlers make of an answer; "none" is the
\* deadline.  An SMTP refusal is an OSError, so its outcome is unknown.
Outcome(resp, email) ==
    CASE resp = "ok"       -> "delivered"
      [] resp = "rejected" -> IF email THEN "unknown" ELSE "failed"
      [] resp = "expired"  -> "failed"
      [] resp = "server"   -> "unknown"
      [] OTHER             -> "unknown"

\* The answer or the deadline.  An expired token is refreshed once.
Receive ==
    /\ disp.pc = "wait"
    /\ IF disp.resp = "expired" /\ disp.token = 0
       THEN disp' = [disp EXCEPT !.pc = "token", !.token = 1]
       ELSE Finishing(Outcome(disp.resp, row[disp.m].tr \in Email))
    /\ UNCHANGED <<db, lease, recovered, lookups, remote, stopped, used>>

\* Mutant: _finish writes the row whatever its status is.
FinishRow_AnyStatus(m, o) ==
    [row EXCEPT ![m].st = IF o = "denied" THEN "failed" ELSE o,
                ![m].n = IF o # "denied" THEN @ ELSE IF @ + 1 > MaxAttempts THEN @ + 1
                         ELSE MaxAttempts]

\* _finish and _fail_closed_delivery change only a row that is being sent;
\* failing closed uses up the attempts.
FinishRow(m, o) ==
    IF row[m].st # "sending" THEN row
    ELSE [row EXCEPT ![m].st = IF o = "denied" THEN "failed" ELSE o,
                     ![m].n = IF o # "denied" THEN @ ELSE IF @ + 1 > MaxAttempts THEN @ + 1
                              ELSE MaxAttempts]

\* The transaction, in the accounting scope, and the lease check after it: a
\* delivered row whose lease is stale reaches the handler for an invalidated
\* operation, which finishes again as unknown.
Finish ==
    /\ disp.pc = "finish"
    /\ row' = FinishRow(disp.m, disp.out)
    /\ waiting' = IF disp.out = "failed" /\ row'[disp.m].st = "failed"
                      /\ row'[disp.m].n < MaxAttempts
                  THEN waiting \cup {disp.m} ELSE waiting \ {disp.m}
    /\ disp' = IF lease = "stale" /\ disp.out = "delivered"
               THEN [disp EXCEPT !.out = "unknown"]
               ELSE IF lease = "stale" /\ disp.out # "denied" THEN Idle
               ELSE [Idle EXCEPT !.pc = "next", !.todo = disp.todo]
    /\ UNCHANGED <<created, fresh, trans, binding, route, withdrawn, lease, recovered,
                   lookups, remote, stopped, used>>

\* The transaction fails: the error of recording a delivery is caught by the
\* handler for other exceptions; any other one leaves _deliver.
FinishFails ==
    /\ disp.pc = "finish" /\ used.faults < MaxFaults
    /\ disp' = IF disp.out = "delivered" THEN [disp EXCEPT !.out = "failed"] ELSE Idle
    /\ Use("faults")
    /\ UNCHANGED <<db, lease, recovered, lookups, remote, stopped>>

\* A retry time passes.
Elapse(m) ==
    /\ m \in waiting
    /\ waiting' = waiting \ {m}
    /\ UNCHANGED <<row, created, fresh, trans, binding, route, withdrawn, disp, lease,
                   recovered, lookups, remote, stopped, used>>

\* The admission gate makes the lease stale.
Fence ==
    /\ used.fences < MaxFences
    /\ lease = "live" /\ disp.pc # "idle"
    /\ lease' = "stale"
    /\ Use("fences")
    /\ UNCHANGED <<db, disp, recovered, lookups, remote, stopped>>

-----------------------------------------------------------------------------
(***************************************************************************)
(* The provider, shutdown and crash, and reconciliation.                   *)
(***************************************************************************)

Answered(m, r) ==
    IF disp.m = m /\ disp.pc = "wait" /\ disp.resp = "none"
    THEN [disp EXCEPT !.resp = r] ELSE disp

\* The provider accepts a request; its answer may be lost or a server error.
ProviderAccepts(m) ==
    /\ wire[m] > 0
    /\ wire' = [wire EXCEPT ![m] = @ - 1]
    /\ accepted' = [accepted EXCEPT ![m] = @ + 1]
    /\ \E r \in {"ok", "server", "none"} : disp' = Answered(m, r)
    /\ UNCHANGED <<db, lease, recovered, lookups, stopped, used>>

\* The request is refused or lost.
ProviderRefuses(m) ==
    /\ wire[m] > 0
    /\ wire' = [wire EXCEPT ![m] = @ - 1]
    /\ \E r \in {"rejected", "expired", "server", "none"} :
          /\ r = "expired" => row[m].tr \notin Email
          /\ disp' = Answered(m, r)
    /\ UNCHANGED <<db, lease, recovered, lookups, accepted, stopped, used>>

\* Shutdown cancels the tick at an await: the delivery is recorded unknown
\* and the process ends.  An SMTP worker past its check still writes.
Cancel ==
    /\ used.crashes < MaxCrashes
    /\ disp.pc \in {"token", "wait"} \/ (disp.pc = "write" /\ row[disp.m].tr \in Email)
    /\ wire' = IF disp.pc = "write" THEN [wire EXCEPT ![disp.m] = @ + 1] ELSE wire
    /\ row' = FinishRow(disp.m, "unknown")
    /\ waiting' = waiting \ {disp.m}
    /\ disp' = Idle /\ recovered' = FALSE /\ lookups' = {}
    /\ Use("crashes")
    /\ UNCHANGED <<created, fresh, trans, binding, route, withdrawn, lease, accepted,
                   stopped>>

\* A crash and a restart: the database and what is on the wire remain.
Crash ==
    /\ used.crashes < MaxCrashes
    /\ disp' = Idle /\ recovered' = FALSE /\ lookups' = {}
    /\ Use("crashes")
    /\ UNCHANGED <<db, lease, remote, stopped>>

\* lookup_unknown reads the row and asks the provider.
LookupUnknown(m) ==
    /\ row[m].st = "unknown" /\ row[m].rec = "none" /\ m \notin lookups
    /\ trans[row[m].tr].status # "revoked"
    /\ lookups' = lookups \cup {m}
    /\ UNCHANGED <<db, disp, lease, recovered, remote, stopped, used>>

\* _append_reconciliation: one terminal outcome, the first.
Reconciled(m, o) ==
    IF row[m].rec = "none" THEN [row EXCEPT ![m].rec = o] ELSE row

\* The provider's answer, terminal or not ("none").
LookupAnswer(m) ==
    /\ m \in lookups
    /\ lookups' = lookups \ {m}
    /\ \E o \in {"delivered", "failed", "none"} :
          /\ o = "delivered" => accepted[m] > 0
          /\ row' = IF row[m].st = "unknown" THEN Reconciled(m, o) ELSE row
    /\ UNCHANGED <<waiting, created, fresh, trans, binding, route, withdrawn, disp,
                   lease, recovered, remote, stopped, used>>

\* reconcile_unknown: the operator decides.
ReconcileUnknown(m, o) ==
    /\ row[m].st = "unknown"
    /\ row' = Reconciled(m, o)
    /\ UNCHANGED <<waiting, created, fresh, trans, binding, route, withdrawn, disp,
                   lease, recovered, lookups, remote, stopped, used>>

-----------------------------------------------------------------------------
TickSteps ==
    \/ Tick \/ EnqueuePending \/ SelectDue \/ TakeNext \/ Claim \/ Load
    \/ StartSend \/ GetToken \/ LastCheck \/ ConnectFails \/ WriteRequest
    \/ Receive \/ Finish

Next ==
    \/ TickSteps
    \/ FinishFails \/ Fence \/ Cancel \/ Crash \/ UnlinkPrivateChat
    \/ \E t \in Transports, s \in {"active", "disabled", "revoked"} : SetTransport(t, s)
    \/ \E push \in BOOLEAN : RoutePrivateChat(push)
    \/ \E s \in {"active", "disabled", "revoked"} : ChangeBinding(s)
    \/ \E m \in Messages :
          \/ Create(m) \/ Withdraw(m) \/ Elapse(m)
          \/ ProviderAccepts(m) \/ ProviderRefuses(m)
          \/ LookupUnknown(m) \/ LookupAnswer(m)
          \/ \E o \in {"delivered", "failed", "cancelled"} : ReconcileUnknown(m, o)

Spec == Init /\ [][Next]_vars

\* The scheduler ticks for ever, each of its steps ends (every await has a
\* deadline), and retry times pass.
Fairness ==
    /\ WF_vars(TickSteps)
    /\ \A m \in Messages : WF_vars(Elapse(m))

LiveSpec == Spec /\ Fairness

-----------------------------------------------------------------------------
(***************************************************************************)
(* Properties.                                                             *)
(***************************************************************************)

Statuses == {"none", "queued", "sending", "failed", "unknown", "delivered"}

\* Every variable has its type; attempts stay below the limit that failing
\* closed after the last attempt reaches (transport.py:1396-1417, 2149-2170).
TypeOK ==
    /\ row \in [Messages -> [st : Statuses, n : 0 .. MaxAttempts + 1,
                             tr : Transports \cup {0}, rev : 0 .. MaxChanges,
                             rec : {"none", "delivered", "failed", "cancelled"}]]
    /\ waiting \subseteq Messages /\ created \subseteq Messages /\ fresh \subseteq Pushes
    /\ trans \in [Transports -> [status : {"active", "disabled", "revoked"},
                                 gen : 0 .. MaxChanges]]
    /\ binding \in {"active", "disabled", "revoked"}
    /\ route \in [on : BOOLEAN, rev : 0 .. MaxChanges]
    /\ withdrawn \subseteq Messages
    /\ disp \in [pc : {"idle", "enqueue", "select", "next", "claim", "load", "send",
                       "token", "check", "write", "wait", "finish"},
                 todo : SUBSET Messages, m : Messages \cup {"none"},
                 gen : 0 .. MaxChanges, token : 0 .. 1,
                 resp : {"none", "ok", "rejected", "expired", "server"},
                 out : {"none", "delivered", "failed", "unknown", "denied"}]
    /\ lease \in {"live", "stale"} /\ recovered \in BOOLEAN
    /\ lookups \subseteq Messages /\ stopped \subseteq Messages

\* The provider takes a message at most once, whatever crashes, timeouts,
\* fences and retries happen: rows whose request may be out are never sent
\* again (transport.py:1419-1429, 1624-1668, 1865-1866).
AcceptedAtMostOnce == \A m \in Messages : accepted[m] + wire[m] <= 1

\* A recorded outcome is true: a row marked delivered was accepted, and a row
\* marked failed was not and has nothing under way (transport.py:1615-1674).
OutcomeTruthful ==
    \A m \in Messages :
        /\ row[m].st = "delivered" => accepted[m] > 0
        /\ row[m].st \in {"queued", "failed"} => accepted[m] + wire[m] = 0

\* A push whose consent was withdrawn, or a message whose transport was
\* disabled or whose conversation was deleted while it was on its way to the
\* last check, is never written, even if consent or transport come back
\* (transport.py:1315-1317, 1362-1394, 1759-1777).
RevivesNothing == \A m \in stopped : wire'[m] <= wire[m]

Settled(m) ==
    \/ row[m].st = "delivered"
    \/ row[m].st = "unknown" /\ row[m].rec # "none"
    \/ row[m].st = "failed" /\ row[m].n >= MaxAttempts

\* Once a delivery is settled - delivered, reconciled or out of attempts - no
\* late answer, handler, recovery or second reconciliation changes it
\* (transport.py:2172-2197, 2465-2490).
KeepsSettled == \A m \in Messages : Settled(m) => row'[m] = row[m]

\* Every queued message comes to an end: delivered, unknown or out of
\* attempts (transport.py:1396-1429).
QueuedEnds ==
    \A m \in Messages :
        row[m].st = "queued" ~> (Settled(m) \/ row[m].st = "unknown")
=============================================================================

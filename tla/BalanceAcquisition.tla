------------------------- MODULE BalanceAcquisition -------------------------
(***************************************************************************)
(* The durable queue of wallet balance reads (wallet/acquisition.py).      *)
(* Operators queue, cancel and retry runs; HTTP workers recover expired    *)
(* claims, claim a due run, perform two RPC requests and record the        *)
(* outcome; a restart quarantines what was in flight.  Every ledger method *)
(* reads the clock first and opens its transaction later, so a timestamp   *)
(* may be older than what other threads wrote in between.                  *)
(*                                                                         *)
(* A claim token names one attempt of one run, so it is modelled by the    *)
(* attempt number.  All runs are on one network.  -1 stands for NULL.      *)
(***************************************************************************)
EXTENDS Integers, FiniteSets, FiniteSetsExt

CONSTANTS
    NumRuns,        \* runs, in the order of their identifiers
    TargetOf,       \* the target (asset and address) of each run
    Workers,        \* threads that may run acquisitions
    MaxAttempts,    \* max_attempts of a run
    MaxConcurrent,  \* max_concurrent
    Interval,       \* min_interval_seconds
    Window,         \* window_seconds
    Limit,          \* request_limit_per_window
    LeaseTime,      \* lease_seconds
    Backoff,        \* backoff_seconds
    PastDue,        \* operators may name a not_before in the past
    WorkerLag,      \* how late a worker's transaction may follow its clock read
    OperatorLag,    \* the same for an operator's request
    MaxTime,        \* the last instant
    MaxRevokes,     \* targets that are revoked
    MaxFences,      \* times the admission gate invalidates leases
    MaxCrashes      \* restarts

Runs == 1 .. NumRuns
Targets == {TargetOf[r] : r \in Runs}
Attempts == 1 .. MaxAttempts

VARIABLES
    clock,
    run,        \* wallet_balance_acquisition_runs
    att,        \* wallet_balance_acquisition_attempts
    snaps,      \* attempts that wrote a balance snapshot, per run
    active,     \* targets that are registered and active
    worker,     \* what each worker is doing
    req,        \* the operator's request under way
    real,       \* RPC requests each attempt really sent
    used        \* how many fences, crashes and revocations there were

vars == <<clock, run, att, snaps, active, worker, req, real, used>>

NoRun == [st |-> "none", n |-> 0, due |-> -1, exp |-> -1, created |-> -1,
          started |-> -1, done |-> -1]
NoAtt == [st |-> "none", cnt |-> -1, start |-> -1, done |-> -1, retried |-> -1]
IdleWorker == [pc |-> "idle", now |-> -1, r |-> 0, k |-> 0, cnt |-> 0,
               retry |-> FALSE, lease |-> "live"]
NoReq == [kind |-> "none", r |-> 0, now |-> -1, due |-> -1]

Init ==
    /\ clock = 1
    /\ run = [r \in Runs |-> NoRun]
    /\ att = [r \in Runs |-> [k \in Attempts |-> NoAtt]]
    /\ snaps = [r \in Runs |-> {}]
    /\ active = Targets
    /\ worker = [w \in Workers |-> IdleWorker]
    /\ req = NoReq
    /\ real = [r \in Runs |-> [k \in Attempts |-> 0]]
    /\ used = [fences |-> 0, crashes |-> 0, revokes |-> 0]

\* The clock moves on; a transaction follows its clock read within the lags.
Tick ==
    /\ clock < MaxTime
    /\ \A w \in Workers : worker[w].now # -1 => clock - worker[w].now < WorkerLag
    /\ req.kind # "none" => clock - req.now < OperatorLag
    /\ clock' = clock + 1
    /\ UNCHANGED <<run, att, snaps, active, worker, req, real, used>>

-----------------------------------------------------------------------------
(***************************************************************************)
(* Operators.                                                              *)
(***************************************************************************)

Live == {"queued", "running", "retry_wait"}

\* uq_wallet_balance_acquisition_active_target.
TargetBusy(r) == \E s \in Runs \ {r} : TargetOf[s] = TargetOf[r] /\ run[s].st \in Live

DueTimes == {clock, clock + 1} \cup (IF PastDue THEN {clock - 1} ELSE {})

\* A request reads the clock; its identifiers are of runs that exist.
Request(kind, r, due) ==
    /\ req.kind = "none"
    /\ IF kind = "enqueue" THEN run[r].st = "none" /\ TargetOf[r] \in active
       ELSE run[r].st # "none"
    /\ req' = [kind |-> kind, r |-> r, now |-> clock, due |-> due]
    /\ UNCHANGED <<clock, run, att, snaps, active, worker, real, used>>

\* enqueue's transaction.
Enqueue ==
    /\ req.kind = "enqueue"
    /\ run' = IF TargetBusy(req.r) THEN run
              ELSE [run EXCEPT ![req.r] =
                      [NoRun EXCEPT !.st = "queued", !.due = req.due, !.created = req.now]]
    /\ req' = NoReq
    /\ UNCHANGED <<clock, att, snaps, active, worker, real, used>>

Cancellable(r) == run[r].st \in {"queued", "retry_wait"}

Cancelled(r, now) == [run[r] EXCEPT !.st = "cancelled", !.due = -1, !.exp = -1, !.done = now]

\* cancel's transaction.
Cancel ==
    /\ req.kind = "cancel"
    /\ run' = IF Cancellable(req.r) THEN [run EXCEPT ![req.r] = Cancelled(req.r, req.now)]
              ELSE run
    /\ req' = NoReq
    /\ UNCHANGED <<clock, att, snaps, active, worker, real, used>>

\* Mutant: attempts are not counted against max_attempts when rescheduled.
CanRetry_Always(k) == TRUE

\* A run is scheduled again only while attempts are left.
CanRetry(k) == k < MaxAttempts

\* retry_unknown's transaction.
RetryUnknown ==
    /\ req.kind = "retry"
    /\ IF /\ run[req.r].st = "unknown" /\ CanRetry(run[req.r].n)
          /\ ~TargetBusy(req.r)
       THEN /\ run' = [run EXCEPT ![req.r].st = "queued", ![req.r].due = req.due,
                                  ![req.r].done = -1]
            /\ att' = [att EXCEPT ![req.r][run[req.r].n].retried = req.now]
       ELSE UNCHANGED <<run, att>>
    /\ req' = NoReq
    /\ UNCHANGED <<clock, snaps, active, worker, real, used>>

\* A network, asset or address is revoked.
Revoke(t) ==
    /\ t \in active /\ used.revokes < MaxRevokes
    /\ active' = active \ {t}
    /\ used' = [used EXCEPT !.revokes = @ + 1]
    /\ UNCHANGED <<clock, run, att, snaps, worker, req, real>>

-----------------------------------------------------------------------------
(***************************************************************************)
(* Workers: WalletBalanceAcquisitionRunner.run_once.                       *)
(***************************************************************************)

\* Worker w goes to pc, reading the clock if a transaction comes next.
Goto(w, pc) ==
    worker' = [worker EXCEPT ![w].pc = pc,
                             ![w].now = IF pc = "read" THEN -1 ELSE clock]
Done(w) == worker' = [worker EXCEPT ![w] = IdleWorker]

\* A slot is free, and claim_due reads the clock.
RunOnce(w) ==
    /\ worker[w].pc = "idle"
    /\ Cardinality({v \in Workers : worker[v].pc # "idle"}) < MaxConcurrent
    /\ Goto(w, "recover")
    /\ UNCHANGED <<clock, run, att, snaps, active, req, real, used>>

\* _recover_running_connection: the run and its executing attempt.
RecoveredRun(r, now) == [run[r] EXCEPT !.st = "unknown", !.exp = -1, !.done = now]
RecoveredAtt(r, now) == [att[r][run[r].n] EXCEPT !.st = "unknown", !.done = now]

\* Mutant: recovery leaves the attempt executing.
RecoverRun_RunOnly(r, now) ==
    /\ run' = [run EXCEPT ![r] = RecoveredRun(r, now)]
    /\ UNCHANGED att

RecoverRun(r, now) ==
    /\ run' = [run EXCEPT ![r] = RecoveredRun(r, now)]
    /\ att' = [att EXCEPT ![r][run[r].n] = RecoveredAtt(r, now)]

Expired(now) == {r \in Runs : run[r].st = "running" /\ run[r].exp <= now}

\* recover_expired with limit 1: the run whose lease ended first.
RecoverExpired(now) ==
    \/ Expired(now) = {} /\ UNCHANGED <<run, att>>
    \/ \E r \in Expired(now) :
          /\ \A s \in Expired(now) : run[r].exp <= run[s].exp
          /\ RecoverRun(r, now)

RecoverStep(w) ==
    /\ worker[w].pc = "recover"
    /\ IF worker[w].lease = "stale" THEN Done(w) /\ UNCHANGED <<run, att>>
       ELSE /\ RecoverExpired(worker[w].now)
            /\ worker' = [worker EXCEPT ![w].pc = "claim"]
    /\ UNCHANGED <<clock, snaps, active, req, real, used>>

Started == {a \in Runs \X Attempts : att[a[1]][a[2]].st # "none"}
StartOf(a) == att[a[1]][a[2]].start

\* Mutant: the interval is one short.
NetworkDueAllowed_OffByOne(now) ==
    Started # {} => now > Max({StartOf(a) : a \in Started}) + Interval - 2

NetworkDueAllowed(now) ==
    Started # {} => now >= Max({StartOf(a) : a \in Started}) + Interval


\* An attempt costs what it reports, or the two requests it reserved.
Cost(a) == IF att[a[1]][a[2]].cnt = -1 THEN 2 ELSE att[a[1]][a[2]].cnt

RequestBudgetAllowed(now) ==
    MapThenSumSet(Cost, {a \in Started : StartOf(a) > now - Window}) + 2 <= Limit

Candidates(now) ==
    {r \in Runs : run[r].st \in {"queued", "retry_wait"} /\ run[r].due # -1 /\ run[r].due <= now}
Before(r, s) == run[r].due < run[s].due \/ (run[r].due = run[s].due /\ r < s)

\* claim_due's transaction: the first candidate whose target is active is
\* leased if interval and budget allow it; the ones before it whose target
\* is gone are cancelled.  (One network: what one may do, all may.)
ClaimDue(w) ==
    LET now == worker[w].now
        open == Cardinality({r \in Runs : run[r].st = "running"}) < MaxConcurrent
        good == {r \in Candidates(now) : TargetOf[r] \in active}
        gone == Candidates(now) \ good
        first == {r \in good : \A s \in good : r = s \/ Before(r, s)}
        chosen == IF NetworkDueAllowed(now) /\ RequestBudgetAllowed(now) THEN first ELSE {}
        cancelled == {g \in gone : \A r \in chosen : Before(g, r)}
    IN  /\ worker[w].pc = "claim"
        /\ IF worker[w].lease = "stale" \/ ~open
           THEN Done(w) /\ UNCHANGED <<run, att>>
           ELSE /\ run' = [r \in Runs |->
                      IF r \in cancelled THEN Cancelled(r, now)
                      ELSE IF r \in chosen
                      THEN [run[r] EXCEPT !.st = "running", !.n = @ + 1, !.due = -1,
                                          !.exp = now + LeaseTime, !.done = -1,
                                          !.started = IF @ = -1 THEN now ELSE @]
                      ELSE run[r]]
                /\ att' = [r \in Runs |->
                      IF r \in chosen
                      THEN [att[r] EXCEPT ![run[r].n + 1] =
                               [NoAtt EXCEPT !.st = "executing", !.start = now]]
                      ELSE att[r]]
                /\ IF chosen = {} THEN Done(w)
                   ELSE \E r \in chosen :
                          worker' = [worker EXCEPT ![w].pc = "read", ![w].now = -1,
                                                   ![w].r = r, ![w].k = run[r].n + 1]
        /\ UNCHANGED <<clock, snaps, active, req, real, used>>

\* One RPC request: the lease and the registered target are checked before it.
SendRequest(w) ==
    /\ worker[w].pc = "read" /\ worker[w].cnt < 2
    /\ worker[w].lease = "live" /\ TargetOf[worker[w].r] \in active
    /\ worker' = [worker EXCEPT ![w].cnt = @ + 1]
    /\ real' = [real EXCEPT ![worker[w].r][worker[w].k] = @ + 1]
    /\ UNCHANGED <<clock, run, att, snaps, active, req, used>>

\* Worker w's read failed: n requests are reported.
ReadFails(w, n, retry) ==
    worker' = [worker EXCEPT ![w].pc = "fail", ![w].now = clock,
                             ![w].retry = retry, ![w].cnt = n]

\* read_balance returns: both requests succeeded and the target is still
\* active; an error before or after sending a request; a changed target, which
\* reports the request it was about to send, or none when the last check of
\* all fails; an unexpected error; an invalidated lease.
ReadReturns(w) ==
    LET cnt == worker[w].cnt
        changed == TargetOf[worker[w].r] \notin active
        stale == worker[w].lease = "stale"
    IN  /\ worker[w].pc = "read"
        /\ \/ cnt = 2 /\ ~changed /\ ~stale /\ Goto(w, "renew")
           \/ \E retry \in BOOLEAN : ReadFails(w, cnt, retry)
           \/ cnt < 2 /\ ReadFails(w, cnt + 1, TRUE)
           \/ cnt < 2 /\ changed /\ ReadFails(w, cnt + 1, FALSE)
           \/ cnt \in {0, 2} /\ changed /\ ReadFails(w, 0, FALSE)
           \/ Goto(w, "unknown")
           \/ stale /\ Goto(w, "settle")
        /\ UNCHANGED <<clock, run, att, snaps, active, req, real, used>>

\* Mutant: the outcome is recorded whatever became of the claim.
ClaimHeld_Unchecked(w) == TRUE

\* Mutant: the token is enough, also after the claim was recovered.
ClaimHeld_TokenOnly(w) == run[worker[w].r].n = worker[w].k

\* _claim_row: the run is running under this claim, whose lease has not ended.
ClaimHeld(w) ==
    /\ run[worker[w].r].st = "running"
    /\ run[worker[w].r].n = worker[w].k
    /\ run[worker[w].r].exp > worker[w].now

\* A transaction that needs the claim: it settles the attempt under a stale
\* lease, and recovers expired runs when the claim is lost.
Record(w, pc, effect) ==
    /\ worker[w].pc = pc
    /\ IF worker[w].lease = "stale" THEN Goto(w, "settle") /\ UNCHANGED <<run, att, snaps>>
       ELSE IF ClaimHeld(w) THEN effect
       ELSE Goto(w, "lost") /\ UNCHANGED <<run, att, snaps>>
    /\ UNCHANGED <<clock, active, req, real, used>>

RetryAt(now, k) == now + Backoff * 2 ^ (k - 1)

Fail(w) ==
    LET r == worker[w].r
        k == worker[w].k
        again == worker[w].retry /\ CanRetry(k)
    IN  Record(w, "fail",
            /\ att' = [att EXCEPT ![r][k].st = "failed", ![r][k].cnt = worker[w].cnt,
                                  ![r][k].done = worker[w].now]
            /\ run' = [run EXCEPT ![r].st = IF again THEN "retry_wait" ELSE "failed",
                         ![r].due = IF again THEN RetryAt(worker[w].now, k) ELSE -1,
                         ![r].exp = -1,
                         ![r].done = IF again THEN -1 ELSE worker[w].now]
            /\ Done(w) /\ UNCHANGED snaps)

MarkUnknown(w) ==
    Record(w, "unknown", RecoverRun(worker[w].r, worker[w].now) /\ Done(w) /\ UNCHANGED snaps)

Renew(w) ==
    Record(w, "renew",
        /\ run' = [run EXCEPT ![worker[w].r].exp = worker[w].now + LeaseTime]
        /\ Goto(w, "complete") /\ UNCHANGED <<att, snaps>>)

\* complete_success; an inactive target raises and leaves the run running.
CompleteSuccess(w) ==
    LET r == worker[w].r
        k == worker[w].k
    IN  Record(w, "complete",
            /\ Done(w)
            /\ IF TargetOf[r] \notin active THEN UNCHANGED <<run, att, snaps>>
               ELSE /\ att' = [att EXCEPT ![r][k].st = "succeeded", ![r][k].cnt = 2,
                                          ![r][k].done = worker[w].now]
                    /\ run' = [run EXCEPT ![r].st = "succeeded", ![r].exp = -1,
                                          ![r].done = worker[w].now]
                    /\ snaps' = [snaps EXCEPT ![r] = @ \cup {k}])

\* _after_claim_loss.
ClaimLost(w) ==
    /\ worker[w].pc = "lost"
    /\ IF worker[w].lease = "stale" THEN Goto(w, "settle") /\ UNCHANGED <<run, att>>
       ELSE RecoverExpired(worker[w].now) /\ Done(w)
    /\ UNCHANGED <<clock, snaps, active, req, real, used>>

\* Settling an invalidated attempt: mark_unknown in the accounting scope.
Settle(w) ==
    /\ worker[w].pc = "settle"
    /\ IF ClaimHeld(w) THEN RecoverRun(worker[w].r, worker[w].now) ELSE UNCHANGED <<run, att>>
    /\ Done(w)
    /\ UNCHANGED <<clock, snaps, active, req, real, used>>

\* The admission gate invalidates the leases of all workers.
Fence ==
    /\ used.fences < MaxFences
    /\ worker' = [w \in Workers |-> IF worker[w].pc = "idle" THEN worker[w]
                                    ELSE [worker[w] EXCEPT !.lease = "stale"]]
    /\ used' = [used EXCEPT !.fences = @ + 1]
    /\ UNCHANGED <<clock, run, att, snaps, active, req, real>>

\* A restart: recover_interrupted quarantines every running run.
Restart ==
    /\ used.crashes < MaxCrashes
    /\ worker' = [w \in Workers |-> IdleWorker]
    /\ req' = NoReq
    /\ run' = [r \in Runs |-> IF run[r].st = "running" THEN RecoveredRun(r, clock) ELSE run[r]]
    /\ att' = [r \in Runs |-> [k \in Attempts |->
                 IF run[r].st = "running" /\ run[r].n = k THEN RecoveredAtt(r, clock)
                 ELSE att[r][k]]]
    /\ used' = [used EXCEPT !.crashes = @ + 1]
    /\ UNCHANGED <<clock, snaps, active, real>>

-----------------------------------------------------------------------------
Next ==
    \/ Tick \/ Enqueue \/ Cancel \/ RetryUnknown \/ Fence \/ Restart
    \/ \E r \in Runs :
          \/ \E due \in DueTimes : Request("enqueue", r, due) \/ Request("retry", r, due)
          \/ Request("cancel", r, -1)
    \/ \E t \in Targets : Revoke(t)
    \/ \E w \in Workers :
          \/ RunOnce(w) \/ RecoverStep(w) \/ ClaimDue(w) \/ SendRequest(w)
          \/ ReadReturns(w) \/ Fail(w) \/ MarkUnknown(w) \/ Renew(w)
          \/ CompleteSuccess(w) \/ ClaimLost(w) \/ Settle(w)

Spec == Init /\ [][Next]_vars

-----------------------------------------------------------------------------
(***************************************************************************)
(* Properties.                                                             *)
(***************************************************************************)

Times == -1 .. MaxTime + 1 + LeaseTime + Backoff * 2 ^ MaxAttempts

\* Every variable has its type: no run has more attempts than max_attempts
\* (acquisition.py:1110-1114, 1791).
TypeOK ==
    /\ clock \in 1 .. MaxTime
    /\ run \in [Runs -> [st : {"none", "queued", "running", "retry_wait", "succeeded",
                               "failed", "unknown", "cancelled"},
                         n : 0 .. MaxAttempts, due : Times, exp : Times, created : Times,
                         started : Times, done : Times]]
    /\ att \in [Runs -> [Attempts -> [st : {"none", "executing", "succeeded", "failed", "unknown"},
                         cnt : -1 .. 2, start : Times, done : Times, retried : Times]]]
    /\ snaps \in [Runs -> SUBSET Attempts] /\ active \subseteq Targets
    /\ worker \in [Workers -> [pc : {"idle", "recover", "claim", "read", "fail", "unknown",
                                     "renew", "complete", "lost", "settle"},
                               now : Times, r : Runs \cup {0}, k : Attempts \cup {0},
                               cnt : 0 .. 2, retry : BOOLEAN, lease : {"live", "stale"}]]

\* The last attempt's status that a run's status calls for
\* (_verify_run_attempts, expected_last).
ExpectedLast(st) ==
    CASE st = "queued"     -> {"unknown"}
      [] st = "running"    -> {"executing"}
      [] st = "retry_wait" -> {"failed"}
      [] st = "succeeded"  -> {"succeeded"}
      [] st = "failed"     -> {"failed"}
      [] st = "unknown"    -> {"unknown"}
      [] OTHER             -> {"failed", "unknown"}

\* _verified_run_values: the shape and the order of times of a run's row.
RunVerifies(r) ==
    /\ run[r].st \in {"queued", "retry_wait"} => run[r].n < MaxAttempts /\ run[r].due # -1
    /\ run[r].st = "running" => run[r].exp # -1
    /\ run[r].started # -1 => run[r].started >= run[r].created
    /\ run[r].done # -1 =>
          run[r].done >= (IF run[r].started = -1 THEN run[r].created ELSE run[r].started)

\* _verified_attempt_values: an attempt ends after it starts.
AttemptVerifies(r, k) ==
    /\ att[r][k].start >= run[r].created
    /\ att[r][k].st # "executing" => att[r][k].done >= att[r][k].start

\* _verify_run_attempts: as many attempts as the run counts, one after the
\* other, the last one agreeing with the run.
RunAttemptsVerify(r) ==
    LET n == run[r].n IN
    /\ \A k \in Attempts : (att[r][k].st # "none") <=> (k <= n)
    /\ n = 0 => run[r].st \in {"queued", "cancelled"}
    /\ n > 0 => /\ att[r][n].st \in ExpectedLast(run[r].st)
                /\ att[r][1].start = run[r].started
    /\ run[r].st \in {"failed", "unknown", "succeeded"} => att[r][n].done = run[r].done
    /\ \A k \in 1 .. n - 1 : /\ att[r][k].st \in {"failed", "unknown"}
                             /\ att[r][k + 1].start >= att[r][k].done

\* _verify_run_audits: an unknown attempt that was followed by anything has
\* one retry audit, dated between its end and the next start.
RunAuditsVerify(r) ==
    LET n == run[r].n IN
    \A k \in 1 .. n :
        /\ (att[r][k].retried # -1) <=>
              (att[r][k].st = "unknown" /\ (k < n \/ run[r].st \in {"queued", "cancelled"}))
        /\ att[r][k].retried # -1 =>
              /\ att[r][k].retried >= att[r][k].done
              /\ k < n => att[r][k].retried <= att[r][k + 1].start

\* What verify_integrity accepts of run r.
Verifies(r) ==
    /\ RunVerifies(r) /\ RunAttemptsVerify(r) /\ RunAuditsVerify(r)
    /\ \A k \in 1 .. run[r].n : AttemptVerifies(r, k)

\* Whatever workers, operators, fences and restarts do, the rows pass the
\* integrity verification that would otherwise quarantine the subject
\* (acquisition.py:1968-2575).
EvidenceVerifies == \A r \in Runs : run[r].st # "none" => Verifies(r)

\* A run writes at most one balance snapshot, and one that did has succeeded:
\* a worker whose claim was lost records nothing (acquisition.py:1275-1303).
OneSnapshot ==
    \A r \in Runs :
        /\ Cardinality(snaps[r]) <= 1
        /\ (snaps[r] # {}) <=> (run[r].st = "succeeded")

\* The requests really sent by the attempts that started within any window do
\* not exceed the limit, whatever became of the attempts (acquisition.py:819-834).
BudgetHolds ==
    \A t \in 1 .. MaxTime :
        MapThenSumSet(LAMBDA a : real[a[1]][a[2]],
                      {a \in Started : StartOf(a) > t - Window /\ StartOf(a) <= t}) <= Limit

\* Attempts on the network start at least the interval apart, over all runs
\* and workers (acquisition.py:799-817).
StartsSpaced ==
    \A a, b \in Started : a # b => StartOf(a) - StartOf(b) \notin (1 - Interval) .. (Interval - 1)

\* A run that is succeeded, failed or cancelled never changes again, and an
\* attempt that ended keeps its outcome (migrations_v053_v054.py:653-672).
KeepsEnded ==
    \A r \in Runs :
        /\ run[r].st \in {"succeeded", "failed", "cancelled"} => run'[r] = run[r]
        /\ \A k \in Attempts :
              att[r][k].st \notin {"none", "executing"} => att'[r][k].st = att[r][k].st
=============================================================================

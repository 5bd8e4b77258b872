# Noyra: a TLA+ model of the runtime's safety core

This directory models the part of Noyra that decides *whether work may happen,
whether it may happen again, and what survives a crash*: the admission gate,
the action ledger with its executors, and the runtime process (boot, integrity
audit, tick, operator controls, shutdown) around the durable lifecycle.  TLC
checks the models on small instances; TLAPS proves the main safety results for
every instance.

Paths below are relative to the repository; the package is `src/noyra/`
(listed in `PROJECT.json` as `src/src/noyra/`).

## 1. Inventory of the system

| Component | State | Operations | Interacts with | Hard behaviour |
|---|---|---|---|---|
| Admission gate `core/admission.py` | epoch, active count, accepting, quarantined, closed, fence, control flag; leases | open, invalidate, quarantine, drain, clear_quarantine, begin, finish, commit scopes, migration fence | every thread that writes | a lease checked before a pause and used after it; drain count; lock held over a commit |
| Action ledger `core/actions.py` | actions, action_revisions, behavior log and its revisions | prepare, start, finish, cancel, recover_interrupted, reconcile_unknown, verify_integrity | tools, operator, boot | crash between start and finish; two callers of one key |
| Capability tools `capability/` | capability_uses, grants, files | read_text, fetch_document, write_text, use, write_atomic | ledger, gate | published but not recorded; grant revoked in between |
| Lifecycle `core/lifecycle.py` | runtime_state | transition, pause, resume, safe_pause, recover_for_restart | all | transitions by loop, operator and boot |
| Service and kernel `service.py`, `core/runtime.py`, `core/locking.py` | process lock, boot recovery flag, stop flag | boot, pre-tick, request_shutdown, run's finally clause | gate, lifecycle, watchdog | lifecycle read outside the gate's lock; open after drain |
| Integrity watchdog `core/integrity.py` | findings, pause_pending | run_if_due, commit report, policy | safe_pause | a finding overtaken by a resume; failure between report and policy |
| Autonomy loop `autonomy/loop.py` | circuit breaker | tick, sleep conflict | sleep engine, kernel.pause | pause outside the control scope |
| Sleep engine `sleep/engine.py` | sleep_runs | start, begin/commit_reflection, enter_deep_sleep, wake, complete_wake, wake_early | lifecycle | early wake against scheduled wake; restart while asleep |
| Operator controls `core/operator_controls.py` | none of its own | pause, resume, reset, wake, reconcile_action, reconcile_model_call | gate, ledger, lifecycle | check, then act |
| HTTP admission `http_transport.py` | none of its own | do_POST | gate | advice (`allow_mutation`) against decision (`begin`) |
| Migration `migration/` | epochs, tasks, receipts, fence file | prepare, cutover, commit, rollback, agent loop | gate, lifecycle, a remote executor | lost replies, stale epoch, two runtimes |
| Model and embedding ledgers `model/` | calls, attempts, reservations, key health | reserve, settle, reconcile | operator, gate | budget under concurrency, unknown charges |
| Wallet `wallet/` | payments, nonces, observation jobs, rewards | plan, sign, broadcast, recover | chain RPC | signed but not known to be broadcast |
| Interaction `interaction/` | deliveries, inbound messages, erasure intents, posts | send, look up, ingest, erase | platform APIs | unknown delivery; duplicate webhook; resumable deletion |
| Archive, storage, export, at-rest `core/` | archives, pressure, export jobs, keys | stage, prune, claim, rotate | gate | crash between file and row |
| Cognition, mind, world, knowledge, learning | projects, thoughts, memories, sources | mostly scoring, prompts, append-only stores | model gateway | project claims; otherwise little protocol |
| Routes, configuration, setup, schema | none | parsing, validation, DDL | | none at this level |

`PROJECT.json` lists every component with its status and, under `hazards`, the
lines at which each behaviour bites and the property that would catch it.

## 2. Modules

```
Gate ──────────┬── AdmissionGate ── AdmissionGateProofs       MCAdmissionGate
               └── Runtime ◄── Lifecycle                      MCRuntime
ActionLedger ───── ToolRunner ◄─(refines)─ AtMostOnce         MCToolRunner
                       └── ToolRunnerProofs
```

**Gate** (`core/admission.py`) gives each method of `RuntimeAdmissionGate` as a
function of the gate's record: a guard (`OpenAllowed`, `BeginAllowed`,
`ClearFenceAllowed`, ...) for its early raises and a result (`Opened`, `Begun`,
`FenceCleared`, ...) for its assignments.  It has no variables, so two modules
can use the same definitions.

**AdmissionGate** puts these methods under arbitrary callers: any thread calls
any method whenever the method allows it.  The gate's re-entrant lock appears as
`holder`: a method is one step and needs the lock free; `commit_scope` and
`external_side_effect_scope` keep it over several steps.  The ownership callbacks
change at any moment (`Environment`), because the process lock and the epoch
table are not protected by the gate's lock.  `cut` is a history variable: the
workers whose outstanding lease a newer epoch has passed over.

**ActionLedger** (`core/actions.py`) gives each ledger method as a function of a
row.  A row keeps the status, the kind of action its key identifies, the retry
count, the statuses of its revisions and of its behavior-log revisions.
`Intact` is `verify_integrity` for one row.

**ToolRunner** (`capability/tools.py`, `store.py`, `filesystem.py`,
`OperatorControl.reconcile_action`, boot recovery) runs the ledger: several
callers use one key; between two transactions of a caller anything may happen,
namely another caller, a fence, a revoked grant, the operator, or a crash.  A
caller's job keeps the record `prepare` returned (`seen`), stale or not, because
the code decides on that record.  `effects` is a history variable that counts
real replacements of the file.

**AtMostOnce** is the abstract promise: each key has a phase (idle, attempt,
doubt, settled), its effect happens at most once and only during its attempt, and
a settled key never moves.  `ToolRunner` implements it with the phase read off
the ledger's status.

**Lifecycle** (`core/lifecycle.py`) is the transition table and the restart rule.

**Runtime** (`service.py`, `core/runtime.py`, `core/integrity.py`,
`autonomy/loop.py`, `sleep/engine.py`, `core/operator_controls.py`,
`http_transport.py`) composes gate and lifecycle with the threads of one process:

- the service thread, whose position is `loop.at`: boot and deferred boot
  (`Boot` ... `LiftQuarantine`), the audit in its worker thread (`AuditRuns` ...
  `SafePauseChecks`), the verdict (`Verdict`, `Judge`, `Hold`, `Reopen`), the
  tick with its sleep methods and its own pause, and the shutdown;
- the operator's control, which holds the gate's lock from
  `lifecycle_control_scope`'s entry to its end, in two steps, so that the
  threads that do not need the lock interleave with it;
- request threads, ordinary and recovery (`allow`), with leases and commits;
- the signal handler, and crashes that keep `durable` only.

A database transaction is one step: `BEGIN IMMEDIATE` serialises writers, and a
transaction of a leased caller keeps the gate's lock to its commit.  A method of
two transactions (safe_pause, resume with its source epoch) is two steps, or has
a failing variant for a failure between them.

## 3. Runs

| Run | Instance | Distinct states | Shows |
|---|---|---|---|
| `gate_safety` | 3 workers, epochs to 3, symmetry | 23 612 | `CommitIsCurrent`: a commit in progress stays admissible until it is durable. `CutLeaseNeverCommits`: a lease cut off by a newer epoch never commits, however often admission closes and opens. `ActiveCountsLeases`, `DrainedStaysQuiet`: the drain count is exact, so after `fence_for_migration` returned nothing is in flight under its fence. |
| `gate_drain` | 2 workers, epochs to 2 | 6 068 | `FenceDrains`: the fence does not wait forever. |
| `tools_safety` | 1 key, 3 callers, 3 charges, symmetry | 57 494 | `AtMostOneExecution`, `RecordIsTruthful` (the recorded outcome of a write agrees with the file), `LedgerVerifies` (every crash state passes `verify_integrity`), `ChargedBeforeRun`, `OutcomeIsFinal`, and the refinement `ImplementsAtMostOnce`. |
| `tools_settle` | 1 key, 2 callers, 2 charges | 20 026 | `StartedIsSettled`: a started write or fetch gets an outcome even when its lease is fenced. |
| `runtime_safety` | 2 requests, pause policy, crashes, symmetry | 32 487 | `SleepRunMatchesLifecycle`, `FindingsHoldSleep`, `SafePauseHolds`, `LockOutlivesLeases`, `DrainIsFinal`. |
| `runtime_live` | 1 request, pause policy, no crash | 12 081 | `ShutdownCompletes`, `ActiveIsServed`, `FindingsPauseTheRuntime`. |
| `paused_stays_shut` | 1 request, pause policy, no crash | violation | see section 6 |

Every property of a passing run has a mutant in `PROJECT.json`: a change of one
definition in the way the code could plausibly be wrong, under which TLC finds
the property violated.  The mutated forms stand in the modules, marked
`Mutant:`; the specifications never use them.

**Bounds.** *Workers 3*: one worker inside a commit, one cut off, one new; the
gate compares leases only with its own epoch, and the proofs remove the bound.
*MaxEpoch 3*: enough for a lease to be cut, admission reopened and cut again.
*One key*: the rows of different keys never interact, except that a boot recovers
all of them, which the proofs cover for any set of keys.  *Three callers*: one
that runs the action, one with a stale record, one that is new.  *MaxCharges*
equals the number of callers, so each can be charged; after that a `use` fails,
as the rate limit makes it.  *Runtime* needs no numeric bound: the code only asks
whether a lease's epoch equals the gate's, so the gate's epoch is renamed to
`Now` in each state and older ones to 0; whether the lifecycle version passed to
`open(epoch=...)` exceeds the epoch is a nondeterministic choice.  The live run
leaves crashes out because with an endless supply of crashes nothing is promised.

**Fairness.**  *AdmissionGate*: weak fairness of `LeaveCommit`, `Finish` (scopes
are `with` blocks, leases are finished in `finally`) and `FenceDrained` (a
condition variable that `finish` notifies).  *ToolRunner*: weak fairness of each
caller's own thread, and of `Boot` (the supervisor restarts the process); no
fairness of the operator, of grants or of reopening.  *Runtime*: strong fairness
of the service thread and of a request's end, since both wait for a lock that
others take and release again (Python's lock is not fair in theory; in practice a
waiter is not passed over for ever); strong fairness of the audit and of its
policy step, that is, an audit falls due again and again and does not fail every
time; weak fairness of the control and of leaving a commit, which already hold
the lock.

## 4. Proofs

Both proof modules hold for any instance that satisfies the named assumptions of
the modules they extend (finite `Workers`, sentinel values that are not members of
the sets they complete, natural bounds).

**AdmissionGateProofs.**  `CutLeaseNeverCommits` is not inductive.  The
strengthening `FenceInv` adds that no lease carries an epoch the gate has not
reached (`LeasesFromThePast`) and that a cut lease is outstanding and strictly
behind the gate's epoch (`CutIsStale`).  Epochs only grow within a process, so a
cut lease can never become current again; a lease inside a commit carries the
gate's epoch, because nothing that moves the epoch runs while the lock is held.
`ActiveCountsLeases` is a second induction on top, where cardinality facts are
needed.  Theorems: `TypeCorrect`, `CommitsAreCurrent`, `FencedLeasesStayOut`,
`DrainIsExact`.

**ToolRunnerProofs.**  The row lemmas (`StartedRow`, `RecordedRow`, ...) say what
each ledger method does to one row; the induction reads only those.  Its
invariant `IInv` adds: a busy caller's row exists and, if the caller runs it, is
`executing` (`JobsOwnRows`); one executor per key (`SoleExecutor`); how far the
executor has come says whether the file has been replaced (`EffectByPlace`); what
a row alone says of its attempt (`RowHistory`); a dead process has no callers
(`DownIsQuiet`), which is what makes boot recovery safe.  Theorems:
`TypeCorrect`, `OneExecution`, `TruthfulRecord`, `AlwaysVerifies`,
`AlwaysCharged`, `FinalOutcome` (an action property, from a lemma that lists the
legal row moves) and `KeepsPromise` (the refinement of `AtMostOnce`).

**Only model-checked.**  Every liveness property (fairness and `ENABLED` are
outside the prover's reach), and all of `Runtime`.

## 5. Abstractions

- Hashes, evidence capacity, texts and timestamps are left out; a check that
  compares hashes is modelled by what it compares.
- `prepare` also refuses outside `active` and for blocked retries; a refused call
  takes no step.
- A grant is one Boolean, its scope and rate window are the bound on charges.
- The outcome of an audit is an arbitrary Boolean; the circuit breaker is an
  arbitrary wait; model output is arbitrary.
- The findings the controller holds in memory and the ones it persisted are one
  variable; the branches for a missing report and for the lifecycle `unknown`
  are not modelled.
- `allow_mutation` only advises: a request it turns away takes no step, one it
  lets through still needs `begin`.
- The lifecycle's version number, the migration guard and the migration fence are
  not composed into `Runtime` (the fence itself is in `AdmissionGate`).
- A wake of a run that was replaced by a newer run is not distinguished from a
  wake of that run.
- A signal may be handled at any point of the audit or of a sleep method, which
  includes the awaits of the code and a few positions more.
- `SubjectKernel.stop` has no caller under `src/noyra` and is not modelled; the
  sleep status `failed` is written by no method.
- One process at a time: contention for the process lock is in the plan.

## 6. Where the code and a test disagree

`paused_stays_shut`.  `_integrity_pre_tick` reads the lifecycle outside the
gate's lock (`service.py:2602`) and, having read `active`, calls
`admission.open(epoch=...)` (`service.py:2609`).  An operator's pause that commits
in between is followed by the `open`: the runtime is paused and the gate accepts
ordinary mutations until the next invalidation.  The tick itself still waits,
since it reads the lifecycle again.
`tests/test_gate0_runtime_boundaries.py:655`
(`test_clean_integrity_report_does_not_reopen_paused_admission`) asserts at line
694 that a paused runtime is not accepting after a clean report; it covers a pause
that precedes the pre-tick.

A related observation that the model includes and no property forbids: `read_text`
finishes outside `accounting_scope`, so a read whose lease is fenced stays
`executing` until the next boot (`StartedIsSettled` excludes reads).

## 7. Plan

In order of importance; each item is a module with its runs, and theorems where
the invariant is worth having for every instance.

1. **Runtime proofs**: `LockOutlivesLeases`, `SleepRunMatchesLifecycle` and
   `SafePauseHolds` as theorems.
2. **Cutover**: migration epochs, fence file, prepare, cutover, commit, rollback
   with lost replies and crashes, composed with `Gate` and the lifecycle; the
   abstract promise is that at most one runtime is active for a subject.
3. **Ownership**: two processes, the process lock and the durable owner.
4. **ModelLedger**: reservations, attempts, unknown outcomes, reconciliation;
   spending never exceeds the budget.  The embedding ledger follows it.
5. **WalletExecution**: nonce, signing, broadcast, recovery; one payment per
   intent.  Then acquisition jobs and rewards.
6. **Delivery**: outgoing messages with unknown results and lookups, inbound
   duplicates, erasure intents.
7. **Sleep engine** in detail, **export jobs**, **event archive**, **retention**,
   **secret cleanup**, **project claims**: each a small crash-recovery protocol.

Out of scope: parsing, validation, prompts, scoring, cryptography, schema DDL and
what depends on a model's text.

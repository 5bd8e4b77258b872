---------------------------- MODULE ProviderHealth ----------------------------
\* The circuit breaker of one model provider (core/provider_health.py). Calls
\* claim a permit before they use the provider and report their outcome when
\* they have one. After Threshold known failures in a row the provider cools
\* down; the first claim after that is a half-open probe, held by a token whose
\* lease expires if its owner never reports.
EXTENDS Integers, FiniteSets

CONSTANTS
  HealthCalls,  \* threads that use the provider
  NoCaller,     \* no probe is held
  Threshold,    \* failure_threshold (3 in the code)
  CooldownTime, \* cooldown_seconds
  Lease         \* the two minutes a probe may stay unreported

VARIABLES
  health,    \* the row of provider_health_state; times are what is left of them
  recorded,  \* whether a bucket of provider_health_buckets exists
  holder     \* what each thread holds of a permit

healthVars == <<health, recorded, holder>>

NoRow == [state |-> "none", failures |-> 0, cool |-> 0, token |-> NoCaller, lease |-> 0]

\* probe: the permit carries a token; lease: what is left of the probe's lease
NoPermit == [pc |-> "idle", probe |-> FALSE, lease |-> 0]

Normal == [pc |-> "calling", probe |-> FALSE, lease |-> 0]

Probe == [pc |-> "calling", probe |-> TRUE, lease |-> Lease]

\* A probe holds the breaker until its lease runs out.
ProbeHeld == health.token # NoCaller /\ health.lease > 0

\* Mutant: a probe that nobody reported holds the breaker for ever.
MayProbe_NoLease == health.token = NoCaller /\ health.cool = 0

\* Mutant: the probe that is under way is not looked at.
MayProbe_NotExclusive == health.cool = 0

\* What claim_route demands of a provider that is neither healthy nor degraded.
MayProbe == ~ProbeHeld /\ health.cool = 0

\* claim_route: a normal permit, a half-open probe, or none. A provider with
\* recorded buckets and no state is an integrity error.
ClaimRoute(c) ==
  /\ holder[c].pc = "idle"
  /\ \/ /\ health.state = "none" /\ ~recorded
        /\ holder' = [holder EXCEPT ![c] = Normal]
        /\ UNCHANGED health
     \/ /\ health.state \in {"healthy", "degraded"}
        /\ holder' = [holder EXCEPT ![c] = Normal]
        /\ UNCHANGED health
     \/ /\ health.state \in {"cooldown", "half_open"} /\ MayProbe
        /\ health' = [health EXCEPT !.state = "half_open", !.token = c, !.lease = Lease]
        /\ holder' = [holder EXCEPT ![c] = Probe]
  /\ UNCHANGED recorded

\* Mutant: any completion ends the probe that is under way.
Overtaken_Never(c) == FALSE

\* Another request's probe is under way: this completion leaves it alone. A
\* thread without a token overtakes no probe.
Overtaken(c) == health.token # NoCaller /\ ~(holder[c].probe /\ health.token = c)

\* The state after a completion that is taken into account. It releases the
\* probe. Failures are counted up to the threshold.
Completed(outcome) ==
  LET failures == IF outcome # "failure" THEN 0
                  ELSE IF health.failures = Threshold THEN Threshold ELSE health.failures + 1
      cools == failures = Threshold
  IN [state |-> IF cools THEN "cooldown" ELSE IF outcome = "failure" THEN "degraded" ELSE "healthy",
      failures |-> failures,
      cool |-> IF cools THEN CooldownTime ELSE 0,
      token |-> NoCaller, lease |-> 0]

\* Mutant: an unknown outcome leaves no state behind.
Counts_Known(outcome) == outcome # "unknown"

\* An unknown outcome changes the state only when it is the first record.
Counts(outcome) == outcome # "unknown" \/ health.state = "none"

\* record_attempt: the bucket always counts the attempt, the state only when
\* no other probe is under way and the outcome is known or the first.
RecordAttempt(c) ==
  /\ holder[c].pc = "calling"
  /\ \E outcome \in {"success", "failure", "unknown"} :
       health' = IF ~Overtaken(c) /\ Counts(outcome) THEN Completed(outcome) ELSE health
  /\ recorded' = TRUE
  /\ holder' = [holder EXCEPT ![c] = NoPermit]

\* A permit nobody reports: a refusal before the provider was called (budget,
\* lifecycle, gateway construction), or a restart.
DropPermit(c) ==
  /\ holder[c].pc = "calling"
  /\ holder' = [holder EXCEPT ![c] = NoPermit]
  /\ UNCHANGED <<health, recorded>>

Less(n) == IF n = 0 THEN 0 ELSE n - 1

Minute ==
  /\ health' = [health EXCEPT !.cool = Less(@), !.lease = Less(@)]
  /\ holder' = [c \in HealthCalls |-> [holder[c] EXCEPT !.lease = Less(@)]]
  /\ UNCHANGED recorded

HealthInit == /\ health = NoRow /\ recorded = FALSE
              /\ holder = [c \in HealthCalls |-> NoPermit]

HealthNext == \/ \E c \in HealthCalls : ClaimRoute(c) \/ RecordAttempt(c) \/ DropPermit(c)
              \/ Minute

\* Calls keep coming while the subject runs, and time passes. No call is
\* assumed to report.
HealthFairness == /\ WF_healthVars(\E c \in HealthCalls : ClaimRoute(c))
                  /\ WF_healthVars(Minute)
                  /\ \A c \in HealthCalls : WF_healthVars(DropPermit(c))

HealthSpec == HealthInit /\ [][HealthNext]_healthVars

------------------------------------------------------------------------------
HealthTypeOK ==
  /\ health.state \in {"none", "healthy", "degraded", "cooldown", "half_open"}
  /\ health.failures \in 0..Threshold /\ health.cool \in 0..CooldownTime
  /\ health.token \in HealthCalls \cup {NoCaller} /\ health.lease \in 0..Lease
  /\ recorded \in BOOLEAN
  /\ \A c \in HealthCalls : holder[c].pc \in {"idle", "calling"} /\ holder[c].lease \in 0..Lease

\* Two recovery probes are never under way within one lease ("makes concurrent
\* recovery probes mutually exclusive"), a token exists exactly while the
\* provider is half open, and a provider with recorded attempts has a state,
\* without which claim_route would raise an integrity error.
ProbesExclusive ==
  /\ Cardinality({c \in HealthCalls : holder[c].probe /\ holder[c].lease > 0}) <= 1
  /\ (health.token # NoCaller) = (health.state = "half_open")
  /\ recorded => health.state # "none"

\* A completion never ends a probe that another claim holds ("must never
\* release a newer half-open probe claim").
KeepsNewerProbe ==
  \A c \in HealthCalls :
    /\ holder[c].pc = "calling" /\ holder'[c].pc = "idle"
    /\ health.token \notin {NoCaller, c}
    => health' = health

NewerProbeKept == [][KeepsNewerProbe]_healthVars

\* A provider that cooled down is tried again: even when probes are dropped
\* without a report, some later claim is given a permit.
CooldownEnds ==
  (health.state \in {"cooldown", "half_open"} /\ \A c \in HealthCalls : holder[c] = NoPermit)
    ~> (\E c \in HealthCalls : holder[c] # NoPermit)
==============================================================================

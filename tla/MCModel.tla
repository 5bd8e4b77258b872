-------------------------------- MODULE MCModel --------------------------------
(***************************************************************************)
(* Model calls for TLC. The components of model/ share no state that their *)
(* properties speak of, so each behaviour exercises one of them, in one of *)
(* the scenes below, and leaves the others where they started.             *)
(***************************************************************************)
EXTENDS Integers, Sequences, FiniteSets

CONSTANT Scenes  \* the scenes of the run

VARIABLES
  scene,
  calls, attempts, audit, job, enabled, toggles, rev, open, epoch, day, up, crashes,
  decisions,
  clock, group, key, events, secret, op, call, booting, used,
  health, recorded, holder,
  routeDecisions, wait, parent, plan, caller

routing == <<calls, attempts, audit, job, enabled, toggles, rev, open, epoch, day, up,
  crashes, decisions>>
resources == <<clock, group, key, events, secret, op, call, booting, used>>
provider == <<health, recorded, holder>>
waitRows == <<routeDecisions, wait, parent, plan, caller>>
vars == <<scene, routing, resources, provider, waitRows>>

\* One request, two groups: failover, fences, a crash, operator decisions.
Failover == INSTANCE ModelRouting WITH
  Requests <- {"r1"}, Groups <- {1, 2}, DailyAttempts <- [g \in {1, 2} |-> 2],
  DailyTokens <- [g \in {1, 2} |-> 3], Reserve <- 2, MaxAttempts <- 1,
  MaxFailovers <- 2, CallRows <- 2, AttemptRows <- 3, MaxToggles <- 0, MaxRev <- 0,
  MaxEpoch <- 1, MaxDay <- 0, MaxCrashes <- 1, MaxDecisions <- 2

\* Two requests compete for one group's daily budget; settings change, a day passes.
Budget == INSTANCE ModelRouting WITH
  Requests <- {"r1", "r2"}, Groups <- {1}, DailyAttempts <- [g \in {1} |-> 2],
  DailyTokens <- [g \in {1} |-> 3], Reserve <- 2, MaxAttempts <- 1, MaxFailovers <- 1,
  CallRows <- 2, AttemptRows <- 3, MaxToggles <- 1, MaxRev <- 0, MaxEpoch <- 0,
  MaxDay <- 1, MaxCrashes <- 0, MaxDecisions <- 0

\* One request retried on one group: a fence, a crash and a settings change.
Settling == INSTANCE ModelRouting WITH
  Requests <- {"r1"}, Groups <- {1}, DailyAttempts <- [g \in {1} |-> 2],
  DailyTokens <- [g \in {1} |-> 3], Reserve <- 1, MaxAttempts <- 2, MaxFailovers <- 1,
  CallRows <- 1, AttemptRows <- 2, MaxToggles <- 1, MaxRev <- 1, MaxEpoch <- 1,
  MaxDay <- 0, MaxCrashes <- 1, MaxDecisions <- 1

\* Two operators add, change and revoke keys of a group, two of which share a
\* secret; a file operation fails and the process restarts.
KeyAdmin == INSTANCE ModelResources WITH
  Keys <- {1, 2, 3}, Fingerprint <- <<1, 2, 2>>, Operators <- {"o1", "o2"},
  Calls <- {"c1"}, MaxTime <- 1, Lag <- 0, Cooldown <- 1, GroupLimit <- 3,
  MaxRequests <- 3, MaxCalls <- 0, MaxFaults <- 1, MaxCrashes <- 1

\* Two calls use the keys while an operator changes them.
Use == INSTANCE ModelResources WITH
  Keys <- {1, 2}, Fingerprint <- <<1, 2>>, Operators <- {"o1"}, Calls <- {"c1", "c2"},
  MaxTime <- 2, Lag <- 0, Cooldown <- 1, GroupLimit <- 2, MaxRequests <- 3,
  MaxCalls <- 2, MaxFaults <- 0, MaxCrashes <- 0

\* The circuit breaker of one provider, used by two calls.
Provider == INSTANCE ProviderHealth WITH
  HealthCalls <- {"c1", "c2"}, NoCaller <- "none", Threshold <- 2, CooldownTime <- 2,
  Lease <- 2

\* Two callers of one purpose, whose parent ends meanwhile.
Waits == INSTANCE RouteHistory WITH
  RouteCallers <- {"c1", "c2"}, NoDecision <- 0, MaxDecisions <- 2, MaxFailovers <- 2,
  MaxRetries <- 3, decisions <- routeDecisions

------------------------------------------------------------------------------
\* Every component starts; only the one the scene is about takes steps.
Init ==
  /\ scene \in Scenes
  /\ CASE scene = "failover" -> Failover!Init
       [] scene = "budget" -> Budget!Init
       [] OTHER -> Settling!Init
  /\ IF scene = "keys" THEN KeyAdmin!Init ELSE Use!Init
  /\ Provider!HealthInit
  /\ Waits!RouteInit
  /\ (scene # "waits" => parent = "open")

Next ==
  /\ \/ /\ \/ scene = "failover" /\ Failover!Next
           \/ scene = "budget" /\ Budget!Next
           \/ scene = "settling" /\ Settling!Next
        /\ UNCHANGED <<resources, provider, waitRows>>
     \/ /\ \/ scene = "keys" /\ KeyAdmin!Next
           \/ scene = "use" /\ Use!Next
        /\ UNCHANGED <<routing, provider, waitRows>>
     \/ /\ scene = "provider" /\ Provider!HealthNext
        /\ UNCHANGED <<routing, resources, waitRows>>
     \/ /\ scene = "waits" /\ Waits!RouteNext
        /\ UNCHANGED <<routing, resources, provider>>
  /\ UNCHANGED scene

SettlingDoes(A) == scene = "settling" /\ A /\ UNCHANGED <<scene, resources, provider, waitRows>>

ProviderDoes(A) == scene = "provider" /\ A /\ UNCHANGED <<scene, routing, resources, waitRows>>

\* The fairness each component justifies for itself.
Spec == /\ Init /\ [][Next]_vars
        /\ WF_vars(SettlingDoes(Settling!Running("r1")))
        /\ WF_vars(SettlingDoes(Settling!Boot))
        /\ WF_vars(ProviderDoes(\E c \in {"c1", "c2"} : Provider!ClaimRoute(c)))
        /\ WF_vars(ProviderDoes(Provider!Minute))
        /\ \A c \in {"c1", "c2"} : WF_vars(ProviderDoes(Provider!DropPermit(c)))

------------------------------------------------------------------------------
\* Every variable has its type, in every scene.
TypeOK ==
  CASE scene = "failover" -> Failover!TypeOK
    [] scene = "budget" -> Budget!TypeOK
    [] scene = "settling" -> Settling!TypeOK
    [] scene = "keys" -> KeyAdmin!TypeOK
    [] scene = "use" -> Use!TypeOK
    [] scene = "provider" -> Provider!HealthTypeOK
    [] scene = "waits" -> Waits!RouteTypeOK

\* "Unknown calls never retry automatically": over all physical calls, groups and
\* restarts, the provider may have done the work of one logical request at most once
\* more than the operator decided to let it run again.
NoSilentDuplicate ==
  /\ scene = "failover" => Failover!NoSilentDuplicate
  /\ scene = "settling" => Settling!NoSilentDuplicate

\* What the providers of a group really consumed in a day, and the requests they
\* really received, stay within the group's daily limits, also across crashes,
\* fences, cancellations and requests that compete.
NeverOverspent ==
  /\ scene = "failover" => Failover!NeverOverspent
  /\ scene = "budget" => Budget!NeverOverspent

\* A reservation that may still be charged belongs to a running worker, or restart
\* recovery is still to come.
NoOrphanReservation ==
  /\ scene = "failover" => Failover!NoOrphanReservation
  /\ scene = "budget" => Budget!NoOrphanReservation
  /\ scene = "settling" => Settling!NoOrphanReservation

\* A failed retry that fences its request can still be closed: no sequence of
\* cancellations and failures leaves a fence that nobody can lift.
FenceCanBeLifted == scene = "failover" => Failover!FenceCanBeLifted

\* Once a call is closed as failed without an operator's decision, every request
\* sent for it is known to have come to nothing, so that trying another group
\* duplicates no work.
FailedIsKnown ==
  /\ scene = "failover" => Failover!FailedIsKnown
  /\ scene = "settling" => Settling!FailedIsKnown

\* Whatever operators, late answers and restarts do, each key's row is what its
\* events say, and the group's row what its revisions say (verify_integrity).
ReplayMatches ==
  /\ scene = "keys" => KeyAdmin!ReplayMatches
  /\ scene = "use" => Use!ReplayMatches

\* A revoked group holds no usable key, whatever was being added when it was
\* revoked, and no group holds one secret twice, however two requests race.
RevokedGroupIsDead ==
  /\ scene = "keys" => KeyAdmin!RevokedGroupIsDead
  /\ scene = "use" => Use!RevokedGroupIsDead

\* No usable key ever lacks its file, through crashes and failed writes, and a file
\* without a usable key stays on record for a later repair.
SecretsAccounted ==
  /\ scene = "keys" => KeyAdmin!SecretsAccounted
  /\ scene = "use" => Use!SecretsAccounted

\* Two recovery probes of a provider are never under way within one lease, a token
\* exists exactly while the provider is half open, and a provider with recorded
\* attempts has a state.
ProbesExclusive == scene = "provider" => Provider!ProbesExclusive

\* Whatever two callers, a crash, an ending parent and an operator's repair do in
\* between, the routing evidence passes verify_routing_integrity.
RoutingVerifies == scene = "waits" => Waits!RoutingVerifies

\* No event of a key follows its revocation, and none is dated before its
\* predecessor: verify_integrity says otherwise "cognitive resource key event
\* sequence is invalid".
HistoriesVerify ==
  /\ scene = "keys" => KeyAdmin!HistoriesVerify
  /\ scene = "use" => Use!HistoriesVerify

\* Revocation is final, and mark() is never asked for a transition its table
\* refuses, which would raise in the middle of a request or of the startup.
StatesMoveLegally ==
  [][/\ scene = "keys" => KeyAdmin!MovesLegally
     /\ scene = "use" => Use!MovesLegally]_vars

\* A completion never ends a probe that another claim holds.
NewerProbeKept == [][scene = "provider" => Provider!KeepsNewerProbe]_vars

\* A late caller never revives the wait of a parent that has ended.
EndedParentStaysClosed == [][scene = "waits" => Waits!KeepsClosed]_vars

\* Every reservation is settled in the end, by its worker or by the recovery that
\* follows a crash.
AttemptsSettle == scene = "settling" => Settling!AttemptsSettle

\* A provider that cooled down is tried again, even when probes are dropped without
\* a report.
CooldownEnds == scene = "provider" => Provider!CooldownEnds



\* Routing: probes exclude each other, and the evidence of decisions, attempts and
\* waits verifies.
RoutesVerify == ProbesExclusive /\ RoutingVerifies

\* No step revives a revoked key, asks for a transition its table refuses, ends a
\* newer probe or reopens the wait of an ended parent.
ModelStepsLegal == StatesMoveLegally /\ NewerProbeKept /\ EndedParentStaysClosed

\* Reservations are settled and providers are tried again.
ModelWorkEnds == AttemptsSettle /\ CooldownEnds

==============================================================================

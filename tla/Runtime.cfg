SPECIFICATION FairSpec
CONSTANTS
  Requests = {r1, r2}
  Tick = Tick
  Operator = Operator
  Nobody = Nobody
  NoLease = NoLease
  Mode = "pause"
  Crashes = TRUE
INVARIANTS
  SleepRunMatchesLifecycle
  HandoversHold
PROPERTIES
  DrainIsFinal
  ShutdownCompletes
  ActiveIsServed
  FindingsPauseTheRuntime

SPECIFICATION Spec
CONSTANTS
  Requests = {r1}
  Tick = Tick
  Operator = Operator
  Nobody = Nobody
  NoLease = NoLease
  Mode = "pause"
  Crashes = FALSE
INVARIANTS
  PausedStaysShut

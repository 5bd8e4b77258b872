CONSTANTS
  Scenes = {"failover", "budget", "settling", "keys", "use", "provider", "waits"}
SPECIFICATION Spec
INVARIANTS
  
  
  RoutesVerify
PROPERTIES
  ModelStepsLegal
  ModelWorkEnds
CHECK_DEADLOCK FALSE

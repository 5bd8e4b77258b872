CONSTANTS
  Scenes = {"overlap", "shelved", "evaluated", "peers"}
SPECIFICATION Spec
INVARIANTS
  SharedSafe
PROPERTIES
  SharedStepsLegal
  
CHECK_DEADLOCK FALSE

CONSTANTS
  Scenes = {"faults", "restart", "consent", "mail", "prototypes", "limits", "cycle", "records"}
SPECIFICATION Spec
INVARIANTS
  DeliverySafe
  
PROPERTIES
  QueuedEnds
  
  DeliveryStepsLegal
CHECK_DEADLOCK FALSE

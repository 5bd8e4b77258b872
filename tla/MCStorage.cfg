CONSTANTS
  Scenes = {"passes", "leased", "faulty", "rotated", "offload", "fetched", "claimed", "history", "sealed", "legacy", "genuine"}
SPECIFICATION Spec

  
PROPERTIES
  StorageStepsLegal
  
CHECK_DEADLOCK FALSE

CONSTANTS
  Scenes = {"reorg"}
SPECIFICATION Spec
PROPERTIES
  CanonicalReceiptSettles
CHECK_DEADLOCK FALSE

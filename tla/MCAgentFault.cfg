CONSTANTS
  Scenes = {"consent"}
SPECIFICATION Spec
INVARIANTS
  ReceiptKept
CHECK_DEADLOCK FALSE

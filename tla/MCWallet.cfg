CONSTANTS
  Scenes = {"payments", "budget", "daily", "race", "fence", "reorg", "claims", "lag", "readFaults", "readBudget"}
SPECIFICATION Spec

  
  
PROPERTIES
  SigningEnds
  WalletStepsLegal
CHECK_DEADLOCK FALSE

SPECIFICATION FairSpec
CONSTANTS
  Keys = {k1}
  Callers = {c1, c2, c3}
  Operator = operator
  MaxCharges = 3
INVARIANTS
  RecordIsTruthful
  LedgerVerifies
PROPERTIES
  ImplementsAtMostOnce
  StartedIsSettled

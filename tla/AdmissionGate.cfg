SPECIFICATION FairSpec
CONSTANTS
  Workers = {w1, w2, w3}
  Nobody = Nobody
  NoLease = NoLease
  MaxEpoch = 3
INVARIANTS
  CommitIsCurrent
  CutLeaseNeverCommits
  DrainedStaysQuiet
PROPERTIES
  FenceDrains

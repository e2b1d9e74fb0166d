SPECIFICATION FairSpec
CONSTANTS
  n1 = n1
  n2 = n2
  None = None
  Nodes = {n1, n2}
  MaxShift = 2
  InitialCount <- SeedsDiffer
  Declared = {0, 2}
  RetargetAttempts = 2
  MaxEpoch = 3
  MaxLate = 1
INVARIANTS EpochAgreement
PROPERTIES ImplementsAgreement TargetReached

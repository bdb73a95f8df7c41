SPECIFICATION FairSpec
CONSTANTS
  s1 = s1
  k1 = k1
  k2 = k2
  k3 = k3
  k4 = k4
  k5 = k5
  Keys <- MCKeys
  Allowed <- MCAllowed
  SnapshotIds <- MCSnapshotIds
  Batches <- MCBatches
  Outputs <- MCOutputs
  MaxRounds = 2
  MaxPerRound = 2
  MaxTotal = 3
INVARIANTS TypeOK WithinBudget NoRepeatedCall CalledForReason ResultGrounded NoCallLost
PROPERTY Terminates

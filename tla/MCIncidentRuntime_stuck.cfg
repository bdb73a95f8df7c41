SPECIFICATION FairSpec
CONSTANTS
  w1 = w1
  w2 = w2
  Workers = {w1, w2}
  Lease = 3
  Timeout = 1
  MaxRetries = 2
  MaxCopies = 1
  FaultKinds = {"crash"}
  MaxFaults = 1
  MaxTime = 4
  SearchLag = FALSE
PROPERTY EventuallyComplete

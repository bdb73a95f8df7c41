SPECIFICATION FairSpec
CONSTANTS
  w1 = w1
  w2 = w2
  Workers = {w1, w2}
  Lease = 1
  Timeout = 1
  MaxRetries = 2
  MaxCopies = 2
  FaultKinds = {"work", "publish"}
  MaxFaults = 2
  MaxTime = 0
  SearchLag = FALSE
PROPERTY EventuallyComplete

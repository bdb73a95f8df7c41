SPECIFICATION Spec
CONSTANTS
  w1 = w1
  w2 = w2
  Workers = {w1, w2}
  Lease = 1
  Timeout = 1
  MaxRetries = 1
  MaxCopies = 1
  FaultKinds = {"publish"}
  MaxFaults = 1
  MaxTime = 0
  SearchLag = FALSE
INVARIANT IssueCitesStoredBundle

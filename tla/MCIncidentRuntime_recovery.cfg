SPECIFICATION FairSpec
CONSTANTS
  w1 = w1
  w2 = w2
  Workers = {w1, w2}
  Lease = 1
  Timeout = 1
  MaxRetries = 1
  MaxCopies = 2
  FaultKinds = {"crash", "state", "work", "publish"}
  MaxFaults = 1
  MaxTime = 3
  SearchLag = FALSE
INVARIANT AtMostOneIssue
PROPERTIES ImplementsExclusivePublication EveryDeliverySettles LeaseExpiryRecovers

SPECIFICATION Spec
CONSTANTS
  w1 = w1
  w2 = w2
  Workers = {w1, w2}
  Lease = 1
  Timeout = 1
  MaxRetries = 1
  MaxCopies = 2
  FaultKinds = {"crash", "state", "work", "publish"}
  MaxFaults = 2
  MaxTime = 2
  SearchLag = TRUE
SYMMETRY Symmetry
INVARIANTS TypeOK OwnershipInv AtMostOneOwner RecordConsistent RecordTruthful CompleteIsPublished
PROPERTY CompleteIsFinal

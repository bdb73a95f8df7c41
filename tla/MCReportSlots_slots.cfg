\* write_report: three processes that ask for the same second.
SPECIFICATION Spec
CONSTANTS
  p1 = p1
  p2 = p2
  p3 = p3
  earlier = earlier
  Processes <- ThreeProcesses
  Earlier <- earlier
  MaxSlot = 1
  Candidates <- FirstSecond
  Residue <- Interrupted
  Cli = FALSE
  FaultKinds <- AllFaults
  MaxFaults = 2
INVARIANTS
  TypeOK
  OneHolder
  ReturnedIsComplete
  CleanEnd
PROPERTIES
  OwnFilesOnly

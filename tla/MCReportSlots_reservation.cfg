\* run_eval: a command that fails releases its reservation twice.
SPECIFICATION Spec
CONSTANTS
  p1 = p1
  p2 = p2
  p3 = p3
  earlier = earlier
  Processes <- ThreeProcesses
  Earlier <- earlier
  MaxSlot = 3
  Candidates <- FirstSecond
  Residue <- Nothing
  Cli = TRUE
  FaultKinds <- OnlyExceptions
  MaxFaults = 1
INVARIANTS
  OneHolder

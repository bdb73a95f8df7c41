\* run_eval: two commands, one call raises or one command is killed.
SPECIFICATION FairSpec
CONSTANTS
  p1 = p1
  p2 = p2
  p3 = p3
  earlier = earlier
  Processes <- TwoProcesses
  Earlier <- earlier
  MaxSlot = 4
  Candidates <- TwoSeconds
  Residue <- Killed
  Cli = TRUE
  FaultKinds <- NoInterrupt
  MaxFaults = 1
PROPERTIES
  EarlierKept EveryCommandPublishes

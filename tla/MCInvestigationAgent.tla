------------------------ MODULE MCInvestigationAgent ------------------------
(***************************************************************************)
(* Instance of InvestigationAgent for TLC.  A proposal holds at most one   *)
(* request more than a round may have.  Reasons and conclusions cite the   *)
(* Snapshot or one of two Tool results, which may not exist yet.           *)
(***************************************************************************)
EXTENDS InvestigationAgent

CONSTANTS s1, k1, k2, k3, k4, k5

MCKeys == {k1, k2, k3, k4, k5}

MCAllowed == {k1, k2, k3, k4}   \* k5 is outside the topology

MCSnapshotIds == {s1}

MCRequests == [key : MCKeys, cited : {s1, k1}]

MCBatches == UNION {[1..n -> MCRequests] : n \in 0..(MaxPerRound + 1)}

MCOutputs ==
  [facts : {{}, {s1}, {s1, k1}, {k2}}, grounds : {{}, {k1}},
   classified : BOOLEAN]
=============================================================================

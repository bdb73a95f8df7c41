--------------------------- MODULE OfflineReplay ----------------------------
(***************************************************************************)
(* What runner.py and loop.py check while a recording is replayed against  *)
(* a fixture: the recording itself, each recorded proposal, each request   *)
(* for a recorded Tool result, and the recorded summary.  A conclusion is  *)
(* what the facts and directions cite, the labels of the directions, the   *)
(* classification and what it cites.                                       *)
(***************************************************************************)
EXTENDS EvalFixtures

CONSTANTS
  MaxRounds,    \* MAX_ROUNDS
  MaxPerRound,  \* MAX_TOOLS_PER_ROUND
  MaxTotal      \* MAX_TOTAL_TOOLS

ASSUME BudgetAssumption ==
  MaxRounds \in Nat \ {0} /\ MaxPerRound \in Nat /\ MaxTotal \in Nat

Modes == {"snapshot_only", "hybrid_agent"}

Unclassified ==
  [facts |-> <<>>, directions |-> <<>>,
   classification |-> "unclassified", grounds |-> <<>>]

(* RecordedEvaluation.__post_init__. *)
ValidRecording(r) ==
  /\ ~r.calls
  /\ r.mode = "snapshot_only" => r.proposals = <<>>
  /\ r.mode = "hybrid_agent" => r.proposals # <<>>

(* _validate_recording_matrix: the recordings given, as the set of their   *)
(* keys and the modes they were recorded in.                               *)
MatrixMatches(fixtures, matrix, count) ==
  /\ Distinct([i \in DOMAIN fixtures |-> fixtures[i].fixture_id])
  /\ Len(fixtures) = count
  /\ {<<m.fixture_id, m.mode>> : m \in matrix}
       = {fixtures[i].fixture_id : i \in DOMAIN fixtures} \X Modes
  /\ \A m \in matrix : m.recorded = m.mode

-----------------------------------------------------------------------------
(* _allowed_evidence. *)
Available(f, calls) == IdsIn(EvidenceLists(f, calls))

CitesAvailable(cites, f, calls) ==
  cites # <<>> /\ Distinct(cites) /\ Elements(cites) \subseteq Available(f, calls)

(* _validate_supported_output. *)
Grounded(o, f, calls) ==
  /\ \A i \in DOMAIN o.facts : CitesAvailable(o.facts[i], f, calls)
  /\ \A i \in DOMAIN o.directions :
       CitesAvailable(o.directions[i].cites, f, calls)
  /\ o.classification # "unclassified" => o.grounds # <<>>
  /\ o.grounds # <<>> => CitesAvailable(o.grounds, f, calls)

(* ToolRegistry._validate, for a request made after those keys. *)
Permitted(request, f, seen) == request.key \in f.topology.allowed \ seen

(* _validate_proposal and validate_batch. *)
AcceptableProposal(p, f, calls) ==
  /\ Len(p.requests) <= MaxPerRound
  /\ Len(p.requests) <= MaxTotal - Len(calls)
  /\ \A i \in DOMAIN p.requests :
       /\ p.requests[i].cited \in Available(f, calls)
       /\ Permitted(p.requests[i], f, {calls[j].key : j \in DOMAIN calls})
  /\ \A i, j \in DOMAIN p.requests :
       p.requests[i].key = p.requests[j].key => i = j
  /\ Grounded(p.conclusion, f, calls)

(* _RecordedToolHandler: what the fixture holds for a request, if anything. *)
RecordedKeys(f) == {f.tool_results[i].key : i \in DOMAIN f.tool_results}

RecordedResult(f, key) ==
  CHOOSE result \in Elements(f.tool_results) : result.key = key

-----------------------------------------------------------------------------
(* The neutral recordings that the repository's own report replays: the    *)
(* same summary of the Snapshot for both modes, without any direction.     *)

(* _snapshot_investigation.  The mistake: facts of Tool results as well.   *)
SnapshotAndToolsInvestigation(f) ==
  [Unclassified EXCEPT !.facts =
     [i \in DOMAIN f.snapshot.evidence |-> <<f.snapshot.evidence[i]>>]
       \o [i \in DOMAIN f.tool_results |-> f.tool_results[i].evidence]]

SnapshotInvestigation(f) ==
  [Unclassified EXCEPT !.facts =
     [i \in DOMAIN f.snapshot.evidence |-> <<f.snapshot.evidence[i]>>]]

(* _investigation_recordings. *)
NeutralRecording(f, mode) ==
  [mode      |-> mode,
   proposals |-> IF mode = "hybrid_agent"
                 THEN <<[requests   |-> <<>>,
                         conclusion |-> SnapshotInvestigation(f)]>>
                 ELSE <<>>,
   final     |-> SnapshotInvestigation(f),
   calls     |-> FALSE]
=============================================================================

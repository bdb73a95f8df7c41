---------------------------- MODULE EvalFixtures ----------------------------
(***************************************************************************)
(* Fixtures of the offline evaluation: what schema.py and loader.py accept *)
(* from a manifest of YAML files.  A raw fixture is the mapping the YAML   *)
(* parser hands over.  Its texts are not spelled out: "texts" says whether *)
(* they hold a credential, a token count (the one sensitive key that a     *)
(* fixture may use) or neither.  A Tool request is its deduplication key.  *)
(***************************************************************************)
EXTENDS Naturals, Sequences, FiniteSets

CONSTANTS
  ToolNames,  \* TOOL_NAMES
  SafeIds     \* the Evidence IDs that is_safe_structural_id accepts

FixtureFields == {"fixture_id", "scenario", "variant", "alarm", "topology",
                  "snapshot", "tool_results", "expected", "handoff", "texts"}

Variants == {"complete", "noisy", "partial", "unknown", "composite"}

Elements(s) == {s[i] : i \in DOMAIN s}

Distinct(s) == \A i, j \in DOMAIN s : s[i] = s[j] => i = j

-----------------------------------------------------------------------------
(* One fixture.  Every check that fails raises FixtureValidationError.     *)

(* assert_anonymous: credentials, private keys and real account numbers    *)
(* are refused; numbers under the keys of token counts are let through.    *)
Anonymous(f) == f.texts # "secret"

(* _parse_topology: version 1, and a text that Topology.load accepts.      *)
ValidTopology(topology) == topology.version = 1 /\ topology.loads

(* _parse_tool_results, _parse_tool_result and _validate_tool_requests.    *)
ValidToolResults(results, topology) ==
  /\ \A i \in DOMAIN results :
       /\ results[i].tool \in ToolNames
       /\ results[i].key \in topology.allowed
       /\ results[i].failed => results[i].evidence = <<>>
  /\ \A i, j \in DOMAIN results : results[i].key = results[j].key => i = j

(* _parse_expected, _parse_expected_claim, _parse_handoff: sets of strings *)
(* are written as lists without repetition.                                *)
ValidExpectations(expected, handoff) ==
  /\ Distinct(expected.required) /\ Distinct(expected.labels)
  /\ Distinct(expected.useful) /\ Elements(expected.useful) \subseteq ToolNames
  /\ \A i \in DOMAIN expected.facts :
       expected.facts[i] # <<>> /\ Distinct(expected.facts[i])
  /\ Distinct(handoff.labels) /\ Distinct(handoff.kinds)

(* The Evidence lists of the Snapshot and of some Tool results, and that   *)
(* no ID occurs twice in them.                                             *)
EvidenceLists(f, results) ==
  <<f.snapshot.evidence>> \o [i \in DOMAIN results |-> results[i].evidence]

NoDuplicateId(lists) ==
  \A m, n \in DOMAIN lists : \A i \in DOMAIN lists[m], j \in DOMAIN lists[n] :
    lists[m][i] = lists[n][j] => m = n /\ i = j

IdsIn(lists) == UNION {Elements(lists[n]) : n \in DOMAIN lists}

(* The IDs an expected outcome refers to. *)
Referenced(expected) ==
  Elements(expected.required)
    \cup UNION {Elements(expected.facts[i]) : i \in DOMAIN expected.facts}

(* _validate_evidence_contract.  The mistake: duplicates looked for in the *)
(* Snapshot only.                                                          *)
EvidenceContractOfSnapshot(f) ==
  /\ Distinct(f.snapshot.evidence)
  /\ Referenced(f.expected) \subseteq IdsIn(EvidenceLists(f, f.tool_results))

EvidenceContract(f) ==
  /\ NoDuplicateId(EvidenceLists(f, f.tool_results))
  /\ Referenced(f.expected) \subseteq IdsIn(EvidenceLists(f, f.tool_results))

(* _validate_direction_contract. *)
DirectionContract(f) ==
  /\ f.expected.labels = <<>> <=> f.handoff.labels = <<>>
  /\ f.expected.labels = <<>> =>
       /\ f.variant = "unknown"
       /\ IdsIn(EvidenceLists(f, f.tool_results)) = {}

(* EvalFixture.from_dict. *)
ValidFixture(f) ==
  /\ DOMAIN f = FixtureFields
  /\ Anonymous(f)
  /\ f.variant \in Variants
  /\ ValidTopology(f.topology)
  /\ Distinct(f.snapshot.evidence)
  /\ ValidToolResults(f.tool_results, f.topology)
  /\ ValidExpectations(f.expected, f.handoff)
  /\ EvidenceContract(f)
  /\ DirectionContract(f)
  /\ f.variant \in {"unknown", "composite"} =>
       f.expected.classification = "unclassified"

-----------------------------------------------------------------------------
(* The manifest: entries that name a fixture and the file it is read from. *)

(* _child_path. *)
ChildPath(path) == path.relative /\ ~path.leaves

(* load_manifest.                                                          *)
ValidManifest(entries) ==
  /\ \A i, j \in DOMAIN entries :
       \/ entries[i].fixture_id = entries[j].fixture_id
       \/ entries[i].path = entries[j].path
       => i = j
  /\ \A i \in DOMAIN entries :
       /\ ChildPath(entries[i].path)
       /\ ValidFixture(entries[i].file)
       /\ entries[i].file.fixture_id = entries[i].fixture_id
       /\ entries[i].file.scenario = entries[i].scenario
       /\ entries[i].file.variant = entries[i].variant

(* The fixtures of a valid manifest, in its order. *)
Fixtures(entries) == [i \in DOMAIN entries |-> entries[i].file]
=============================================================================

--------------------------- MODULE PairedHandoff ----------------------------
(***************************************************************************)
(* handoff.py: what a later session makes of the raw alarm and of the      *)
(* brief, replayed from recordings that are bound to their fixture by      *)
(* digests.  SHA-256 over canonical JSON keeps what it digests apart, so a *)
(* digest is the digested value: lists the code sorts first are sets.      *)
(***************************************************************************)
EXTENDS OfflineReplay

CONSTANTS ModelId, PromptBudget  \* of the harness

Conditions == {"raw_alarm", "incident_brief"}

(* _validate_recording_matrix; a handoff recording has no mode to check.   *)
HandoffMatrixMatches(fixtures, matrix, count) ==
  /\ Distinct([i \in DOMAIN fixtures |-> fixtures[i].fixture_id])
  /\ Len(fixtures) = count
  /\ matrix = {fixtures[i].fixture_id : i \in DOMAIN fixtures} \X Conditions

-----------------------------------------------------------------------------
(* The prompt and the digests.                                             *)

(* build_handoff_prompt: the alarm in its normal form, or the conservative *)
(* brief, whose bundle the Redactor must accept: it takes a token count    *)
(* for a credential, and every Evidence ID must be structurally safe.      *)
PromptBuilds(f, condition) ==
  /\ f.alarm.normalized
  /\ condition = "incident_brief" =>
       /\ f.texts # "usage"
       /\ Elements(f.snapshot.evidence) \subseteq SafeIds

Prompt(f, condition) ==
  [condition |-> condition,
   payload   |-> IF condition = "raw_alarm" THEN f.alarm ELSE f.snapshot]

(* _tool_result_payload of the recorded results, sorted: which there are,  *)
(* not their order.                                                        *)
RecordedPayload(f) == Elements(f.tool_results)

(* _expected_payload: sets are sorted, the facts keep their order. *)
ExpectedPayload(expected) ==
  <<Elements(expected.required), Elements(expected.labels),
    Elements(expected.useful), expected.classification,
    [i \in DOMAIN expected.facts |-> Elements(expected.facts[i])]>>

(* tool_registry_identifier. *)
RegistryId(f) ==
  [allowlist |-> f.topology.allowed, recorded |-> RecordedPayload(f)]

(* fixture_digest. *)
Digest(f) ==
  [fixture_id |-> f.fixture_id, scenario |-> f.scenario, variant |-> f.variant,
   alarm      |-> f.alarm,      texts    |-> f.texts,
   topology   |-> f.topology,   snapshot |-> f.snapshot,
   recorded   |-> RecordedPayload(f), expected |-> ExpectedPayload(f.expected),
   handoff    |-> <<Elements(f.handoff.labels), Elements(f.handoff.kinds)>>]

(* _validate_recording_provenance. *)
Provenance(f, condition, model, budget) ==
  [fixture_id |-> f.fixture_id, condition |-> condition, model_id |-> model,
   prompt_budget |-> budget, prompt |-> Prompt(f, condition),
   digest |-> Digest(f), registry |-> RegistryId(f)]

-----------------------------------------------------------------------------
(* One condition of one fixture.                                           *)

(* The Evidence a session starts from.  The mistake: the Snapshot is       *)
(* visible to both.                                                        *)
VisibleToBoth(f, condition) == Elements(f.snapshot.evidence)

Visible(f, condition) ==
  IF condition = "raw_alarm" THEN {} ELSE Elements(f.snapshot.evidence)

(* The Evidence available before request n, and after all of them.         *)
AvailableBefore(f, condition, requests, n) ==
  Visible(f, condition)
    \cup UNION {Elements(RecordedResult(f, requests[i].key).evidence) :
                  i \in 1..(n - 1)}

(* _execute_recorded_tools: a denied or unrecorded request refuses all.    *)
ToolsExecute(f, condition, requests) ==
  /\ Len(requests) <= MaxTotal
  /\ \A n \in DOMAIN requests : requests[n].key \in RecordedKeys(f)
  /\ \A n \in DOMAIN requests :
       /\ Permitted(requests[n], f, {requests[i].key : i \in 1..(n - 1)})
       /\ requests[n].cited \in AvailableBefore(f, condition, requests, n)

(* _validate_direction_label and _validate_clarifications; "" is no label. *)
InVocabulary(f, output) ==
  /\ output.label \in Elements(f.handoff.labels) \cup {""}
  /\ Elements(output.clarifications) \subseteq Elements(f.handoff.kinds)

(* What _run_condition accepts of a recording. *)
Replayable(f, condition, r) ==
  /\ PromptBuilds(f, condition)
  /\ r.provenance = Provenance(f, condition, ModelId, PromptBudget)
  /\ InVocabulary(f, r.output)
  /\ ToolsExecute(f, condition, r.output.requests)

(* parse_handoff_output: a claim is unsupported when it cites nothing or   *)
(* something else than the available Evidence.                             *)
UnsupportedHandoff(claims, available) ==
  {i \in DOMAIN claims :
     claims[i] = <<>> \/ ~(Elements(claims[i]) \subseteq available)}

(* The HandoffRun of a replayable recording. *)
HandoffRun(f, condition, output) ==
  [condition      |-> condition,
   claims         |-> Len(output.claims),
   tool_calls     |-> Len(output.requests),
   label          |-> output.label,
   clarifications |-> Len(output.clarifications),
   unsupported    |->
     Cardinality(UnsupportedHandoff(output.claims,
       AvailableBefore(f, condition, output.requests,
                       Len(output.requests) + 1)))]

(* _handoff_recordings: the neutral recordings of the report. *)
NeutralHandoff(f, condition) ==
  [provenance |-> Provenance(f, condition, ModelId, PromptBudget),
   output |-> [label |-> "", clarifications |-> <<>>, requests |-> <<>>,
               claims |-> IF condition = "raw_alarm" THEN <<>>
                          ELSE [i \in DOMAIN f.snapshot.evidence |->
                                  <<f.snapshot.evidence[i]>>]]]
=============================================================================

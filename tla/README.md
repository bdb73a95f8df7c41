# Formal model of the PILO Incident Investigator

TLA+ modules, TLC runs and TLAPS proofs about the Lambda service that turns one
CloudWatch alarm event into an Incident Bundle (S3), a GitHub Issue and a Slack
message. Paths below are relative to the repository; `pilo/` abbreviates
`src/pilo_incident_investigator/`.

## 1. The system

```
EventBridge --(at least once, 2 retries)--> Lambda: Runtime.handle
   topology.load -> begin_event (DynamoDB) -> SnapshotCollector -> agent / summary
   -> redaction, rendering -> Publisher: S3 -> record -> GitHub -> record -> Slack -> record
   -> mark_complete            (any exception: mark_retryable, then raise -> retry)
```

| component | state it keeps | operations | what makes it correct |
| --- | --- | --- | --- |
| State store `pilo/state.py` | one DynamoDB item per event: status, attempt, lease, checkpoint rank, three outcomes; `_active_attempts` of the warm process | `begin_event`, `mark_*`, `_record_outcome`, `_advance` | one owner; outcome before checkpoint; nothing goes back |
| Runtime `pilo/handler.py` | none beyond the attempt; caches topology | `handle` | complete only after all three publications; every failure releases the claim |
| Publisher `pilo/publishers.py` | S3 object, Issue, messages outside | `publish` | bundle first; one Issue; degraded notice when there is no Issue |
| Event delivery `infra/main.tf` | queued deliveries | retry, duplicate, kill at 300 s | every delivery ends; the event completes |
| Snapshot `pilo/snapshot.py`, `pilo/collectors/aws.py` | lists of Evidence and failures; ECS moves meanwhile | `collect`, the calls and pages of six collectors | a collector is there whole or is a failure; stable IDs; no lasting task lost |
| Agent `pilo/agent/*.py` | executed Tools, seen keys, round | `run`, `validate_batch`, `execute`, `propose`, `summarize` | budgets, no repeated or denied call, grounded output, ends |
| Tool handlers `pilo/agent/tools.py` | - | five handlers | results and their Evidence IDs do not clash; a failure is a result |
| GitHub client `pilo/integrations/github.py` | - | search, create, deployments, changed files | bounded pages, one Issue per incident |
| Topology `pilo/topology.py` | services, alarms, allowlist | `load`, `resolve_alarm`, `require_allowed` | an alarm has exactly the services its operators gave it; nothing outside the allowlist is read |
| Redaction, bundle gate, brief `pilo/redaction.py`, `bundle.py`, `brief.py`, `alert_brief.py` | alias tables | redact, validate, render | nothing unsafe is published; what is safe is not refused; no gap is hidden |
| Observability `pilo/observability.py` | - | `emit`, `record_*` | the metrics account for every outcome |
| Evaluation reports `pilo/evaluation/report.py`, `scripts/run_eval.py` | files of a slot: lock, pair, marker, temporaries | reserve, publish, clean up, release | a slot has one writer; a pair is complete or absent; nothing of another is touched |
| Evaluation harness `pilo/evaluation/*.py` | fixtures, recordings, runs, scores | load, replay, score, compare, select mode, handoff | what is admitted can be scored; a mode is promoted only when it is better |
| Config, credentials, other scripts, IaC | environment, read-once caches | - | - |

The components interact by calls inside one process; processes interact only
through the DynamoDB item and the three outside systems. What is hard: attempts
of the same event in different Lambda environments interleave at every remote
call; each remote call can fail before or after it took effect; a process can
die anywhere; retries are bounded, and a refused claim uses one up.
`PROJECT.json` lists the hazards at their lines.

## 2. Modules

| module | models | kind |
| --- | --- | --- |
| `IncidentStateStore` | the item of `state.py` and each conditional write as condition + resulting item | pure operators |
| `IncidentRuntime` | `handle`, `publish`, the state store's calls, delivery, clock, crashes | state machine |
| `ExclusivePublication` | what the runtime promises, without table, lease or process | abstract specification |
| `IncidentRuntimeProofs` | type correctness, lease ownership, mutual exclusion | theorems |
| `IncidentPublicationProofs` | the item and the outside world agree, completion, the refinement | theorems |
| `InvestigationAgent` | `agent/loop.py`, the registry of `agent/tools.py`, the three ways through the stage | state machine |
| `InvestigationAgentProofs` | type correctness, budgets, no repeated call, no denied call, reasons, grounding, no lost call | theorems |
| `Orderings` | comprehensions, stable sorts and cuts of lists | pure operators |
| `Topology` | `topology.py`: what `load` accepts, `resolve_alarm`, operations, the allowlist | pure operators |
| `SnapshotCollector` | `snapshot.py` and the calls of `collectors/aws.py`, with paging and a moving ECS | actions, used by `IncidentReport` |
| `ToolHandlers` | the handlers of `agent/tools.py` and their Evidence IDs | pure operators |
| `Redaction` | `redaction.py`, the gates of `bundle.py` and `publishers.py`, the escaping of `brief.py` | pure operators |
| `AlertBrief` | `alert_brief.py` | pure operators |
| `IncidentReport` | one call of `handle` from its data: composes the five modules above | state machine |
| `SnapshotCollectorProofs` | what the list operators return; the plan of a collector, its sorts, the numbering of Evidence | lemmas |
| `IncidentReportProofs` | collectors, stopped tasks, Evidence IDs, redaction, the brief, metrics | theorems |
| `EvalFixtures` | `evaluation/schema.py`, `loader.py` | pure operators |
| `OfflineReplay` | the checks of `evaluation/runner.py` and `agent/loop.py` on a recording | pure operators |
| `Scoring` | `evaluation/metrics.py`, the gate and the reasons of `report.py` | pure operators |
| `PairedHandoff` | `evaluation/handoff.py` | pure operators |
| `OfflineEvaluation` | `build_offline_report`, the runner and the harness: composes the four modules above | state machine |
| `OfflineEvaluationProofs` | supported claims, the blind session, the meaning of a promotion | theorems |
| `ReportSlots` | reservation and publication in `evaluation/report.py`, as `scripts/run_eval.py` and `write_report` use them | state machine |
| `ReportSlotsProofs` | type correctness, one holder per slot, whose files a process changes | theorems |
| `ReportResultProofs` | what a call of `write_report` leaves in its slot, when it returned and after an exception | theorems |
| `MC*` | instances for TLC | - |

### IncidentRuntime

One EventBridge event is followed; events do not share an item, an S3 key or an
Issue, and `handle` keeps nothing else between events that the model would
need. `run[w]` is what environment `w` does: its program counter names the next
remote call, and the other fields are the locals of `handle` and `publish`
(attempt, `issue_url` as `link`, `slack_status`) and the checkpoint being
recorded (`stage`). The correspondence of labels and code:

| label | call | action |
| --- | --- | --- |
| `load` | `topology.load`, fresh attempt id | `LoadTopology` |
| `put`, `resume`, `lookup` | the three requests of `begin_event` | `PutItem`, `ResumeItem`, `LookupItem` |
| `collect`, `investigate` | snapshot; agent, redaction, rendering | `Collect`, `Investigate` |
| `putBundle` | S3 `put_object` | `PutBundle` |
| `record`, `advance`, `recheck` | outcome write, checkpoint write, consistent read | `RecordOutcome`, `AdvanceCheckpoint`, `RecheckCheckpoint` |
| `findIssue`, `createIssue` | GitHub search, creation | `FindIssue`, `CreateIssue` |
| `sendSlack` | webhook | `SendSlack` |
| `complete`, `release` | `mark_complete`, `mark_retryable` | `Complete`, `Release` |

A conditional write has four outcomes: it applied; it was refused; it applied,
its reply was lost and the SDK's own repetition was refused by what it had
written; it raised, applied or not. Time passes between reading the clock
(`_lease_window`) and the write: `ClockReads(w)` is every tick since the
invocation's previous step, and the resume update reuses the tick of
`put_item`, as the code does. Lambda allows no invocation past its timeout, so
`Tick` waits for it; `Kill` ends it there or earlier. A failed invocation is
retried `MaxRetries` times (2 by Lambda's asynchronous default and by the
target's policy), a duplicate delivery has retries of its own.

Faults are counted in `faults` and chosen by kind: `crash` (an environment is
lost), `state` (a DynamoDB call), `work` (topology, snapshot, rendering),
`publish` (S3, GitHub, Slack; an `IntegrationError` or any other exception).
`SearchLag` lets the GitHub search miss an Issue that exists.

### InvestigationAgent

The planner is arbitrary: every batch of requests and every conclusion of the
constants, or an exception. A request is its deduplication key and the Evidence
its reason cites; the Evidence of one result is one ID, named by its key (IDs
carry the key's hash). A conclusion is the set of IDs of its facts and
directions, those of its classification, and whether it is classified. Blank
strings, wrong types and repeated citations are refusals like any other and are
covered by the refusal of a proposal. `called` is a record of every handler call
that went out, which the code does not keep, so that the budgets can be stated
about calls and not about results.

### IncidentReport

`IncidentRuntime` knows when `handle` calls what, and nothing of the data. This
module has one call of it the other way round: `LoadTopology`, `Claim` and `Publish`
are single steps that may end in each of their ways, and everything that decides
what is published is there.

| stage | code | action |
| --- | --- | --- |
| `parse_event` | `parse_alarm_event` | `ParseEvent` |
| `load_topology`, `claim_event` | `S3TopologyProvider.load`, `begin_event` | `LoadTopology`, `Claim` |
| `snapshot` | `SnapshotCollector.collect` | `Snapshot` (one call of a collector, or ECS moving), `LeaveSnapshot` |
| `investigation` | `summarize` or `InvestigationAgent.run`, `_preserve_collector_failures` | `Investigate` |
| `render` | `redact_bundle`, the brief, `PublicationPayload` | `Render` |
| `publish` | `publish`, `mark_complete`, metrics | `Publish` |

Lists (`Orderings`). The comprehensions, sorts and cuts of the collectors and Tools take the
places to keep and the order to sort by as sets, and not as operators as the
community modules do (`SelectSeq`, `SortSeq`): the proof system cannot instantiate a lemma with an
operator, and these lists have lemmas. `AlertBrief` uses the community modules.

The collectors (`SnapshotCollector`). `Plan` is the sequence of calls of a collector
for the services of the alarm; services that share a repository or a database
share its call. Between the pages of `list_tasks` and `describe_tasks` a task may stop
or be forgotten (`TasksMove`); a page is any non-empty part of the tasks that were not
named before. `lasting` is a history variable: the tasks that ECS knew during the whole
listing. A `CollectorError` drops what the collector had read (`Fail`), another
exception or a `TopologyDenied` leaves `collect` (`Raise`). `AllocateEvidenceIds` is the
stable sort of `_allocate_evidence_ids`, `IdsByRank` its reference definition by counting.

The text (`Redaction`). A text is a sequence of parts, and a part has a shape (prose,
token, header, query parameter, assignment, hidden comment), what stands in the place of the
credential, and the form of its key; a text may also be a whole JSON document, which
the code parses, redacts and writes again. A JSON value is the set of its leaves, each at
its path of keys and list positions, and a path goes on through the border of a text into the
document that the text is; so "a key above it is sensitive" and "two keys become one"
are conditions on paths, and redaction needs no recursion. The model therefore says which rule meets
which output of which other rule, and not what a pattern matches: the exact regular
expressions and the cut of log lines at 500 characters are left out. A log event is a
time and a text. Every statement of the planner cites all Evidence, so that the
citation gate is only disturbed by IDs that clash. Facts stand for directions and the
classification as well.

The gate of the publication (`Accepted`, `_validate_publication` and
`validate_issue_markdown`). It refuses an event ID that is not one of `PublishableIds`
(`parse_alarm_event` takes any that is not blank), a bundle over `MaxBundle`, an Issue over
`MaxIssue`, a bundle that is not clean, a Markdown in which the Redactor finds something or
which holds a hidden comment, and a brief over `MaxBriefChars`. Sizes are counted in leaves,
parts, rows and citations instead of bytes and characters: which report is too large
depends on all that is in it, and that is kept. Each text of the bundle is redacted by
itself, but the Markdown as a whole, where a citation, the next line or the next heading
follows every text. A part that is `open` (a text that ends `password:`) has no
credential in the bundle and is `followed` by one in the Issue. There are texts for
which the verdict on the whole does not follow from their parts: other open prose (an unfinished
quotation, a scheme without credentials, a key that is the value of another, whose chain the
escape of `_` breaks), a JSON document, which in the Markdown is parsed no more, and
characters without an encoding. For these (`Unsettled`) both verdicts are in the model
(`Verdicts`). `validate_incident_id` and the IDs of Evidence are left out: they are
computed from hashes and always pass.

### OfflineEvaluation

| stage | code | action |
| --- | --- | --- |
| `load` | `load_manifest`, `parse_fixture` | `Load` |
| `matrix` | `_validate_recording_matrix` | `CheckMatrix` |
| `replay` | `OfflineEvaluationRunner.run_all`, `InvestigationAgent.run` | `ReplaySnapshot`, `StartHybrid`, `Propose`, `RaiseExhausted`, `ExecuteRecorded`, `Summarize` |
| `score`, `compare` | `score_run`, `compare_modes` | `ScoreRuns`, `CompareModes` |
| `handoff_matrix`, `handoff` | `PairedHandoffHarness.run_all` | `CheckHandoffMatrix`, `RunCondition` |
| `select` | `select_operating_mode` | `SelectOperatingMode` |

`build_offline_report` itself replays neutral recordings that it makes from the
fixtures; reviewed recordings enter through the runner and the harness, as the tests
use them. `source` says which, and a check that raises ends the report (`refused`).
The loop is modelled a second time, because here its planner is a recording: one
that is exhausted raises `RuntimeError`, which the loop takes for a failed planner, and
one that is not used up is refused afterwards. The texts of a fixture are plain,
hold a token count, or hold a credential; its topology is a version and the requests it
allows. A digest is the value it digests. Counts are kept as the sets they count, a
recall in `Scale`-ths without the rounding of floats. Measurements, missing information
and the forbidden-action patterns are left out: no decision reads them.

### ReportSlots

Processes publish into one directory; `files` maps a slot (a second) and a name
to a file, and a file is known by its author, so a digest is the author of what
was hashed. Every call of the file system is a step of its own. `run[p]` is the
program counter and the locals `created_temps`, `created_outputs` and the digests.

| label | code | action |
| --- | --- | --- |
| `check`, `recheck` | the three `exists()` before and after the lock | `Look` |
| `lock`, `giveBack` | `os.open(O_EXCL)`; release when the second look refuses | `TakeLock`, `GiveBack` |
| `build` | `build_offline_report` (command only) | `Build` |
| `write` | the sixteen calls of `_write_reserved_report`, in the order of `Plan` | `Write` |
| `unlink`, `release` | the `finally` clause | `Unlink`, `Release` |
| `again` | `except Exception: reservation.release()` of `run_eval.main` | `ReleaseAgain` |

`Cli` chooses the command, which goes on to the next second when a slot is
taken and releases once more after an exception, or `write_report`, which
raises and releases once. A fault is an exception of the call (`Raise`), a
`KeyboardInterrupt` that may come after the call took effect and before it was
noted (`Interrupt`; no `except Exception` sees it), or the end of the process
(`Crash`). `Residue` is what earlier processes may have left; every subset of
it is an initial directory. `temps` and `outputs` are shortened as their files
are unlinked, so that the clean-up needs no index.

## 3. Runs

| run | specification and bounds | what it checks |
| --- | --- | --- |
| `safety` | 2 environments, lease 1 = timeout 1, 1 retry, 2 deliveries, 2 faults of all kinds, clock to 2, lagging search | types; `AtMostOneOwner`, `OwnershipInv`; `RecordConsistent`, `RecordTruthful`, `CompleteIsPublished`; `CompleteIsFinal` |
| `recovery` | fair; 2 deliveries, 1 retry, 1 fault of any kind, clock to 3, no lag | `ExclusivePublication` is implemented; `AtMostOneIssue`; `EveryDeliverySettles`, `LeaseExpiryRecovers` |
| `retries` | fair; 2 deliveries, 2 retries, 2 `work`/`publish` faults | `EventuallyComplete` |
| `stuck` | fair; lease 3 over timeout 1, 1 crash | finding: `EventuallyComplete` fails |
| `citation` | 1 `publish` fault | finding: `IssueCitesStoredBundle` fails |
| `agent` | fair; 2 rounds of 2, total of 3, 5 requests of which 1 is denied | all properties of `InvestigationAgent` |
| `report` | 2 services with shared resources, 8 inputs (one with an event ID that the publisher refuses), 3 tasks of which 2 fit (2 pages), 1 task event, log lines and Tool rows with credentials, a document with a sensitive key over a number, or one whose key is a credential; facts with an open key, a hidden comment or a document; bundle 36, Issue 24, brief 34 | types; `WholeOrFailed`, `LastingTasksSeen`, `IdsByRank`, `AlarmsServicesOnly`; `NothingSecret`, `RefusedWithCause`, `GapsReported`, `MetricsAccount` |
| `escape` | the same, without the open and the unsettled facts | finding: `RedactedIsPublishable` fails |
| `evaluation` | 2 fixtures, 1 guarded; manifests that are valid or wrong in one place; 12 reviewed recordings; budgets 2, 3, 6 | all properties of `OfflineEvaluation` |
| `slots` | `write_report`, 3 processes, 1 slot, any remains of an interrupted writer, 2 faults of any kind | types; `OneHolder`, `ReturnedIsComplete`, `CleanEnd`, `OwnFilesOnly` |
| `commands` | fair; `run_eval`, 2 processes, seconds 1 to 4, a slot left published or locked, 1 exception or crash | `EarlierKept`, `EveryCommandPublishes` |
| `reservation` | `run_eval`, 3 processes, 1 exception | finding: `OneHolder` fails |

Why the bounds are enough. Two environments and two deliveries give every
pairwise race of attempts, and ownership is proved for every number of them.
Lease 1 = timeout 1 is the tightest configuration the assumption allows, where an
off-by-one between `<` and `<=` shows (the mutant `CanResumeAtExpiry`); a clock to 2
lets a lease be taken, outlived and taken over, and to 3 (`recovery`) also renewed
first or outlived again. Two
faults cover a failure and the failure of its handling (a failed write, then a
failed `mark_retryable`). A total of 3 over 2 rounds of 2 makes the total bind,
which with the production constants (2, 3 and 6) it never does.
Two services are the fewest that share something; one alarm has one of them, one
both and one none, so that "once for each" and "in the given order" can go wrong, and
the eight services of the production topology are the constant `ServiceCount`. Three
tasks over a limit of two make both cuts of the listing bind. The texts of `report` are one
for each way a rule can meet another, found by varying shape and key form; the Tool
plans read one resource twice under two requests, the only way that local IDs could
clash. The three limits of `report` are set so that each of them is kept by most reports and passed by
some: bundles with many rows, Issues with a fact beside six missing parts, and messages
that end before the line of failures, with it, or after all lines. Two fixtures are the fewest for which the gate can pass (it wants two more correct
directions) and one of them guarded is the fewest for which it can fail on that side;
each wrong manifest has one difference that one check must notice.
Three writers of a slot give one that publishes, one that waits for the lock and
one that comes between a release and a removal; fewer do not show the finding
below. Commands need one slot more than there are slots taken, by residue or by
each other, so that `MaxSlot` never stops one: the guard in `Occupied` binds in no
state of `commands`, or its liveness property would fail. `commands` leaves
interrupts out: a `KeyboardInterrupt` inside `_write_lf_text` releases the lock but
leaves a temporary file, and the next command of that second then raises
(`FileExistsError` from the exclusive open), which is no fault of its own.

Fairness. `IncidentRuntime!FairSpec` assumes that a started invocation makes
progress (every client has a timeout and Lambda ends the invocation otherwise),
that a waiting delivery is eventually received, and that time passes. No fault
is ever assumed to happen, and no duplicate delivery. `InvestigationAgent`
assumes that each call of the stage returns or raises, `ReportSlots` that a process that
runs makes its next call; no process has to be started. `IncidentReport` and
`OfflineEvaluation` state safety only: neither loops but over bounded lists and the
budgets of the agent, whose termination is `Terminates`.

### Findings

1. `stuck`: a killed invocation keeps its 900 s lease, while both retries of the
   delivery come within minutes and end as `IncidentBusyError`; after them
   nothing delivers the event again. The operations runbook relies on the retry to
   carry the publication on.
2. `citation`: a retry overwrites the bundle but reuses the Issue, so the Issue
   may cite Evidence IDs that the stored bundle numbers differently; the design
   calls the bundle the evidence that the Issue cites.
3. `reservation`: `_write_reserved_report` releases the reservation when it fails,
   and `run_eval` releases it again. In between another command can reserve the same
   second; the second release deletes that command's lock, and a third command
   reserves the slot too. Exclusive creation of the files still keeps what was there
   before (`EarlierKept`), but one slot then has two holders, and for commands
   `OneHolder` and the properties that rest on it are not claimed: `slots` and the
   theorem are about `write_report`.

4. `escape`: the Redactor leaves `password=[REDACTED:CREDENTIAL]`, `_safe_inline` escapes
   the brackets for the Issue, and the validator of the Markdown, which runs the
   Redactor again, takes the escaped sentinel for a credential. An incident whose facts or
   missing information held such an assignment fails at render on every retry.

Also seen, and allowed for in the properties:

- A JSON log line with a sensitive key over a number or an object makes
  `redact_bundle` raise, and with it the whole incident (`Raises(BundleValue)` in
  `RefusedWithCause`).
- A mapping key that is a credential, as in `{"ghp_...": 5}`, is redacted to a sentinel key
  (`[REDACTED:GITHUB_TOKEN]`) whose words make it a sensitive key. `redact_bundle` itself comes
  through, but `canonical_bundle_json` redacts again and then raises over the number: the
  incident fails at render (`Raises(RedactJson(BundleValue))` in `RefusedWithCause`). Two such
  keys in one mapping collide and raise at once.
- A fact or a line of missing information that ends with a sensitive key and `:` or `=` is
  clean in the bundle, but in the Markdown it takes what follows for its credential: the
  incident fails at render (`Clashing`).
- A bundle over 1,000,000 bytes, an Issue over 65,000 characters or an event ID that
  `parse_alarm_event` accepts and `_validate_publication` does not fails the incident at render, on
  every retry; nothing is shortened to fit (`OutOfBounds`).
- The line of failures is the fourth of the Slack message, and `_bounded_lines` stops at the first line
  that does not fit: an alarm of several services with long names may leave no room for it,
  and Slack then shows no gap, although the pilot design
  (`docs/superpowers/specs/2026-08-20-pilo-dev-operations-pilot-design.md`, lines 15, 118 and 146)
  wants failures kept as information gaps in bundle, Issue and Slack. `GapsReported` allows
  this case, and a degraded message, by name, and no other.
- A brief that cannot be rendered is replaced by a degraded text and counted as
  `IncidentsFailed{render}`, although the incident is then published (`MetricsAccount`).
- Two spellings of one ECS service in the topology pass `load` but make
  `all_pilo_services` fail always: ECS describes the service once (`Describable`).
- `filter_log_events` ignores `nextToken`: the rows are of the first page.
- The fixture schema accepts token counts that the Redactor refuses, and an alarm without
  the normalized fields: such a fixture loads, and then no neutral report can be
  built (`PromptBuilds`, `Promptable`).
- A session on the raw alarm has no Evidence that a Tool request could cite, so the
  comparison of Tool calls between both conditions always has a zero on one side
  (`RawAlarmSeesNothing`).
- A recording with too few proposals is scored as the fallback of a failed planner and
  not refused (`RaiseExhausted`).
- With a duplicate delivery, two soft failures can exhaust both deliveries, because each
  refused claim costs a retry. `EventuallyComplete` therefore promises completion only
  while failures and duplicates together are no more than the retries; `stuck` refutes
  it with a single fault.

## 4. Proofs

`IncidentRuntimeProofs` proves, for all constants that satisfy
`LeaseAssumption` and `RuntimeAssumption` (the only arithmetic one: the timeout is at
most the lease):

- `Typing`: `Spec => []TypeOK`.
- `Ownership`: `Spec => []OwnershipInv`, the inductive invariant. Mutual exclusion is
  not inductive alone: a takeover is safe only because an owner's lease outlasts
  its timeout. `FencedAttempt` therefore says that attempt identifiers are
  not shared, that an invocation is within its timeout, and that an owner's
  attempt is in the item under a lease of at least `started + Lease`. A takeover
  needs `lease < t` for a tick `t` no later than now, and now is at most
  `started + Timeout <= started + Lease`; so no owner is left when it succeeds, except
  one that has just completed the event and releases, whose item cannot be resumed.
- `MutualExclusion`: `Spec => []AtMostOneOwner`, from it: two owners hold the same
  attempt, and an attempt belongs to one invocation.

`IncidentPublicationProofs` goes on from there, under the same assumptions; the Issue
search may miss what exists, and every call may fail in every way of the model:

- `Publication`: `Spec => []PublicationInv`. What the item says is not inductive alone: the
  second write of a checkpoint relies on what the first recorded, and that on a call
  which returned two labels before. `InStep` therefore says, label by label, what the
  program counter and the locals of the attempt at work (`link`, `slack`, `stage`)
  mean: past `putBundle`, S3 holds its own bundle and, once recorded, the item says so;
  a link means that an Issue exists and, once recorded, is in the item; a Slack status
  at hand is the one recorded and, when sent, its message is out; at `complete` all
  of it holds. An invocation that owns nothing has no link and no status. A step of one
  attempt leaves this true of the others, because by `OwnershipInv` there are none;
  a takeover starts over with fresh locals and inherits only the item's own record.
- `RecordAgrees`, `RecordIsTrue`, `Published`, from it: `RecordConsistent`,
  `RecordTruthful`, `CompleteIsPublished`.
- `CompletionIsFinal`: `Spec => CompleteIsFinal`, an action property. An owner of a complete
  item is at `release` (`OwnershipInv`), and every write is conditional on an item that is
  not complete.
- `OneIssue`, under `~SearchLag`: `Spec => []AtMostOneIssue`. `OneIssueInv` adds who may
  create: an invocation at `createIssue` searched as the owner and found none, and there
  is none yet, because only an owner creates and there is no other (`OwnershipInv`). A
  lost reply leaves the Issue behind, and the next attempt searches again. With a search
  that lags this is false: the hypothesis is the one that the run makes too.
- `Refinement`: `Spec => ImplementsExclusivePublication`. A claim is `Acquire` or a stutter;
  `PutBundle`, `CreateIssue`, `SendSlack` and `Complete` are the steps of the holder or,
  when their call failed before its effect, stutter; `Release` and `Kill` are `Leave`;
  writes of outcomes and checkpoints, deliveries and the clock stutter.

`InvestigationAgentProofs` proves, for every set of requests, allowlist and
budget that satisfies `AgentAssumption`:

- `AgentTyping`: `Spec => []TypeOK`.
- `CallsInvariant`: `Spec => []CallsInv`. The budgets are stated about the calls that went
  out, while the code counts the results it kept, and it checks a batch before
  its first call. The invariant adds the two facts that join them: `CallsCounted`
  and `RoundsInOrder` (calls and results agree while the loop goes on, and no call
  is of a later round) and `BatchFits` (what is left of the round, which
  `RoundPermitted` keeps distinct, new and allowed, still fits both budgets).
- `Budget`, `NoDuplicates`, `WholeRounds`, from it: `WithinBudget`, `NoRepeatedCall` and
  `RoundPermitted` hold for an arbitrary planner and failing Tools. No run checks
  `RoundPermitted`: it is what the other two rest on.
- `GroundInvariant`: `Spec => []GroundInv`. The results are the answers of the calls, one by
  one, but for the last call while it is not answered; what is left of a round cites what
  was known before it. `Reasons`, `Grounding` and `CallsReported` follow from it:
  `CalledForReason`, `ResultGrounded`, `NoCallLost`.

`ReportSlotsProofs` proves, for any set of processes, slots, residue and faults
that satisfies `SlotsAssumption`:

- `SlotsTyping`: `Spec => []TypeOK`.
- `LockInvariant`, under `~Cli`: `Spec => []HoldersLock`. Exclusion is not inductive
  alone: it needs that the lock file of a slot that is held was created by its
  holder. A lock is created only where there is none, and it is removed only by
  the holder that thereby stops holding; every other call works on another name.
- `SlotsAreExclusive`, from it: `OneHolder`. With `Cli` the second release removes a lock
  its process does not hold, and this step of the proof is the one that fails.

Three more arguments build on it, each with an inductive invariant that rests on the one before:

- `ReportSlotsProofs`, second part. `ClaimsInv`: every name that a run may change without looking (its
  lock; what it has opened or created; what is on its lists) is absent, or the file there
  was not found in the directory and, by `write_report`, is the run's own. So a step
  changes only files that its process may change, in its own slot (`Touch`). From this
  `EarlierFilesStay`: `Spec => EarlierKept`, for commands too, and `OnlyOwnFilesChange`,
  under `~Cli`: `Spec => OwnFilesOnly`. With `Cli` a second release may remove the lock
  of another process, which `OwnFilesOnly` would not allow, but nothing older.
- `ReportResultProofs`, under `~Cli`. `StagesInv` says of each of the sixteen calls what is
  in the slot before it and which digests were noted. The other processes cannot disturb
  it, by `Touch`. After the last call it is the complete pair, which the `finally` clause of
  a run without an error does not touch: `ReturnedPairs`, `Spec => []ReturnedIsComplete`.
- `ReportResultProofs`, second part, under `~Cli`. `TidyInv`: a run that was not interrupted, abandoned
  or killed has no file in any slot but those it accounts for: its lock while it holds it,
  what is on its lists while it writes or unlinks, the temporary file it has opened and
  not yet written, and at the end, without an error, its outputs. At the calls that write
  or replace a file it needs `StagesInv`, which says whose files these are. `CleanEnds`:
  `Spec => []CleanEnd`. A temporary file is noted only after it was written, so an
  interrupt may leave one, and `TidyInv` forgives it.

`OfflineEvaluationProofs` proves, for all fixtures, recordings and budgets that satisfy
`BudgetAssumption` and `EvaluationAssumption`:

- `HybridRunsSupported`: `Spec => []HybridSupported`. The loop and the scorer have
  separate copies of "this Evidence is known". The invariant (`RunsInv`) says that what
  every finished hybrid run concludes is `Grounded` in the calls it carries, and the
  lemma `GroundedIsSupported` that `UnsupportedClaims` then finds nothing.
- `RawAlarmIsBlind`: `Spec => []RawAlarmSeesNothing`, because an acceptable request cites
  something visible and nothing is visible before the first request.
- `PromotionMeansBetter`: `Spec => []PromotedOnlyIfBetter`. The inductive invariant `GateInv`
  ties the three lists together: run `k` is of fixture `k / 2`, rounded up, in the mode its
  parity says; once scored, row `k` is the score of run `k`; and a chosen mode is the one
  that `SelectMode` gives for these rows. The gate compares numbers of fixtures, the
  property names two of them: the lemma `TwoLeft` is the pigeonhole between both.
- `ReplaysScore`: `Spec => []ScoringAcceptsReplays`. The scorer checks again, in its own
  way, what the loader and the loop have checked. `AdmitInv` carries it through: a
  fixture in the evaluation was admitted by the loader, and the calls of every run,
  finished or in progress, are recorded results of its fixture, each once, within the
  budget; so no Evidence ID occurs twice in what a run saw (`CallsKeepIdsApart`).
  `OrderInv` says what each stage finds finished: all runs before the first score, a row
  for every run and distinct fixture IDs before the comparison.
- `NeutralIsEven`: `Spec => []NeutralNeverPromotes`. `NeutralInv`: every run of a neutral
  evaluation is the summary of its fixture's Snapshot without a call, in both modes; so
  the two rows of a fixture are equal and no fixture is won.

For these two the assumptions say that the lists of a fixture or a recording (Tool
results, proposals, requests) are sequences, and that the loop has at least one round
(`MAX_ROUNDS` is 2).

`IncidentReportProofs` proves, for every input, topology, answer, text and bound that
satisfies the assumptions below:

- `Typing`: `Spec => []TypeOK`, from `Staged`: what each stage knows (`Phases`: from the claim on
  the topology is one that `load` accepts, from the investigation on the Snapshot is collected, a
  payload exists only at and after `publish`) and where the collectors are (`Places`: the plan
  at work is not exceeded).
- `MappedServicesOnly`: `Spec => []AlarmsServicesOnly`. The allowlist is built from the whole
  topology, the plan from the services of the alarm: every call of a plan is allowed
  (`PlanFacts`, `OwnCallsPermitted`), so `Raise` never finds a `TopologyDenied`.
- `CollectorsWholeOrFailed`: `Spec => WholeOrFailed`, an action property; "after all its calls"
  is `Places`.
- `TasksSeen`: `Spec => LastingTasksSeen`. `Listing` joins pages and history: what ECS
  knew all the while is stopped still, and either named by a page or still to come (`page.more`).
  When the listing is over and within its limit, the cut of the sorted ARNs keeps
  all of them.
- `EvidenceIdsByRank`: `Spec => []IdsByRank`. `AllocateEvidenceIds` joins, source by
  source, the places of the rows; that this is the ranking of the property by counting is
  `AllocatedByRank`, which rests on `FlattenOrdered` (a concatenation of ordered
  lists is ordered) and `OrderedRanks` (the place in an ordered list of all is the number
  not after it). That no fact has two IDs needs an invariant of its own, `Sourced`: a row names the
  call that read it, calls of one plan differ in service or resource (`PlanApart`: by
  unique keys, lists without repetition and the calls shared once), and collectors differ in
  their sources.
- `PublishesNoSecret`: `Spec => []NothingSecret`. `ReadableRows` and `ReadableInvestigation`
  carry "every credential here is `Recognised`" from the answers through cuts, sorts, Snapshot and
  Tool results into the bundle, where nesting in lists keeps it (`StaysHidden`,
  `ListRecognised`); one pass of the Redactor leaves no credential in such a value
  (`RedactedShowsNone`), and escaping for the Issue brings none back. `Known`, the forms of a
  credential, is stated apart from `Replaced`, the rules of the code, so the lemma says
  that the rules are complete for these forms; that a key above a text hides it is
  said by both with `Hidden`.
- `RefusalsHaveCauses`: `Spec => []RefusedWithCause`. Of an incident that was investigated: an
  event ID or size out of bounds, and a bundle on which the Redactor raises, now or on
  its own output, always fail it at render; where no text is `Unsettled`, a clash of a text in the Issue
  is the only other cause, and a certain one. Where one is, the theorem says nothing beyond
  the first part. Two
  invariants: `Cited` (facts and missing information are texts, and at render every citation
  is of a row that exists, once) and `Decided` (what became of the incident is what these
  conditions say). Citations rest on IDs that never clash: the Snapshot numbers `<<"E", n>>`,
  a Tool row carries Tool, request and place, and the requests of one plan have distinct
  keys (`AllNumbered`); so there are as many IDs as rows (`NumberedIds`). That the later checks
  add no reason of their own rests on `RedactedTwice` (what went through the Redactor twice, as a
  bundle does on its way to the store, is clean to it from then on), `UnsettledRedacted` (redaction
  settles texts, and never unsettles one), `EscapedPart` and `IssueRefused` (escaping turns exactly the
  parts of `Clashing` into something the Redactor would replace) and `BriefWithin` (the brief
  stays within its bound). The proof is how the second of the raising cases was found: for a
  redacted key that is itself sensitive the second pass does raise; `report` has such a key.
- `GapsAreReported`: `Spec => []GapsReported`. Bundle and Issue: `Gapped` keeps the lines of the
  failures at the end of the missing information until it is rendered, and `GapShown` that such
  a line comes through both redactions and the escape as it is. Slack: `BoundedFacts` says that a
  bounded message is the longest beginning that fits, so it has the fourth line or is
  shorter because four lines do not fit (`BriefCounts`); and the counts by label add up
  to the number of failures although labels are shared (`CountsAddUp`).
- `MetricsAccountForCalls`: `Spec => []MetricsAccount`. `Accounts` says, stage by stage, which metrics
  are there: none of a kind before its stage, one failure for each failed collector once the
  Snapshot is left, at most the note of an unsafe brief at `publish`.

The assumptions. `InputsAssumption`: the mode is one of the two of the configuration, the lists of
an event and of a topology object are lists, and ECS knows finitely many stopped tasks.
`AnswersAssumption`: an answer is a list; log events have a time; and what AWS lists, but for log
events and the services of a cluster, it lists once. `TextsAssumption`: every credential
in a text is of a form the Redactor names, or under a sensitive key. The exact patterns are left out of the model,
so this is where they would come in: a credential of no known form is outside
what the code promises. It also says that facts and missing information are texts, and that the
requests of a Tool plan have distinct keys: that is `NoRepeatedCall` of
`InvestigationAgent`, which `InvestigationAgentProofs` proves of the loop that makes the plan.
`RedactionAssumption`: every sensitive key is a key, and a redacted key is a key that redacting
again leaves alone, as `_redact_text` does with its own sentinels; it may well be a sensitive key, but is not empty. `LimitsAssumption`: the limits of the
publication are naturals. `CollectorAssumption`,
`ToolAssumption`, `TopologyAssumption`: bounds are naturals. TLC evaluates all of them
on the constants of `report`.

Only model-checked:

- Liveness (`EventuallyComplete`, `EveryDeliverySettles`, `LeaseExpiryRecovers`, `Terminates`,
  `EveryCommandPublishes`): out of reach of the proof system.
- The findings, which are counterexamples.

## 5. Not modelled

- Configuration and credentials: validation of environment variables, and a cache
  that is read once. The warm caches of topology and credentials across events.
- Texts in full: the exact patterns of the Redactor and of structural IDs, aliases, bytes and
  characters (sizes are counted in parts), wording of Issue and brief, the encoding of metrics.
- Transport: signing, HTTP, paging and parsing of the GitHub client, decoding of the
  Bedrock answer. Their failure is a fault or a refusal.
- The fields and time windows of a collected row.
- `claim_event`, which the runtime does not call.
- Time inside an attempt: the agent has no deadline of its own, and a slow planner shows
  as a kill. Concurrency limits.
- In the evaluation: measurements, the live runner, the text patterns for forbidden
  actions and clarifications, rendering and provenance of the report. That a recording with
  unused proposals, or one made for an older fixture, prompt, budget or allowlist, refuses the
  report is a guard of the model and the subject of no property.
- The other scripts (checks of policies and builds, anonymizing of fixtures) and the
  infrastructure beside the function: tools and declarations, no part of the running
  system.

## 6. Plan

1. Warm processes across events: caches of topology and credentials.
2. A timed model of the stage against the function timeout.

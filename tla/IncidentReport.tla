--------------------------- MODULE IncidentReport ---------------------------
(***************************************************************************)
(* One call of Runtime.handle, seen from its data: the event, the topology *)
(* it loads, the Snapshot, the Investigation, and the bundle, Issue and    *)
(* Slack brief that are rendered, redacted and validated before anything   *)
(* is published.  IncidentRuntime has the same call from the side of its   *)
(* record, its environments and its retries; here claim and publish are    *)
(* single steps with every answer they can give.                           *)
(***************************************************************************)
EXTENDS SnapshotCollector, ToolHandlers, Redaction, AlertBrief

CONSTANTS
  Inputs,        \* mode, event, topology object and stopped tasks of a call
  ToolPlans,     \* the sequences of requests an agent may execute
  ToolAnswers,   \* what a Tool's service may answer
  FactTexts,     \* the statements a planner may make
  MissingTexts,  \* what a planner may report as missing
  AlarmArns,     \* well-formed alarm ARNs of the region
  PublishableIds,  \* the event IDs that _validate_publication accepts
  MaxBundle,     \* MAX_BUNDLE_BYTES, in leaves, parts and rows
  MaxIssue       \* MAX_ISSUE_MARKDOWN_CHARS, in leaves, parts and citations

VARIABLES
  input,          \* the call: mode, event, object
  stage,          \* the stage of handle, or "ended"
  outcome,        \* "", "published", "duplicate", "degraded" or "failed"
  failedAt,       \* the stage in which it failed
  investigation,  \* facts, missing and Tool results
  payload,        \* the PublicationPayload
  metrics         \* the metrics emitted, in order

reportVars == <<input, stage, outcome, failedAt, investigation, payload,
                metrics>>

vars == <<topology, alarm, collectVars, reportVars>>

NoInvestigation == [facts |-> <<>>, missing |-> <<>>, tools |-> <<>>]

NoPayload == [bundle |-> Raised, issue |-> {}, brief |-> <<>>]

Init ==
  /\ input \in Inputs
  /\ topology = input.object /\ alarm = ""
  /\ Idle /\ stopped = input.stopped
  /\ stage = "parse_event" /\ outcome = "" /\ failedAt = ""
  /\ investigation = NoInvestigation /\ payload = NoPayload
  /\ metrics = <<>>

-----------------------------------------------------------------------------
(* Observability.  An invalid metric is never written, and never disturbs  *)
(* the handling of the incident.                                           *)

Stages == <<"parse_event", "load_topology", "claim_event", "snapshot",
            "investigation", "render", "publish">>

DimensionValues ==
  [EventsReceived     |-> {"snapshot_only", "hybrid_agent"},
   IncidentsPublished |-> {"snapshot_only", "hybrid_agent"},
   IncidentsDegraded  |-> Elements(Stages),
   IncidentsFailed    |-> Elements(Stages),
   CollectorFailures  |-> CollectorNames,
   ProcessingDuration |-> {"published", "degraded", "failed"}]

Metric(name, value) == <<name, value>>

(* The mode is one of the two of the configuration; the lists of a topology *)
(* object are lists, and ECS has finitely many stopped tasks of its        *)
(* services.                                                               *)
ASSUME InputsAssumption ==
  \A i \in Inputs :
    /\ i.mode \in DimensionValues.EventsReceived
    /\ IsSeq(i.event.resources) /\ Parsed(i.object)
    /\ i.stopped \in [Keys(i.object.services) -> SUBSET TaskIds]
    /\ \A k \in DOMAIN i.stopped : IsFiniteSet(i.stopped[k])

(* What the services and the planner answer: what they list is a list and, *)
(* but for log events and the services of a cluster, of distinct things;   *)
(* and every credential in a text is one that the Redactor is there for.   *)
Timed(rows) ==
  \A n \in DOMAIN rows : rows[n].time \in Nat /\ Recognised(rows[n].text)

ASSUME AnswersAssumption ==
  \A i \in Inputs, arn \in AlarmArns, c \in CollectorNames :
    Loadable(i.object) =>
      \A k \in DOMAIN Plan(c, i.object, arn) :
        LET call == Plan(c, i.object, arn)[k]
        IN call.source # "ecs.describe_tasks" =>
             \A answer \in Answers(call) :
               /\ IsSeq(answer)
               /\ call.source = "logs.filter_log_events" => Timed(answer)
               /\ call.source = "github.deployments" =>
                    \A n \in DOMAIN answer : answer[n].id \in Nat
               /\ call.source \notin {"logs.filter_log_events",
                                     "ecs.describe_services.all_pilo"} =>
                    Distinct(answer)

(* No two requests of a run have the same key (NoRepeatedCall).            *)
ASSUME TextsAssumption ==
  /\ \A i \in Inputs : Recognised(i.event.detail)
  /\ \A plan \in ToolPlans :
       /\ IsSeq(plan) /\ Distinct([i \in DOMAIN plan |-> plan[i].key])
       /\ \A i \in DOMAIN plan : Recognised(plan[i].parameters)
  /\ \A answer \in ToolAnswers :
       answer.kind = "rows" => IsSeq(answer.rows) /\ Timed(answer.rows)
  /\ \A t \in FactTexts \cup MissingTexts : IsText(t) /\ Recognised(t)

ASSUME LimitsAssumption == MaxBundle \in Nat /\ MaxIssue \in Nat

(* _validate_metric.                                                       *)
ValidMetric(m) ==
  m[1] \in DOMAIN DimensionValues /\ m[2] \in DimensionValues[m[1]]

Emit(ms) ==
  metrics' = metrics \o Selected(ms, {i \in DOMAIN ms : ValidMetric(ms[i])})

(* The except branch of handle.  The mistake: the duration is left out.    *)
FailAtQuietly(s, before) ==
  /\ stage' = "ended" /\ outcome' = "failed" /\ failedAt' = s
  /\ Emit(before \o <<Metric("IncidentsFailed", s)>>)

FailAt(s, before) ==
  /\ stage' = "ended" /\ outcome' = "failed" /\ failedAt' = s
  /\ Emit(before \o <<Metric("IncidentsFailed", s),
                      Metric("ProcessingDuration", "failed")>>)

Proceed(s, ms) ==
  stage' = s /\ Emit(ms) /\ UNCHANGED <<outcome, failedAt>>

EndWith(o, ms) ==
  stage' = "ended" /\ outcome' = o /\ Emit(ms) /\ UNCHANGED failedAt

-----------------------------------------------------------------------------
(* parse_alarm_event.                                                      *)
ValidEvent(e) ==
  /\ e.source = "aws.cloudwatch" /\ e.region = "ap-northeast-2"
  /\ e.id # ""
  /\ Len(e.resources) = 1 /\ Elements(e.resources) \subseteq AlarmArns
  /\ e.name # "" /\ e.state = "ALARM" /\ e.timestamp = "zoned"

ParseEvent ==
  /\ stage = "parse_event"
  /\ IF ValidEvent(input.event)
     THEN /\ Proceed("load_topology",
                     <<Metric("EventsReceived", input.mode)>>)
          /\ alarm' = input.event.resources[1]
     ELSE FailAt("parse_event", <<>>) /\ UNCHANGED alarm
  /\ UNCHANGED <<topology, collectVars, input, investigation, payload>>

(* S3TopologyProvider.load: the object is absent or too large, or what     *)
(* Topology.load makes of it.                                              *)
LoadTopology ==
  /\ stage = "load_topology"
  /\ \/ Loadable(input.object) /\ Proceed("claim_event", <<>>)
     \/ FailAt("load_topology", <<>>)
  /\ UNCHANGED <<topology, alarm, collectVars, input, investigation, payload>>

(* begin_event, whose answers IncidentStateStore explains.                 *)
Claim ==
  /\ stage = "claim_event"
  /\ \/ Proceed("snapshot", <<>>) /\ status' = "collecting"
     \/ EndWith("duplicate", <<>>) /\ UNCHANGED status
     \/ FailAt("claim_event", <<>>) /\ UNCHANGED status
  /\ UNCHANGED <<topology, alarm, next, reads, page, local, evidence,
                 failures, snapshot, stopped, lasting, changes, input,
                 investigation, payload>>

Snapshot ==
  /\ stage = "snapshot" /\ status = "collecting"
  /\ Collect \/ TasksMove
  /\ UNCHANGED <<topology, alarm, reportVars>>

(* The metrics of the failed collectors and the checkpoint, which may be   *)
(* refused.                                                                *)
FailureMetrics ==
  [i \in DOMAIN failures |-> Metric("CollectorFailures", failures[i])]

LeaveSnapshot ==
  /\ stage = "snapshot" /\ status \notin {"idle", "collecting"}
  /\ IF status = "collected"
     THEN \/ Proceed("investigation", FailureMetrics)
          \/ FailAt("snapshot", FailureMetrics)
     ELSE FailAt("snapshot", <<>>)
  /\ UNCHANGED <<topology, alarm, collectVars, input, investigation, payload>>

-----------------------------------------------------------------------------
(* The Investigation.  InvestigationAgent has the loop; here are the       *)
(* results it can carry.                                                   *)

IdsOf(rows) == {rows[i].id : i \in DOMAIN rows}

AllRows(tools) ==
  snapshot \o FlattenSeq([i \in DOMAIN tools |-> tools[i].evidence])

Prose(value) == Text(<<Part("prose", value, "word")>>)

(* A statement cites all the Evidence there is.                            *)
Statements(ids) ==
  {<<>>} \cup {<<[text |-> t, ids |-> ids]>> :
                 t \in IF ids = {} THEN {} ELSE FactTexts}

(* _preserve_collector_failures: one line for every failed collector.  The *)
(* code adds none where the planner wrote that very line itself.           *)
WithFailures(missing) ==
  missing \o [i \in DOMAIN failures |-> Prose("plain")]

(* The requests run in order; the registry has authorized each of them.    *)
Results(plan) ==
  {f \in [DOMAIN plan ->
            UNION {{HandlerResult(plan[i], a) : a \in ToolAnswers} :
                     i \in DOMAIN plan}] :
     \A i \in DOMAIN plan : f[i].request = plan[i]}

Investigate ==
  /\ stage = "investigation"
  /\ LET unmapped == ResolveAlarm(topology, alarm) = <<>>
         plans == IF unmapped \/ input.mode = "snapshot_only" THEN {<<>>}
                  ELSE {p \in ToolPlans : \A i \in DOMAIN p :
                          Authorized(p[i], AllowedResources(topology))}
     IN IF unmapped
        THEN investigation' = [facts |-> <<>>, tools |-> <<>>,
                               missing |-> WithFailures(<<Prose("plain")>>)]
        ELSE \E plan \in plans : \E tools \in Results(plan) :
               \E facts \in Statements(IdsOf(AllRows(tools))),
                  missing \in {<<>>} \cup {<<t>> : t \in MissingTexts} :
                 investigation' = [facts |-> facts, tools |-> tools,
                                   missing |-> WithFailures(missing)]
  /\ Proceed("render", <<>>)
  /\ UNCHANGED <<topology, alarm, collectVars, input, payload>>

-----------------------------------------------------------------------------
(* Rendering.                                                              *)

Logs == {"logs.filter_log_events", "service_log_search", "rds_events"}

LogTexts(rows) ==
  LET logged == Selected(rows,
                         {i \in DOMAIN rows : rows[i].item.source \in Logs})
  IN [i \in DOMAIN logged |-> logged[i].item.value.text]

(* The bundle as the JSON value of everything in it that is free text; its *)
(* fields are no keys.                                                     *)
BundleValue ==
  LET inv == investigation
  IN List(<<input.event.detail,
            List(LogTexts(AllRows(inv.tools))),
            List([i \in DOMAIN inv.tools |->
                    inv.tools[i].request.parameters]),
            List([i \in DOMAIN inv.facts |-> inv.facts[i].text]),
            List(inv.missing)>>)

(* validate_evidence_citations over the IDs of the Snapshot and the Tools. *)
CitationsValid ==
  LET rows == AllRows(investigation.tools)
  IN /\ Cardinality(IdsOf(rows)) = Len(rows)
     /\ \A i \in DOMAIN investigation.facts :
          /\ investigation.facts[i].ids # {}
          /\ investigation.facts[i].ids \subseteq IdsOf(rows)

(* render_issue_markdown of the statements and the missing information.    *)
(* Facts stand for directions and the classification too, which are shown  *)
(* in the same way.                                                        *)
ShownInIssue(l) == l.path[1] \in {Item(4), Item(5)}

IssueOf(bundle) ==
  {[l EXCEPT !.parts = SafeInline(@)] : l \in {m \in bundle : ShownInIssue(m)}}

(* A text from which the verdict of the validators does not follow here:   *)
(* one that may not be encodable, and in the Issue open prose, which may   *)
(* match or hide a match with what stands around it, and a JSON document,  *)
(* which within the Markdown is none any more but quotes, keys and braces. *)
Unsettled(l) ==
  \/ \E p \in Elements(l.parts) : p.value = "surrogate"
  \/ /\ ShownInIssue(l)
     /\ \/ \E n \in DOMAIN l.path : l.path[n] = Border
        \/ \E p \in Elements(l.parts) :
              p.value = "open" /\ p.shape \notin {"query", "assignment"}

Verdicts(bundle) ==
  IF \E l \in bundle : Unsettled(l) THEN BOOLEAN
  ELSE {CleanMarkdown(IssueOf(bundle))}

(* The bytes of the bundle and the characters of the Issue.                *)
TooLarge(bundle) ==
  LET inv == investigation
      cited == UNION {{i} \X inv.facts[i].ids : i \in DOMAIN inv.facts}
  IN \/ Size(bundle) + Len(AllRows(inv.tools)) > MaxBundle
     \/ Size(IssueOf(bundle)) + Cardinality(cited) > MaxIssue

Shown == [i \in DOMAIN snapshot |-> snapshot[i].item]

TheLines == BriefLines(topology, alarm, input.event.name, Shown, failures)

TheBrief == RenderBrief(topology, alarm, input.event.name, Shown, failures)

(* PublicationPayload.__post_init__, with the verdict on its texts.        *)
Accepted(p, verdict) ==
  /\ input.event.id \in PublishableIds
  /\ Clean(p.bundle) /\ verdict /\ ~TooLarge(p.bundle)
  /\ p.brief # UnsafeBrief => Total(p.brief) <= MaxBriefChars

(* redact_bundle, the brief, canonical_bundle_json and                     *)
(* render_issue_markdown, which redact the redacted bundle again, and the  *)
(* payload.  An unsafe brief is a degraded text and a metric.              *)
Render ==
  /\ stage = "render"
  /\ LET once == RedactJson(BundleValue)
         twice == RedactJson(once)
         ready == [bundle |-> twice, issue |-> IssueOf(twice),
                   brief |-> TheBrief]
         noted == IF TheBrief = UnsafeBrief
                  THEN <<Metric("IncidentsFailed", "render")>> ELSE <<>>
     IN IF once = Raised THEN FailAt("render", <<>>) /\ UNCHANGED payload
        ELSE \E verdict \in Verdicts(twice) :
               IF twice # Raised /\ CitationsValid /\ Accepted(ready, verdict)
               THEN Proceed("publish", noted) /\ payload' = ready
               ELSE FailAt("render", noted) /\ UNCHANGED payload
  /\ UNCHANGED <<topology, alarm, collectVars, input, investigation>>

(* publish and mark_complete.                                              *)
Publish ==
  /\ stage = "publish"
  /\ \/ EndWith("published", <<Metric("IncidentsPublished", input.mode),
                               Metric("ProcessingDuration", "published")>>)
     \/ EndWith("degraded", <<Metric("IncidentsDegraded", "publish"),
                              Metric("ProcessingDuration", "degraded")>>)
     \/ FailAt("publish", <<>>)
  /\ UNCHANGED <<topology, alarm, collectVars, input, investigation, payload>>

Ended == stage = "ended" /\ UNCHANGED vars

Next ==
  \/ ParseEvent \/ LoadTopology \/ Claim \/ Snapshot \/ LeaveSnapshot
  \/ Investigate \/ Render \/ Publish \/ Ended

Spec == Init /\ [][Next]_vars

-----------------------------------------------------------------------------
(* What the report of an incident must be.                                 *)

(* Every variable of the report has its type; a report that is ready to be *)
(* published has a redacted bundle.                                        *)
TypeOK ==
  /\ stage \in Elements(Stages) \cup {"ended"}
  /\ outcome \in {"", "published", "duplicate", "degraded", "failed"}
  /\ (stage = "ended") <=> (outcome # "")
  /\ (outcome = "failed") <=> (failedAt # "")
  /\ next \in 1..(Len(Collectors) + 1)
  /\ Elements(failures) \subseteq CollectorNames
  /\ Collecting => reads \in 0..Len(Plan(Name, topology, alarm))
  /\ status \in {"idle", "collecting", "collected", "raised", "denied"}
  /\ stage = "publish" => payload # NoPayload

(* The services of a Snapshot are the ones the operators attached to the   *)
(* alarm: no service is left out unnoticed, no call but all_pilo_services  *)
(* is for another, and the allowlist never turns a collector's own call    *)
(* down.                                                                   *)
AlarmsServicesOnly ==
  status # "idle" =>
    /\ {ResolveAlarm(topology, alarm)[i].key :
          i \in DOMAIN ResolveAlarm(topology, alarm)}
         = MappedKeys(topology, alarm)
    /\ status # "denied"
    /\ Calling => \/ Name = "all_pilo_services"
                  \/ TheCall.service \in MappedKeys(topology, alarm)

(* Nothing that is about to be published shows a credential of a log line, *)
(* a Tool row or parameter, the alarm, or what the planner wrote.          *)
NothingSecret ==
  payload # NoPayload =>
    /\ Secrets(payload.bundle) = {}
    /\ Secrets(payload.issue) = {}

(* The event ID or a size is one that _validate_publication refuses.       *)
OutOfBounds ==
  \/ input.event.id \notin PublishableIds
  \/ TooLarge(RedactJson(RedactJson(BundleValue)))

Uncertain == \E l \in BundleValue : Unsettled(l)

(* An assignment or query credential in text that the Issue shows: its     *)
(* sentinel is escaped there and taken for a credential again; or such a   *)
(* key without one at the end of a text, which takes what follows for its  *)
(* credential.                                                             *)
Clashing ==
  LET inv == investigation
      texts == {inv.facts[i].text : i \in DOMAIN inv.facts}
               \cup Elements(inv.missing)
  IN \E t \in texts : \E l \in t :
       /\ l.path = <<>>
       /\ \E p \in Elements(l.parts) :
            /\ p.shape \in {"query", "assignment"} /\ p.key = "word"
            /\ p.value \notin {"plain", "surrogate"}

(* A report that was collected and investigated is refused when its event  *)
(* ID or its size is, or the Redactor raises on the bundle or on its own   *)
(* output; and where its texts settle the verdict, also when they clash,   *)
(* and never otherwise: citing Tool Evidence, numbering IDs, bounding the  *)
(* brief, escaping a hidden comment, and redacting and validating it all   *)
(* once more stop no report that was investigated.                         *)
RefusedWithCause ==
  stage = "publish" \/ failedAt = "render" =>
    LET doomed == \/ OutOfBounds \/ Raises(BundleValue)
                  \/ Raises(RedactJson(BundleValue))
    IN /\ doomed => failedAt = "render"
       /\ ~Uncertain => (failedAt = "render" <=> doomed \/ Clashing)

(* What the Redactor made safe, and is within the limits, is accepted by   *)
(* the validators that run it again.                                       *)
RedactedIsPublishable ==
  failedAt = "render" =>
    RedactJson(BundleValue) = Raised \/ OutOfBounds \/ Uncertain

(* The missing information that stands for a failed collector.             *)
Gap(i) ==
  LET others == Len(investigation.missing) - Len(failures)
  IN [path |-> <<Item(5), Item(others + i)>>, kind |-> "text",
      parts |-> <<Part("prose", "plain", "word")>>]

Tally(line) ==
  UNION {{label} \X (1..line.says[label]) : label \in DOMAIN line.says}

(* No collector's failure is lost on the way to a reader: the bundle and   *)
(* the Issue have a line for every one, whatever the planner wrote, and    *)
(* the message of Slack counts them all, although two share a label.  The  *)
(* message may do so only where it is rendered at all and the line of      *)
(* failures fits; no later line takes its place.                           *)
GapsReported ==
  stage = "publish" =>
    /\ \A i \in DOMAIN failures : Gap(i) \in payload.bundle \cap payload.issue
    /\ \/ payload.brief = UnsafeBrief
       \/ \E n \in DOMAIN payload.brief :
            /\ payload.brief[n].line = "failures"
            /\ Cardinality(Tally(payload.brief[n])) = Len(failures)
       \/ /\ Len(payload.brief) < 4
          /\ ~(Total(SubSeq(TheLines, 1, 4)) <= MaxBriefChars)

MetricCount(name) ==
  Cardinality({i \in DOMAIN metrics : metrics[i][1] = name})

(* The metrics account for every call: one duration with its outcome,      *)
(* unless it was a duplicate; one failure per failed collector of a        *)
(* Snapshot that was completed; the failure of a failed call at its stage, *)
(* and of no other call unless its brief could not be rendered.            *)
MetricsAccount ==
  stage = "ended" =>
    /\ MetricCount("ProcessingDuration") =
         IF outcome = "duplicate" THEN 0 ELSE 1
    /\ \A i \in DOMAIN metrics :
         metrics[i][1] = "ProcessingDuration" => metrics[i][2] = outcome
    /\ MetricCount("CollectorFailures") =
         IF status = "collected" THEN Len(failures) ELSE 0
    /\ outcome = "failed" =>
         Metric("IncidentsFailed", failedAt) \in Elements(metrics)
    /\ outcome # "failed" => MetricCount("IncidentsFailed") =
         IF payload # NoPayload /\ payload.brief = UnsafeBrief THEN 1 ELSE 0
=============================================================================

----------------------------- MODULE AlertBrief -----------------------------
(***************************************************************************)
(* render_slack_alert_brief: the lines of the Slack message, rendered from *)
(* the topology and the Evidence of the Snapshot alone.  A line is its     *)
(* kind, what it says and its length; UnsafeBrief stands for the           *)
(* UnsafeBundleError that makes handle send a fixed degraded text instead. *)
(***************************************************************************)
EXTENDS Topology, SequencesExt

CONSTANTS
  UnsafeNames,    \* names that _safe_line or _safe_identifier refuses
  Width,          \* the length of a name
  MaxBriefChars,  \* MAX_ALERT_BRIEF_CHARS
  TargetStates,   \* _TARGET_STATES
  RdsStatuses     \* _RDS_STATUSES

UnsafeBrief == <<>>

Label(collector) ==
  CASE collector = "stopped_tasks_and_logs"    -> "log"
    [] collector = "alb_target_health"         -> "ALB"
    [] collector = "recent_github_deployments" -> "GitHub"
    [] collector = "rds_basic_status"          -> "RDS"
    [] OTHER -> "ECS"

-----------------------------------------------------------------------------
(* The facts: each renderer gives none or one from the rows of the sources *)
(* it reads, in the order of their Evidence IDs.                           *)

(* _render_running_fact: the first of both sources.                        *)
RunningFact(rows, s) ==
  LET Counts(r) == /\ r.source \in {"ecs.describe_services",
                                    "ecs.describe_services.all_pilo"}
                   /\ r.service = s.key
      found == SelectSeq(rows, Counts)
  IN IF found = <<>> THEN <<>>
     ELSE <<[fact |-> "running", value |-> found[1].value]>>

(* _render_stopped_task_fact.                                              *)
StoppedFact(rows, s) ==
  LET Task(r) == r.source = "ecs.describe_tasks" /\ r.service = s.key
      n == Len(SelectSeq(rows, Task))
  IN IF n = 0 THEN <<>> ELSE <<[fact |-> "stopped", value |-> n]>>

(* _render_target_health_fact: the targets of all groups that are not      *)
(* healthy; a group with a state nobody knows is left out.                 *)
HealthFact(rows, s) ==
  LET Group(r) == /\ r.source = "elbv2.describe_target_health"
                  /\ r.service = s.key
                  /\ r.on \in Elements(s.target_groups)
                  /\ Elements(r.value) \subseteq TargetStates
      Unhealthy(x) == x # "healthy"
      n == FoldSeq(LAMBDA r, sum : sum + Len(SelectSeq(r.value, Unhealthy)),
                   0, SelectSeq(rows, Group))
  IN IF n = 0 THEN <<>> ELSE <<[fact |-> "unhealthy", value |-> n]>>

(* _render_rds_fact: the first database of the service in trouble.         *)
RdsFact(rows, s) ==
  LET Trouble(r) == /\ r.source = "rds.describe_db_instances"
                    /\ r.on \in Elements(s.rds_instances)
                    /\ r.value \in RdsStatuses \ {"available"}
      found == SelectSeq(rows, Trouble)
  IN IF found = <<>> THEN <<>>
     ELSE <<[fact |-> "RDS", value |-> found[1].value]>>

(* _render_deployment_fact.                                                *)
DeploymentFact(rows, s) ==
  LET Deployed(r) == /\ r.source = "github.deployments"
                     /\ r.on = s.github_repository
  IN IF SelectSeq(rows, Deployed) = <<>> THEN <<>>
     ELSE <<[fact |-> "deployed", value |-> TRUE]>>

(* _facts_for: at most three, and none unless the alarm is of one service. *)
Facts(rows, services) ==
  IF Len(services) # 1 THEN <<>>
  ELSE LET s == services[1]
           all == RunningFact(rows, s) \o StoppedFact(rows, s) \o
                  HealthFact(rows, s) \o RdsFact(rows, s) \o
                  DeploymentFact(rows, s)
       IN SubSeq(all, 1, Min({3, Len(all)}))

-----------------------------------------------------------------------------
(* The lines.                                                              *)

Line(kind, says, width) == [line |-> kind, says |-> says, width |-> width]

WidthOf(names) == FoldSeq(LAMBDA n, sum : sum + Width[n], 0, names)

(* _render_failures: how many collectors of every label failed.  The       *)
(* mistake: labels without their counts.                                   *)
FailureCountsOnce(failures) ==
  [label \in {Label(failures[i]) : i \in DOMAIN failures} |-> 1]

FailureCounts(failures) ==
  [label \in {Label(failures[i]) : i \in DOMAIN failures} |->
     Cardinality({i \in DOMAIN failures : Label(failures[i]) = label})]

(* The length of a message, with the line feeds between its lines.         *)
Total(lines) == FoldSeq(LAMBDA l, sum : sum + l.width, Len(lines) - 1, lines)

(* _bounded_lines: the lines up to the first that does not fit.            *)
Bounded(lines) ==
  LET fit == {n \in DOMAIN lines :
                Total(SubSeq(lines, 1, n)) <= MaxBriefChars}
  IN IF fit = {} THEN UnsafeBrief ELSE SubSeq(lines, 1, Max(fit))

(* render_slack_alert_brief: the line of failures grows with its labels.   *)
ServiceKeys(t, arn) ==
  LET services == ResolveAlarm(t, arn)
  IN [i \in DOMAIN services |-> services[i].key]

BriefLines(t, arn, name, rows, failures) ==
  LET keys == ServiceKeys(t, arn)
      facts == Facts(rows, ResolveAlarm(t, arn))
      counts == FailureCounts(failures)
      owner == OwnerOf(t, keys[1])
  IN <<Line("target", <<PriorityOf(t, arn), keys>>, WidthOf(keys)),
       Line("alarm", name, Width[name]),
       Line("facts", facts, Len(facts)),
       Line("failures", counts, 1 + Cardinality(DOMAIN counts))>> \o
     (IF Len(keys) = 1
      THEN <<Line("owner", owner.owner, Width[owner.owner]),
             Line("runbook", owner.runbook_url, Width[owner.runbook_url])>>
      ELSE <<>>)

RenderBrief(t, arn, name, rows, failures) ==
  LET keys == ServiceKeys(t, arn)
      owner == OwnerOf(t, keys[1])
      labels == {owner.owner, owner.runbook_url} \ {""}
  IN IF \/ (Elements(keys) \cup {name}) \cap UnsafeNames # {}
        \/ Len(keys) = 1 /\ labels \cap UnsafeNames # {}
     THEN UnsafeBrief
     ELSE Bounded(BriefLines(t, arn, name, rows, failures))
=============================================================================

------------------------------ MODULE Topology ------------------------------
(***************************************************************************)
(* The protected topology: what Topology.load accepts, which services an   *)
(* alarm resolves to, and the closed list of resources that collectors and *)
(* Tools may read.  A raw topology is what the YAML parser hands over;     *)
(* names are strings, and "" stands for every blank or wrongly typed one.  *)
(***************************************************************************)
EXTENDS Orderings

CONSTANTS
  ServiceCount  \* services a topology has: exactly 8

ASSUME TopologyAssumption == ServiceCount \in Nat

Fields == {"version", "environment", "region", "services", "alarms",
           "operations"}

Header == [version |-> 1, environment |-> "dev", region |-> "ap-northeast-2"]

Lists == {"log_groups", "target_groups", "rds_instances", "secrets", "queues"}

Names == {"key", "ecs_cluster", "ecs_service", "github_repository"}

(* What the parser hands over has lists where the checks look for lists.   *)
Parsed(raw) ==
  /\ IsSeq(raw.services) /\ IsSeq(raw.alarms)
  /\ \A i \in DOMAIN raw.services : \A f \in Lists : IsSeq(raw.services[i][f])
  /\ \A i \in DOMAIN raw.alarms : IsSeq(raw.alarms[i].keys)

-----------------------------------------------------------------------------
(* Parsing.  Every check that fails raises TopologyError.                  *)

(* _require_string_tuple. *)
ValidList(s) == "" \notin Elements(s) /\ Distinct(s)

(* _parse_service. *)
ValidService(row) ==
  /\ DOMAIN row = Names \cup Lists
  /\ \A f \in Names : row[f] # ""
  /\ \A f \in Lists : ValidList(row[f])

(* The services of a raw topology, of distinct keys and ECS services. *)
ValidServices(rows) ==
  /\ Len(rows) = ServiceCount
  /\ \A i \in DOMAIN rows : ValidService(rows[i])
  /\ Distinct([i \in DOMAIN rows |-> rows[i].key])
  /\ Distinct([i \in DOMAIN rows |-> rows[i].ecs_service])

(* Alarms are pairs in the order of the file; the loader refuses a key     *)
(* that occurs twice.                                                      *)
ValidAlarms(alarms, keys) ==
  /\ Distinct([i \in DOMAIN alarms |-> alarms[i].arn])
  /\ \A i \in DOMAIN alarms :
       /\ alarms[i].arn # "" /\ ValidList(alarms[i].keys)
       /\ alarms[i].keys # <<>> /\ Elements(alarms[i].keys) \subseteq keys

(* _parse_operations: absent, or one entry for each service and alarm.  A  *)
(* label is "" unless it passes _require_safe_owner, _require_runbook_url. *)
ValidOperations(raw, keys, arns) ==
  "operations" \in raw.fields =>
    /\ DOMAIN raw.operations.services = keys
    /\ DOMAIN raw.operations.alarms = arns
    /\ \A k \in keys : /\ raw.operations.services[k].owner # ""
                       /\ raw.operations.services[k].runbook_url # ""
    /\ \A a \in arns : raw.operations.alarms[a] \in {"P1", "P2", "P3"}

Keys(rows) == {rows[i].key : i \in DOMAIN rows}

Arns(alarms) == {alarms[i].arn : i \in DOMAIN alarms}

(* Topology.load does not raise. *)
Loadable(raw) ==
  /\ raw.fields \subseteq Fields
  /\ raw.header = Header
  /\ ValidServices(raw.services)
  /\ ValidAlarms(raw.alarms, Keys(raw.services))
  /\ ValidOperations(raw, Keys(raw.services), Arns(raw.alarms))

-----------------------------------------------------------------------------
(* A loaded topology.                                                      *)

(* resolve_alarm: the mapped services in the order of the topology.  The   *)
(* mistake: an alarm nobody mapped resolves to every service.              *)
MappedKeys(t, arn) ==
  UNION {Elements(t.alarms[i].keys) :
           i \in {j \in DOMAIN t.alarms : t.alarms[j].arn = arn}}

ResolveAlarmAnyway(t, arn) ==
  Selected(t.services, {i \in DOMAIN t.services :
                          \/ t.services[i].key \in MappedKeys(t, arn)
                          \/ MappedKeys(t, arn) = {}})

ResolveAlarm(t, arn) ==
  Selected(t.services, {i \in DOMAIN t.services :
                          t.services[i].key \in MappedKeys(t, arn)})

(* operations_for_service, operations_for_alarm: what a topology without   *)
(* the extension says.                                                     *)
OwnerOf(t, key) ==
  IF "operations" \in t.fields THEN t.operations.services[key]
  ELSE [owner |-> "", runbook_url |-> ""]

PriorityOf(t, arn) ==
  IF "operations" \in t.fields /\ arn \in Arns(t.alarms)
  THEN t.operations.alarms[arn] ELSE "P2"

(* _build_allowed_resources. *)
ListedIn(t, field) ==
  UNION {Elements(t.services[i][field]) : i \in DOMAIN t.services}

NamedIn(t, field) == {t.services[i][field] : i \in DOMAIN t.services}

AllowedResources(t) ==
  [alarm             |-> Arns(t.alarms),
   ecs_cluster       |-> NamedIn(t, "ecs_cluster"),
   ecs_service       |-> NamedIn(t, "ecs_service"),
   log_group         |-> ListedIn(t, "log_groups"),
   target_group      |-> ListedIn(t, "target_groups"),
   rds_instance      |-> ListedIn(t, "rds_instances"),
   secret            |-> ListedIn(t, "secrets"),
   queue             |-> ListedIn(t, "queues"),
   github_repository |-> NamedIn(t, "github_repository")]

(* require_allowed does not raise TopologyDenied. *)
IsAllowed(t, type, id) == id \in AllowedResources(t)[type]
=============================================================================

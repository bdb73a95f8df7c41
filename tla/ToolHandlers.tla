---------------------------- MODULE ToolHandlers ----------------------------
(***************************************************************************)
(* The five Tool handlers behind the registry: what each makes of the      *)
(* answer of its service.  A request is its Tool, its resource, its        *)
(* parameters and "key", the prefix of its deduplication hash; handlers    *)
(* look at the resource alone.  An answer is "error" (a client error or a  *)
(* timeout), "invalid" (not the shape of the service) or "rows".           *)
(***************************************************************************)
EXTENDS Orderings

CONSTANT MaxToolRows  \* MAX_LOG_EVENTS, MAX_RDS_EVENTS, MAX_CHANGED_FILES

ASSUME ToolAssumption == MaxToolRows \in Nat

(* _RESOURCE_TYPES.                                                        *)
ResourceType ==
  [service_log_search |-> "log_group", rds_events |-> "rds_instance",
   secret_rotation_metadata |-> "secret", sqs_status |-> "queue",
   github_changed_files |-> "github_repository"]

ToolNames == DOMAIN ResourceType

(* The sources of Tool Evidence, and the prefixes of its local IDs.        *)
Prefix ==
  [service_log_search |-> "service-log-search", rds_events |-> "rds-events",
   secret_rotation_metadata |-> "secret-rotation-metadata",
   sqs_status |-> "sqs-status",
   github_changed_files |-> "github-changed-files"]

(* ToolRegistry._validate without the keys seen before.                    *)
Authorized(request, allowed) ==
  /\ request.tool \in ToolNames
  /\ request.resource \in allowed[ResourceType[request.tool]]

-----------------------------------------------------------------------------
(* service_log_search, rds_events: sorted, then cut.                       *)
Events(rows) == Cut(ByTime(rows), MaxToolRows)

(* github_changed_files: cut, then sorted by path.                         *)
ChangedFiles(rows) == ByTime(Cut(rows, MaxToolRows))

(* secret_rotation_metadata, sqs_status: one row.                          *)
Single(rows) == <<rows[1]>>

Normalized(tool, rows) ==
  CASE tool \in {"service_log_search", "rds_events"} -> Events(rows)
    [] tool = "github_changed_files" -> ChangedFiles(rows)
    [] OTHER -> Single(rows)

(* _failure, _evidence_result: the IDs name the Tool, the request and the  *)
(* row.  The mistake: IDs that do not name the request.                    *)
EvidenceResultByTool(request, rows) ==
  [request |-> request, failure |-> "",
   evidence |-> [i \in DOMAIN rows |->
     [id |-> <<Prefix[request.tool], "", i>>,
      item |-> [source |-> request.tool, on |-> request.resource,
                value |-> rows[i]]]]]

EvidenceResult(request, rows) ==
  [request |-> request, failure |-> "",
   evidence |-> [i \in DOMAIN rows |->
     [id |-> <<Prefix[request.tool], request.key, i>>,
      item |-> [source |-> request.tool, on |-> request.resource,
                value |-> rows[i]]]]]

Failure(request, code) ==
  [request |-> request, failure |-> code, evidence |-> <<>>]

(* execute of the handlers.  changed_files hides an invalid response of    *)
(* GitHub behind IntegrationError; the file names it returns are checked   *)
(* once more.                                                              *)
HandlerResult(request, answer) ==
  CASE answer.kind = "rows" ->
         EvidenceResult(request, Normalized(request.tool, answer.rows))
    [] answer.kind = "error" /\ request.tool # "github_changed_files" ->
         Failure(request, "aws_api_error")
    [] answer.kind = "invalid" /\ request.tool # "github_changed_files" ->
         Failure(request, "invalid_response")
    [] OTHER -> Failure(request, "github_api_error")
=============================================================================

-------------------------- MODULE SnapshotCollector --------------------------
(***************************************************************************)
(* SnapshotCollector.collect over the six collectors of collectors/aws.py: *)
(* they run one after the other in their fixed order, each over the remote *)
(* calls that the topology plans for it.  What an expected failure leaves  *)
(* of a collector is one CollectorFailure; the Evidence of the others is   *)
(* given the IDs that the model, the Issue and the bundle cite.  Meanwhile *)
(* ECS goes on stopping tasks and forgetting the ones that stopped before. *)
(***************************************************************************)
EXTENDS Topology, SequencesExt

CONSTANTS
  NameOf,        \* the last path segment of every ECS service
  Answers(_),    \* what a call can return: sequences of values
  TaskIds,       \* stopped tasks, numbered in the order of their ARNs
  MaxTasks,      \* MAX_TASKS
  MaxTaskPages,  \* MAX_TASK_PAGES
  MaxRows,       \* MAX_LOG_EVENTS, MAX_DEPLOYMENTS
  MaxChanges     \* bound: tasks that stop or are forgotten meanwhile

ASSUME CollectorAssumption ==
  /\ TaskIds \subseteq Nat
  /\ MaxTasks \in Nat /\ MaxTaskPages \in Nat /\ MaxRows \in Nat
  /\ MaxChanges \in Nat

Collectors ==
  <<"alarm_target_ecs", "stopped_tasks_and_logs", "alb_target_health",
    "all_pilo_services", "recent_github_deployments", "rds_basic_status">>

CollectorNames == Elements(Collectors)

(* The sources of Evidence in the order of their names.                    *)
Sources ==
  <<"ecs.describe_services", "ecs.describe_services.all_pilo",
    "ecs.describe_tasks", "elbv2.describe_target_health",
    "github.deployments", "logs.filter_log_events",
    "rds.describe_db_instances">>

VARIABLES
  topology,  \* the loaded topology
  alarm,     \* the ARN of the alarm
  next,      \* position of the collector at work
  reads,     \* calls of its plan it has finished
  page,      \* list_tasks: the pages read and the ARNs they named
  local,     \* its own Evidence so far, in the order it was read
  evidence,  \* Evidence of the collectors that finished
  failures,  \* collectors recorded as failed
  status,    \* "idle", "collecting", "collected", "raised" or "denied"
  snapshot,  \* the Evidence of the Snapshot, with IDs
  stopped,   \* ECS: the stopped tasks it still knows, per service
  lasting,   \* history: of those, the ones known since the listing began
  changes    \* bound on the steps of ECS

collectVars == <<next, reads, page, local, evidence, failures, status,
                 snapshot, stopped, lasting, changes>>

NoPage == [pages |-> 0, arns |-> {}, more |-> TRUE]

Idle ==
  /\ next = 1 /\ reads = 0 /\ page = NoPage /\ local = <<>>
  /\ evidence = <<>> /\ failures = <<>> /\ status = "idle"
  /\ snapshot = <<>> /\ lasting = {} /\ changes = 0

-----------------------------------------------------------------------------
(* The plan of a collector: its calls in order.  A call has a source, the  *)
(* service it is for, the resource it reads, and what it must be allowed.  *)

Call(source, s, type, id) ==
  [source |-> source, service |-> s.key, on |-> id, cluster |-> "",
   needs |-> {<<type, id>>}]

EcsCall(source, s) ==
  [source |-> source, service |-> s.key, on |-> s.ecs_service,
   cluster |-> s.ecs_cluster,
   needs |-> {<<"ecs_cluster", s.ecs_cluster>>,
              <<"ecs_service", s.ecs_service>>}]

CallsFor(c, s) ==
  CASE c = "alarm_target_ecs" -> <<EcsCall("ecs.describe_services", s)>>
    [] c = "stopped_tasks_and_logs" ->
         <<EcsCall("ecs.describe_tasks", s)>> \o
         [i \in DOMAIN s.log_groups |->
            Call("logs.filter_log_events", s, "log_group", s.log_groups[i])]
    [] c = "alb_target_health" ->
         [i \in DOMAIN s.target_groups |->
            Call("elbv2.describe_target_health", s, "target_group",
                 s.target_groups[i])]
    [] c = "recent_github_deployments" ->
         <<Call("github.deployments", s, "github_repository",
                s.github_repository)>>
    [] c = "rds_basic_status" ->
         [i \in DOMAIN s.rds_instances |->
            Call("rds.describe_db_instances", s, "rds_instance",
                 s.rds_instances[i])]

(* Services that share a repository or a database share one call (seen).   *)
OncePerResource(calls) ==
  Selected(calls, {i \in DOMAIN calls :
                     \A j \in 1..(i - 1) : calls[j].on # calls[i].on})

(* all_pilo_services: one call per cluster for all services in it.         *)
ServicesIn(t, cluster) ==
  Selected(t.services, {i \in DOMAIN t.services :
                          t.services[i].ecs_cluster = cluster})

ClusterCall(t, cluster) ==
  [source |-> "ecs.describe_services.all_pilo", service |-> "",
   on |-> cluster, cluster |-> cluster,
   needs |-> {<<"ecs_cluster", cluster>>} \cup
             {<<"ecs_service", ServicesIn(t, cluster)[i].ecs_service>> :
                i \in DOMAIN ServicesIn(t, cluster)}]

Plan(c, t, arn) ==
  IF c = "all_pilo_services"
  THEN OncePerResource([i \in DOMAIN t.services |->
                          ClusterCall(t, t.services[i].ecs_cluster)])
  ELSE LET ss == ResolveAlarm(t, arn)
           calls == FlattenSeq([i \in DOMAIN ss |-> CallsFor(c, ss[i])])
       IN IF c \in {"recent_github_deployments", "rds_basic_status"}
          THEN OncePerResource(calls) ELSE calls

Name == Collectors[next]

TheCall == Plan(Name, topology, alarm)[reads + 1]

Collecting == status = "collecting" /\ next <= Len(Collectors)

Calling == Collecting /\ reads < Len(Plan(Name, topology, alarm))

(* require_allowed before the call.                                        *)
Permitted == \A n \in TheCall.needs : IsAllowed(topology, n[1], n[2])

-----------------------------------------------------------------------------
(* Rows: what was read, for which service, through which collector.        *)

Row(key, value) ==
  [source |-> TheCall.source, by |-> Name, service |-> key,
   on |-> TheCall.on, value |-> value]

(* Log events: the first MAX_LOG_EVENTS, then by time.                     *)
Logged(events) == ByTime(Cut(events, MaxRows))

(* recent_deployments: of dev and not before since, the newest first.      *)
Newer(s) == {p \in (DOMAIN s) \X (DOMAIN s) : s[p[1]].id > s[p[2]].id}

Recent(deployments) ==
  LET matching == {i \in DOMAIN deployments :
                     /\ deployments[i].environment = "dev"
                     /\ deployments[i].recent}
      kept == Selected(deployments, matching)
  IN Cut(Sorted(kept, Newer(kept)), MaxRows)

(* The rows of all_pilo_services: ECS describes every distinct service of  *)
(* a request once, and the collector wants one row for each it asked for.  *)
Describable(cluster) ==
  Distinct([i \in DOMAIN ServicesIn(topology, cluster) |->
              NameOf[ServicesIn(topology, cluster)[i].ecs_service]])

RowsOf(answer) ==
  CASE TheCall.source = "logs.filter_log_events" ->
         LET events == Logged(answer)
         IN [i \in DOMAIN events |-> Row(TheCall.service, events[i])]
    [] TheCall.source = "github.deployments" ->
         LET recent == Recent(answer)
         IN [i \in DOMAIN recent |-> Row("", recent[i])]
    [] TheCall.source = "ecs.describe_services.all_pilo" ->
         [i \in DOMAIN ServicesIn(topology, TheCall.cluster) |->
            Row(ServicesIn(topology, TheCall.cluster)[i].key, answer[i])]
    [] OTHER -> [i \in DOMAIN answer |-> Row(TheCall.service, answer[i])]

Finish(rows) ==
  /\ local' = local \o rows /\ reads' = reads + 1 /\ page' = NoPage
  /\ lasting' = {}
  /\ UNCHANGED <<next, evidence, failures, status, snapshot, stopped, changes>>

-----------------------------------------------------------------------------
(* The calls.                                                              *)

ListsTasks == TheCall.source = "ecs.describe_tasks"

(* The answer of any other call than those of the stopped tasks; one of    *)
(* all_pilo_services that misses a row is an invalid response.             *)
Read ==
  /\ Calling /\ Permitted /\ ~ListsTasks
  /\ TheCall.source = "ecs.describe_services.all_pilo" =>
       Describable(TheCall.cluster)
  /\ \E answer \in Answers(TheCall) : Finish(RowsOf(answer))

(* Pages of list_tasks: until no token is left, the last page is read or   *)
(* MAX_TASKS are named.  A page names some of the tasks not named before.  *)
Listed ==
  \/ ~page.more
  \/ page.pages >= MaxTaskPages
  \/ Cardinality(page.arns) >= MaxTasks

(* The mistake: the next page instead of both.                             *)
ListTasksLastPage ==
  /\ Calling /\ Permitted /\ ListsTasks /\ ~Listed
  /\ \E arns \in SUBSET (stopped[TheCall.service] \ page.arns) :
       /\ Cardinality(arns) <= MaxTasks
       /\ arns = {} => stopped[TheCall.service] \subseteq page.arns
       /\ page' = [pages |-> page.pages + 1, arns |-> arns,
                   more |-> stopped[TheCall.service]
                              \ (page.arns \cup arns) # {}]
  /\ lasting' = IF page.pages = 0 THEN stopped[TheCall.service] ELSE lasting
  /\ UNCHANGED <<next, reads, local, evidence, failures, status, snapshot,
                 stopped, changes>>

ListTasks ==
  /\ Calling /\ Permitted /\ ListsTasks /\ ~Listed
  /\ \E arns \in SUBSET (stopped[TheCall.service] \ page.arns) :
       /\ Cardinality(arns) <= MaxTasks
       /\ arns = {} => stopped[TheCall.service] \subseteq page.arns
       /\ page' = [pages |-> page.pages + 1, arns |-> page.arns \cup arns,
                   more |-> stopped[TheCall.service]
                              \ (page.arns \cup arns) # {}]
  /\ lasting' = IF page.pages = 0 THEN stopped[TheCall.service] ELSE lasting
  /\ UNCHANGED <<next, reads, local, evidence, failures, status, snapshot,
                 stopped, changes>>

(* sorted(set(task_arns))[:MAX_TASKS], and describe_tasks over them: a     *)
(* task that ECS has forgotten is one of its failures.                     *)
TaskArns == Cut(Ascending(page.arns), MaxTasks)

DescribeTasks ==
  /\ Calling /\ Permitted /\ ListsTasks /\ Listed
  /\ Elements(TaskArns) \subseteq stopped[TheCall.service]
  /\ Finish([i \in DOMAIN TaskArns |-> Row(TheCall.service, TaskArns[i])])

(* A call goes out, and may fail.                                          *)
AtCall == Calling /\ ~(ListsTasks /\ Listed /\ TaskArns = <<>>)

(* A CollectorError in any call: what was read before it goes with it.     *)
(* The mistake: rows kept from a failed collector.                         *)
FailKeepingRows ==
  /\ AtCall /\ Permitted
  /\ failures' = Append(failures, Name)
  /\ evidence' = evidence \o local
  /\ local' = <<>> /\ reads' = 0 /\ next' = next + 1 /\ page' = NoPage
  /\ lasting' = {}
  /\ UNCHANGED <<status, snapshot, stopped, changes>>

Fail ==
  /\ AtCall /\ Permitted
  /\ failures' = Append(failures, Name)
  /\ local' = <<>> /\ reads' = 0 /\ next' = next + 1 /\ page' = NoPage
  /\ lasting' = {}
  /\ UNCHANGED <<evidence, status, snapshot, stopped, changes>>

(* Any other exception leaves collect, and with it the attempt; so does    *)
(* TopologyDenied.                                                         *)
Raise ==
  /\ AtCall
  /\ status' = IF Permitted THEN "raised" ELSE "denied"
  /\ UNCHANGED <<next, reads, page, local, evidence, failures, snapshot,
                 stopped, lasting, changes>>

(* collect of the collector returns all it read.  The mistake: the next    *)
(* collector starts in the middle.                                         *)
ReturnKeepingReads ==
  /\ Collecting /\ ~Calling
  /\ evidence' = evidence \o local
  /\ local' = <<>> /\ next' = next + 1
  /\ UNCHANGED <<reads, page, failures, status, snapshot, stopped, lasting,
                 changes>>

Return ==
  /\ Collecting /\ ~Calling
  /\ evidence' = evidence \o local
  /\ local' = <<>> /\ reads' = 0 /\ next' = next + 1
  /\ UNCHANGED <<page, failures, status, snapshot, stopped, lasting,
                 changes>>

(* _allocate_evidence_ids: by source and then by position, numbered from   *)
(* one; the sources in the order of their names, and of each its rows.     *)
(* The mistake: rows numbered in the order they were collected.            *)
AllocateInOrder(rows) ==
  [i \in DOMAIN rows |-> [id |-> <<"E", i>>, item |-> rows[i]]]

PlacesOf(rows, source) ==
  Ascending({i \in DOMAIN rows : rows[i].source = source})

AllocateEvidenceIds(rows) ==
  LET order == FlattenSeq([n \in DOMAIN Sources |->
                             PlacesOf(rows, Sources[n])])
  IN [n \in DOMAIN order |-> [id |-> <<"E", n>>, item |-> rows[order[n]]]]

Assemble ==
  /\ status = "collecting" /\ next > Len(Collectors)
  /\ status' = "collected"
  /\ snapshot' = AllocateEvidenceIds(evidence)
  /\ UNCHANGED <<next, reads, page, local, evidence, failures, stopped,
                 lasting, changes>>

Collect ==
  \/ Read \/ ListTasks \/ DescribeTasks \/ Fail \/ Raise \/ Return
  \/ Assemble

(* ECS: between the pages and the description of a service's tasks one     *)
(* stops or is forgotten.                                                  *)
TasksMove ==
  /\ Calling /\ page.pages > 0 /\ changes < MaxChanges
  /\ \E t \in TaskIds :
       /\ stopped' = [stopped EXCEPT ![TheCall.service] =
                        IF t \in @ THEN @ \ {t} ELSE @ \cup {t}]
       /\ lasting' = lasting \ {t}
  /\ changes' = changes + 1
  /\ UNCHANGED <<next, reads, page, local, evidence, failures, status,
                 snapshot>>

-----------------------------------------------------------------------------
(* What a Snapshot must be.                                                *)

(* A collector is in the Snapshot with all it read or as a failure: it is  *)
(* left after all its calls, with every row it had read, or as one more    *)
(* failure and without a row, wherever in its calls it failed.             *)
WholeOrFailed ==
  [][next' # next =>
       \/ /\ failures' = failures /\ evidence' = evidence \o local
          /\ reads = Len(Plan(Name, topology, alarm))
       \/ /\ failures' = Append(failures, Name)
          /\ evidence' = evidence]_collectVars

(* The place of a row's source in the order of the sources.                *)
Rank(row) == CHOOSE n \in DOMAIN Sources : Sources[n] = row.source

(* The IDs of a Snapshot are 1..n without a gap, and the ID of an Evidence *)
(* is the number of Evidence that its source and its place among the rows  *)
(* of that source put before it, itself included: what a retry collects    *)
(* again from an unchanged system gets the same ID again.  And no fact has *)
(* two IDs, although services of the alarm may share a resource.           *)
IdsByRank ==
  status = "collected" =>
    /\ Len(snapshot) = Len(evidence)
    /\ \A i, j \in DOMAIN evidence :
         (/\ evidence[i] = evidence[j]
          /\ evidence[i].source # "logs.filter_log_events") => i = j
    /\ \A j \in DOMAIN evidence :
         LET n == Cardinality({i \in DOMAIN evidence :
                    \/ Rank(evidence[i]) < Rank(evidence[j])
                    \/ Rank(evidence[i]) = Rank(evidence[j]) /\ i <= j})
         IN snapshot[n] = [id |-> <<"E", n>>, item |-> evidence[j]]

(* A task that ECS knew as stopped from the first page to the description  *)
(* is Evidence, unless the listing was cut at its limits or the collector  *)
(* is a recorded failure, whatever stopped or was forgotten in between.    *)
LastingTasksSeen ==
  [][(Calling /\ ListsTasks /\ reads' = reads + 1) =>
       \/ page.more \/ Cardinality(page.arns) > MaxTasks
       \/ \A t \in lasting :
            \E i \in DOMAIN local' :
              local'[i] = Row(TheCall.service, t)]_collectVars
=============================================================================

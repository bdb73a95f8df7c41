-------------------------- MODULE MCIncidentReport --------------------------
(***************************************************************************)
(* Instance of IncidentReport for TLC: topologies of two services that     *)
(* share a repository and a database, alarms of one, of both and of none,  *)
(* a log group whose lines hold a credential or a JSON document that       *)
(* cannot be redacted, and Tools that read the same log group twice.       *)
(***************************************************************************)
EXTENDS IncidentReport

Service(key, ecs, groups, targets) ==
  [key |-> key, ecs_cluster |-> "dev", ecs_service |-> ecs,
   log_groups |-> groups, target_groups |-> targets,
   rds_instances |-> <<"db">>, secrets |-> <<>>, queues |-> <<>>,
   github_repository |-> "org/app"]

Operations(labels) ==
  [services |-> [k \in {"api", "web"} |->
                   [owner |-> "team", runbook_url |-> "book"]],
   alarms |-> [a \in {"one", "both"} |-> labels]]

Raw(fields, second, keys) ==
  [fields |-> fields, header |-> Header,
   services |-> <<Service("api", "dev/api", <<"/api">>, <<"tg">>),
                  Service("web", second, <<>>, <<>>)>>,
   alarms |-> <<[arn |-> "one", keys |-> <<"api">>],
                [arn |-> "both", keys |-> keys]>>,
   operations |-> Operations("P1")]

Plain == Fields \ {"operations"}

Good == Raw(Fields, "dev/web", <<"web", "api">>)

SpeltTwice == Raw(Plain, "api", <<"web", "api">>)

Refused ==
  {Raw(Fields, "dev/web", <<"web", "job">>),  \* a service nobody has
   Raw(Fields, "dev/api", <<"web", "api">>)}  \* one ECS service twice

MCNameOf ==
  [s \in {"dev/api", "dev/web", "api"} |->
     IF s = "dev/web" THEN "web" ELSE "api"]

Plainly == Text(<<Part("prose", "plain", "word")>>)

Detail(item) == Mapping([name |-> Text(<<>>), tokens |-> item, ghp |-> Plainly])

Event(arn, name, state) ==
  [source |-> "aws.cloudwatch", region |-> "ap-northeast-2",
   id |-> IF name = "untitled" THEN "an event" ELSE "e",
   resources |-> <<arn>>, name |-> name, state |-> state,
   timestamp |-> "zoned", detail |-> Detail(Text(Sentinel))]

MCStopped(n) == [k \in {"api", "web"} |-> IF k = "api" THEN 1..n ELSE {}]

Input(mode, event, object, n) ==
  [mode |-> mode, event |-> event, object |-> object,
   stopped |-> MCStopped(n)]

MCInputs ==
  {Input("hybrid_agent", Event("one", "cpu", "ALARM"), Good, 2),
   Input("snapshot_only", Event("one", "cpu", "ALARM"), SpeltTwice, 0),
   Input("snapshot_only", Event("both", "long", "ALARM"), Good, 1),
   Input("hybrid_agent", Event("none", "two words", "ALARM"), Good, 0),
   Input("hybrid_agent", Event("one", "cpu", "OK"), Good, 0),
   Input("snapshot_only", Event("none", "untitled", "ALARM"), Good, 0)}
  \cup {Input("snapshot_only", Event("both", "cpu", "ALARM"), t, 0) :
          t \in Refused}

Log(n, text) == [time |-> n, text |-> text]

Credential(shape, key) == Text(<<Part(shape, "secret", key)>>)

Poison == Document(Mapping([tokens |-> Number]))

(* Its key is a credential, and the sentinel for it a sensitive key.       *)
LatePoison == Document(Mapping([ghp |-> Number]))

MCAnswers(call) ==
  CASE call.source = "ecs.describe_services" -> {<<"1/2">>}
    [] call.source = "ecs.describe_services.all_pilo" -> {<<"2/2", "1/2">>}
    [] call.source = "elbv2.describe_target_health" ->
         {<<<<"healthy", "unhealthy">>>>}
    [] call.source = "github.deployments" ->
         {<<[id |-> 1, environment |-> "dev", recent |-> TRUE],
            [id |-> 2, environment |-> "dev", recent |-> TRUE],
            [id |-> 3, environment |-> "dev", recent |-> FALSE]>>}
    [] call.source = "rds.describe_db_instances" -> {<<"failed">>}
    [] call.source = "logs.filter_log_events" ->
         {<<>>, <<Log(1, Poison)>>, <<Log(1, LatePoison)>>,
          <<Log(2, Credential("assignment", "word")),
            Log(1, Credential("token", "word"))>>}

Request(tool, resource, key, parameters) ==
  [tool |-> tool, resource |-> resource, key |-> key,
   parameters |-> parameters]

NoParameters == Empty

Covered == Mapping([tokens |-> Text(<<Part("prose", "secret", "word")>>)])

MCToolPlans ==
  {<<>>,
   <<Request("service_log_search", "/api", "k1", NoParameters),
     Request("service_log_search", "/api", "k2", Covered)>>,
   <<Request("rds_events", "elsewhere", "k3", NoParameters)>>}

MCToolAnswers ==
  {[kind |-> "error"],
   [kind |-> "rows", rows |-> <<Log(2, Credential("query", "pair")),
                                Log(1, Prose("unapproved"))>>]}

MCRedactedTexts ==
  {Credential("assignment", "word"),
   Text(<<Part("header", "secret", "word"), Part("query", "secret", "pair"),
          Part("marker", "plain", "word")>>)}

(* A key with nothing after it, and a document.                            *)
MCFactTexts ==
  MCRedactedTexts \cup
  {Text(<<Part("prose", "plain", "word"), Part("assignment", "open", "word")>>),
   Document(Mapping([name |-> Plainly]))}

(* A text of so many parts that not every fact has room beside it.         *)
MCMissingTexts == {Text([i \in 1..6 |-> Part("prose", "unapproved", "word")])}

MCSafeKey ==
  [k \in {"name", "tokens", "ghp", "sentinel"} |->
     IF k = "ghp" THEN "sentinel" ELSE k]

MCWidth ==
  [n \in {"api", "web", "cpu", "long", "two words", "untitled", "team", "book",
           ""} |-> CASE n = "long" -> 20 [] n = "book" -> 12 [] OTHER -> 4]
=============================================================================

------------------------ MODULE MCOfflineEvaluation -------------------------
(***************************************************************************)
(* Instance of OfflineEvaluation for TLC: two committed fixtures, one of   *)
(* them guarded, the same with one thing changed that a check must notice, *)
(* and recordings that take each way through the loop and the handoff.     *)
(***************************************************************************)
EXTENDS OfflineEvaluation

MCToolNames == {"logs", "sqs"}

Ordinary ==
  [fixture_id |-> "f1", scenario |-> "backlog", variant |-> "complete",
   alarm      |-> [normalized |-> TRUE, name |-> "alarm"], texts |-> "plain",
   topology   |-> [version |-> 1, loads |-> TRUE, allowed |-> {"k1", "k2", "k3"}],
   snapshot   |-> [evidence |-> <<"s1">>, failures |-> 0],
   tool_results |->
     <<[key |-> "k1", tool |-> "logs", evidence |-> <<"t1">>, failed |-> FALSE],
       [key |-> "k2", tool |-> "sqs", evidence |-> <<>>, failed |-> TRUE]>>,
   expected   |-> [required |-> <<"s1", "t1">>, labels |-> <<"right">>,
                   useful |-> <<"logs">>, classification |-> "cause",
                   facts |-> <<<<"s1">>>>],
   handoff    |-> [labels |-> <<"right">>, kinds |-> <<"owner">>]]

GuardedFixture ==
  [Ordinary EXCEPT !.fixture_id = "f2", !.variant = "composite",
                   !.expected.classification = "unclassified"]

Sparse ==   \* no Evidence, and so no direction to expect
  [GuardedFixture EXCEPT !.variant = "unknown", !.snapshot.evidence = <<>>,
     !.tool_results = <<>>,
     !.expected = [required |-> <<>>, labels |-> <<>>, useful |-> <<>>,
                   classification |-> "unclassified", facts |-> <<>>],
     !.handoff.labels = <<>>]

(* A manifest of the fixtures given, with true entries. *)
Entry(f) ==
  [fixture_id |-> f.fixture_id, scenario |-> f.scenario, variant |-> f.variant,
   path |-> [name |-> f.fixture_id, relative |-> TRUE, leaves |-> FALSE],
   file |-> f]

With(f, g) == <<Entry(f), Entry(g)>>

MCManifests ==
  {With(Ordinary, f) :
     f \in {GuardedFixture, Sparse,
            [GuardedFixture EXCEPT !.texts = "usage"],
            [GuardedFixture EXCEPT !.texts = "secret"],
            [GuardedFixture EXCEPT !.alarm.normalized = FALSE],
            [GuardedFixture EXCEPT !.snapshot.evidence = <<"s1", "no id">>],
            [GuardedFixture EXCEPT !.tool_results[1].evidence = <<"s1">>,
                                   !.expected.required = <<"s1">>],
            [GuardedFixture EXCEPT !.tool_results[2].key = "k1"],
            [GuardedFixture EXCEPT !.topology.allowed = {"k1"}],
            [GuardedFixture EXCEPT !.handoff.labels = <<>>],
            [GuardedFixture EXCEPT !.expected.classification = "cause"],
            [GuardedFixture EXCEPT !.variant = "noisy",
                                   !.expected.classification = "cause"],
            [GuardedFixture EXCEPT !.fixture_id = "f3"],
            [x \in FixtureFields \ {"handoff"} |-> GuardedFixture[x]],
            Ordinary}}
    \cup {<<Entry(Ordinary)>>,
          <<Entry(Ordinary),
            [Entry(GuardedFixture) EXCEPT !.variant = "noisy"]>>,
          <<Entry(Ordinary),
            [Entry(GuardedFixture) EXCEPT !.path.leaves = TRUE]>>}

Facing(label, cites) ==   \* one fact and one direction
  [facts |-> <<cites>>, directions |-> <<[label |-> label, cites |-> cites]>>,
   classification |-> "unclassified", grounds |-> <<>>]

Caused(o, grounds) == [o EXCEPT !.classification = "cause", !.grounds = grounds]

Ask(keys, cited) == [i \in DOMAIN keys |-> [key |-> keys[i], cited |-> cited]]

Proposal(requests, o) == [requests |-> requests, conclusion |-> o]

Recorded(proposals, final) ==
  [mode |-> IF proposals = <<>> THEN "snapshot_only" ELSE "hybrid_agent",
   proposals |-> proposals, final |-> final, calls |-> FALSE]

First(keys) == Proposal(Ask(keys, "s1"), Unclassified)

Enough == Proposal(<<>>, Unclassified)

MCReviewed ==
  {Recorded(<<>>, o) :
     o \in {Facing("wrong", <<"s1">>), Facing("wrong", <<"s1", "t1">>), Facing("right", <<"s1">>),
            Caused(Facing("right", <<"t1">>), <<>>)}}
  \cup {Recorded(<<Proposal(<<>>, o)>>, Unclassified) :
     o \in {Caused(Facing("right", <<"s1">>), <<"s1">>),
            Facing("right", <<"s1", "s1">>)}}
  \cup {Recorded(proposals, Facing("right", <<"t1">>)) :
     proposals \in {<<First(<<"k1">>), Enough>>,
                    <<First(<<"k1">>)>>,
                    <<First(<<"k2">>), Enough>>,
                    <<First(<<"k1", "k3">>)>>,
                    <<First(<<"k1", "k1">>), Enough>>,
                    <<First(<<"k2">>),
                      Proposal(Ask(<<"k1">>, "s1"), Unclassified)>>}}

(* A session with two claims, and maybe a Tool request for the Snapshot or *)
(* for its own result.                                                     *)
MCReviewedOutputs ==
  {[label |-> "", clarifications |-> <<"owner">>,
    requests |-> requests, claims |-> <<<<"s1">>, <<"t1">>>>] :
     requests \in {<<>>, Ask(<<"k1">>, "s1"), Ask(<<"k1">>, "t1")}}
=============================================================================

------------------------- MODULE OfflineEvaluation --------------------------
(***************************************************************************)
(* build_offline_report: load the committed fixtures, replay a recording   *)
(* for each fixture and mode through the production agent loop, score and  *)
(* compare the runs, replay the paired handoffs, and select the operating  *)
(* mode.  The recordings are the neutral ones that report.py makes itself, *)
(* or reviewed ones given to the runner and the harness.  A check that     *)
(* fails ends the report at that stage.                                    *)
(***************************************************************************)
EXTENDS Scoring, PairedHandoff

CONSTANTS
  Manifests,       \* manifests that may be found on disk
  Reviewed,        \* reviewed recordings of a run
  ReviewedOutputs  \* reviewed outputs of a handoff session

ASSUME EvaluationAssumption ==
  /\ IsFiniteSet(Committed) /\ Committed # {}
  /\ \A entries \in Manifests :
       /\ entries \in Seq(Elements(entries))
       /\ \A e \in Elements(entries) :
            e.file.tool_results \in Seq(Elements(e.file.tool_results))
  /\ \A r \in Reviewed :
       /\ r.proposals \in Seq(Elements(r.proposals))
       /\ \A p \in Elements(r.proposals) :
            p.requests \in Seq(Elements(p.requests))
  /\ \A o \in ReviewedOutputs :
       /\ o.requests \in Seq([key : STRING, cited : STRING])
       /\ o.claims \in Seq(Seq(STRING))

VARIABLES
  stage,     \* what comes next
  refused,   \* the stage whose check failed, or "no"
  source,    \* "neutral" or "reviewed"
  fixtures,  \* the loaded fixtures
  replay,    \* the hybrid replay in progress, or NoReplay
  runs,      \* the runs replayed: fixture by fixture, in the order of modes
  rows,      \* their scores
  handoffs,  \* the handoff runs, fixture by fixture, raw alarm first
  mode       \* the operating mode

vars == <<stage, refused, source, fixtures, replay, runs, rows, handoffs, mode>>

FixtureCount == Cardinality(Committed)

NoReplay == [round |-> 0]

Init ==
  /\ stage = "load" /\ refused = "no" /\ source \in {"neutral", "reviewed"}
  /\ fixtures = <<>> /\ replay = NoReplay /\ runs = <<>> /\ rows = <<>>
  /\ handoffs = <<>> /\ mode = "none"

Refuse == stage' = "done" /\ refused' = stage

Proceed(next) == stage' = next /\ UNCHANGED refused

(* load_manifest: a file may also be unreadable. *)
Load ==
  /\ stage = "load"
  /\ \E entries \in Manifests :
       \/ /\ ValidManifest(entries)
          /\ fixtures' = Fixtures(entries) /\ Proceed("matrix")
       \/ Refuse /\ UNCHANGED fixtures
  /\ UNCHANGED <<source, replay, runs, rows, handoffs, mode>>

(* The keys of the recordings: the neutral ones are made from fixtures, a  *)
(* caller may leave some out or give one that was recorded in another mode.*)
FixtureIds == {fixtures[i].fixture_id : i \in DOMAIN fixtures}

NeutralMatrix ==
  {[fixture_id |-> id, mode |-> m, recorded |-> m] :
     id \in FixtureIds, m \in Modes}

CheckMatrix ==
  /\ stage = "matrix"
  /\ \E matrix \in IF source = "neutral" THEN {NeutralMatrix}
                   ELSE SUBSET [fixture_id : FixtureIds, mode : Modes,
                                recorded : Modes] :
       IF MatrixMatches(fixtures, matrix, FixtureCount)
       THEN Proceed("replay") ELSE Refuse
  /\ UNCHANGED <<source, fixtures, replay, runs, rows, handoffs, mode>>

-----------------------------------------------------------------------------
(* OfflineEvaluationRunner.run_all.                                        *)

(* The next fixture and mode. *)
Current == Len(runs) \div 2 + 1

CurrentMode == IF Len(runs) % 2 = 0 THEN "snapshot_only" ELSE "hybrid_agent"

Recordings(f, m) ==
  IF source = "neutral" THEN {NeutralRecording(f, m)}
  ELSE {r \in Reviewed : ValidRecording(r) /\ r.mode = m}

Run(n, m, o, calls) ==
  [of |-> n, mode |-> m, investigation |-> o, calls |-> calls]

Finished(run) ==
  /\ runs' = Append(runs, run) /\ replay' = NoReplay
  /\ IF Len(runs) + 1 = 2 * Len(fixtures)
     THEN Proceed("score") ELSE UNCHANGED <<stage, refused>>
  /\ UNCHANGED <<source, fixtures, rows, handoffs, mode>>

(* snapshot_only: the recorded summary as it is. *)
ReplaySnapshot ==
  /\ stage = "replay" /\ replay = NoReplay
  /\ CurrentMode = "snapshot_only"
  /\ \E r \in Recordings(fixtures[Current], "snapshot_only") :
       Finished(Run(Current, "snapshot_only", r.final, <<>>))

(* hybrid_agent: the loop of the agent with a RecordedPlanner. *)
StartHybrid ==
  /\ stage = "replay" /\ replay = NoReplay
  /\ CurrentMode = "hybrid_agent"
  /\ \E r \in Recordings(fixtures[Current], "hybrid_agent") :
       replay' = [round |-> 1, recording |-> r, used |-> 0, batch |-> <<>>,
                  calls |-> <<>>]
  /\ UNCHANGED <<stage, refused, source, fixtures, runs, rows, handoffs, mode>>

(* The investigation of a hybrid run.  assert_exhausted refuses the report *)
(* when proposals are left over.                                           *)
Investigated(o, used) ==
  IF used = Len(replay.recording.proposals)
  THEN Finished(Run(Current, "hybrid_agent", o, replay.calls))
  ELSE /\ Refuse /\ replay' = NoReplay
       /\ UNCHANGED <<source, fixtures, runs, rows, handoffs, mode>>

Proposing ==
  /\ stage = "replay" /\ replay.round \in 1..MaxRounds /\ replay.batch = <<>>

(* RecordedPlanner.propose.  It raises when its proposals are exhausted,   *)
(* which the loop takes for a failed planner.                              *)
RaiseExhausted ==
  /\ Proposing
  /\ replay.used = Len(replay.recording.proposals)
  /\ Investigated(Unclassified, replay.used)

Propose ==
  /\ Proposing
  /\ replay.used < Len(replay.recording.proposals)
  /\ LET p == replay.recording.proposals[replay.used + 1]
         ok == AcceptableProposal(p, fixtures[Current], replay.calls)
     IN \/ ~ok /\ Investigated(Unclassified, replay.used + 1)
        \/ /\ ok /\ p.requests = <<>> /\ replay.calls = <<>>
           /\ Investigated(p.conclusion, replay.used + 1)
        \/ /\ ok /\ p.requests = <<>> /\ replay.calls # <<>>
           /\ replay' = [replay EXCEPT !.round = MaxRounds + 1, !.used = @ + 1]
           /\ UNCHANGED <<stage, refused, source, fixtures, runs, rows,
                          handoffs, mode>>
        \/ /\ ok /\ p.requests # <<>>
           /\ replay' = [replay EXCEPT !.batch = p.requests, !.used = @ + 1]
           /\ UNCHANGED <<stage, refused, source, fixtures, runs, rows,
                          handoffs, mode>>

(* The next request of the round: a result the fixture records, or a       *)
(* ToolDenied (the registry checks again, then asks the recorded handler)  *)
(* that ends the investigation with the results so far.                    *)
ExecuteRecorded ==
  /\ stage = "replay" /\ replay # NoReplay /\ replay.batch # <<>>
  /\ LET f == fixtures[Current]
         request == Head(replay.batch)
         seen == {replay.calls[i].key : i \in DOMAIN replay.calls}
         recorded == /\ Permitted(request, f, seen)
                     /\ request.key \in RecordedKeys(f)
     IN \/ /\ recorded
           /\ replay' = [replay EXCEPT
                !.batch = Tail(@),
                !.round = IF Len(replay.batch) = 1 THEN @ + 1 ELSE @,
                !.calls = Append(@, RecordedResult(f, request.key))]
           /\ UNCHANGED <<stage, refused, source, fixtures, runs, rows,
                          handoffs, mode>>
        \/ /\ ~recorded
           /\ Investigated(Unclassified, replay.used)

Summarizing == stage = "replay" /\ replay.round = MaxRounds + 1

(* _finalize: the recorded summary if it passes _validate_investigation.   *)
(* The mistake: it is taken as it is.                                      *)
SummarizeUnchecked ==
  /\ Summarizing
  /\ Investigated(replay.recording.final, replay.used)

Summarize ==
  /\ Summarizing
  /\ LET o == replay.recording.final
     IN \/ /\ Grounded(o, fixtures[Current], replay.calls)
           /\ Investigated(o, replay.used)
        \/ /\ ~Grounded(o, fixtures[Current], replay.calls)
           /\ Investigated(Unclassified, replay.used)

-----------------------------------------------------------------------------
(* What follows the replay.                                                *)

ScoreRuns ==
  /\ stage = "score"
  /\ IF \A i \in DOMAIN runs : Scorable(fixtures[runs[i].of], runs[i])
     THEN /\ rows' = [i \in DOMAIN runs |->
                        Score(fixtures[runs[i].of], runs[i])]
          /\ Proceed("compare")
     ELSE Refuse /\ UNCHANGED rows
  /\ UNCHANGED <<source, fixtures, replay, runs, handoffs, mode>>

CompareModes ==
  /\ stage = "compare"
  /\ IF Comparable(rows) THEN Proceed("handoff_matrix") ELSE Refuse
  /\ UNCHANGED <<source, fixtures, replay, runs, rows, handoffs, mode>>

(* The neutral recordings of all conditions are built before any is run. *)
CheckHandoffMatrix ==
  /\ stage = "handoff_matrix"
  /\ \/ /\ source = "neutral"
        /\ IF \A i \in DOMAIN fixtures, c \in Conditions :
                PromptBuilds(fixtures[i], c)
           THEN Proceed("handoff") ELSE Refuse
     \/ /\ source = "reviewed"
        /\ \E matrix \in SUBSET (FixtureIds \X Conditions) :
             IF HandoffMatrixMatches(fixtures, matrix, FixtureCount)
             THEN Proceed("handoff") ELSE Refuse
  /\ UNCHANGED <<source, fixtures, replay, runs, rows, handoffs, mode>>

(* Reviewed recordings of a condition were made for a fixture that could   *)
(* be loaded at the time.                                                  *)
HandoffRecordings(f, c) ==
  IF source = "neutral" THEN {NeutralHandoff(f, c)}
  ELSE {[provenance |-> Provenance(g, c, ModelId, PromptBudget), output |-> o] :
          g \in UNION {Elements(Fixtures(entries)) :
                        entries \in {m \in Manifests : ValidManifest(m)}},
          o \in ReviewedOutputs}

(* _run_condition for the next fixture and condition. *)
RunCondition ==
  /\ stage = "handoff"
  /\ LET f == fixtures[Len(handoffs) \div 2 + 1]
         c == IF Len(handoffs) % 2 = 0 THEN "raw_alarm" ELSE "incident_brief"
     IN \E r \in HandoffRecordings(f, c) :
          \/ /\ Replayable(f, c, r)
             /\ handoffs' = Append(handoffs, HandoffRun(f, c, r.output))
             /\ IF Len(handoffs) + 1 = 2 * Len(fixtures)
                THEN Proceed("select") ELSE UNCHANGED <<stage, refused>>
          \/ ~Replayable(f, c, r) /\ Refuse /\ UNCHANGED handoffs
  /\ UNCHANGED <<source, fixtures, replay, runs, rows, mode>>

SelectOperatingMode ==
  /\ stage = "select"
  /\ mode' = SelectMode(Compare(rows)) /\ Proceed("done")
  /\ UNCHANGED <<source, fixtures, replay, runs, rows, handoffs>>

Ended == stage = "done" /\ UNCHANGED vars

Next ==
  \/ Load \/ CheckMatrix
  \/ ReplaySnapshot \/ StartHybrid \/ RaiseExhausted \/ Propose
  \/ ExecuteRecorded \/ Summarize
  \/ ScoreRuns \/ CompareModes \/ CheckHandoffMatrix \/ RunCondition
  \/ SelectOperatingMode \/ Ended

Spec == Init /\ [][Next]_vars

-----------------------------------------------------------------------------
(* What a report may rely on.                                              *)

(* Fixtures whose handoff prompts can be built. *)
Promptable == \A i \in DOMAIN fixtures, c \in Conditions :
                PromptBuilds(fixtures[i], c)

(* The loader and the agent loop admit only what the scorer accepts: a     *)
(* report is never refused at scoring, at the comparison only for fixtures *)
(* that are not the committed ones or not guarded as listed, and the       *)
(* neutral one later only for a fixture whose prompts cannot be built.     *)
ScoringAcceptsReplays ==
  /\ refused # "score"
  /\ refused = "compare" =>
       \/ FixtureIds # Committed
       \/ \E i \in DOMAIN fixtures :
            (fixtures[i].fixture_id \in Guarded)
              # (fixtures[i].expected.classification = "unclassified")
  /\ source = "neutral" =>
       /\ refused # "replay"
       /\ refused \in {"handoff_matrix", "handoff"} => ~Promptable

(* However a recording misbehaves, a hybrid run makes no claim that the    *)
(* scorer counts as unsupported: its Evidence is in the Snapshot or in the *)
(* Tool results the run itself carries.                                    *)
HybridSupported ==
  \A i \in DOMAIN runs :
    runs[i].mode = "hybrid_agent" =>
      UnsupportedClaims(fixtures[runs[i].of], runs[i]) = {}

(* hybrid_agent is selected exactly when every reason the report prints    *)
(* has passed, and then it finds the right direction for two fixtures at   *)
(* least that snapshot_only misses, and keeps as many guarded fixtures     *)
(* unclassified.                                                           *)
Right(m) ==
  {i \in DOMAIN fixtures :
     \E k \in DOMAIN runs :
       /\ runs[k].of = i /\ runs[k].mode = m
       /\ CorrectDirection(fixtures[i], runs[k])}

KeptUnclassified(m) ==
  {k \in DOMAIN runs :
     /\ runs[k].mode = m
     /\ fixtures[runs[k].of].fixture_id \in Guarded
     /\ runs[k].investigation.classification = "unclassified"}

PromotedOnlyIfBetter ==
  mode # "none" =>
    LET reasons == GateReasons(Compare(rows))
    IN /\ mode = "hybrid_agent" <=> \A name \in DOMAIN reasons : reasons[name]
       /\ mode = "hybrid_agent" =>
            /\ \E a, b \in Right("hybrid_agent") \ Right("snapshot_only") :
                 a # b
            /\ Cardinality(KeptUnclassified("hybrid_agent"))
                 >= Cardinality(KeptUnclassified("snapshot_only"))

(* The report of the neutral recordings compares two equal sides: it never *)
(* promotes hybrid_agent, and claims nothing about any cause.              *)
NeutralNeverPromotes ==
  source = "neutral" =>
    /\ mode # "hybrid_agent"
    /\ \A i, j \in DOMAIN rows :
         rows[i].fixture_id = rows[j].fixture_id =>
           [rows[i] EXCEPT !.mode = rows[j].mode] = rows[j]
    /\ \A i \in DOMAIN rows : rows[i].guarded = rows[i].kept

(* A session that starts from the raw alarm has no Evidence that a Tool    *)
(* request could cite: it calls none, and all it claims is unsupported.    *)
RawAlarmSeesNothing ==
  \A i \in DOMAIN handoffs :
    handoffs[i].condition = "raw_alarm" =>
      handoffs[i].tool_calls = 0 /\ handoffs[i].unsupported = handoffs[i].claims
=============================================================================

---------------------- MODULE OfflineEvaluationProofs -----------------------
(***************************************************************************)
(* Theorems of OfflineEvaluation for any fixtures, recordings and budgets. *)
(***************************************************************************)
EXTENDS OfflineEvaluation, FiniteSetTheorems, TLAPS

-----------------------------------------------------------------------------
(* Appending to a sequence whose elements are not typed otherwise.         *)

IsSeq(s) == s \in Seq(Elements(s))

LEMMA AppendedSeq ==
  ASSUME NEW s, IsSeq(s), NEW e
  PROVE  /\ IsSeq(Append(s, e))
         /\ Len(Append(s, e)) = Len(s) + 1
         /\ DOMAIN Append(s, e) = 1..(Len(s) + 1)
         /\ \A i \in 1..Len(s) : Append(s, e)[i] = s[i]
         /\ Append(s, e)[Len(s) + 1] = e
<1> DEFINE S == Elements(s) \cup {e}
<1>1. s \in Seq(S) /\ e \in S /\ Len(s) \in Nat
  BY DEF IsSeq
<1>2. Append(s, e) \in Seq(S)
  BY <1>1
<1>3. /\ Len(Append(s, e)) = Len(s) + 1
      /\ DOMAIN Append(s, e) = 1..(Len(s) + 1)
      /\ \A i \in 1..Len(s) : Append(s, e)[i] = s[i]
      /\ Append(s, e)[Len(s) + 1] = e
  BY <1>1
<1>4. \A i \in 1..Len(Append(s, e)) :
        Append(s, e)[i] \in Elements(Append(s, e))
  BY <1>3 DEF Elements
<1>5. IsSeq(Append(s, e))
  BY <1>2, <1>4 DEF IsSeq
<1> QED BY <1>3, <1>5

LEMMA EmptySeq == IsSeq(<<>>)
  BY DEF IsSeq, Elements

-----------------------------------------------------------------------------
(* The hybrid runs.                                                        *)

(* What the agent loop admits, the scorer finds supported.                 *)
LEMMA GroundedIsSupported ==
  ASSUME NEW f, NEW run, Grounded(run.investigation, f, run.calls)
  PROVE  UnsupportedClaims(f, run) = {}
<1> DEFINE o == run.investigation
           ids == IdsIn(EvidenceLists(f, run.calls))
<1>1. ASSUME NEW cites, CitesAvailable(cites, f, run.calls)
      PROVE  ~UnsupportedStatement(cites, ids)
  BY <1>1 DEF CitesAvailable, UnsupportedStatement, Available, Elements
<1>2. \A i \in DOMAIN o.facts : ~UnsupportedStatement(o.facts[i], ids)
  BY <1>1 DEF Grounded
<1>3. \A i \in DOMAIN o.directions :
        ~UnsupportedStatement(o.directions[i].cites, ids)
  BY <1>1 DEF Grounded
<1>4. ~UnsupportedClassification(o, ids)
  <2>1. CASE o.grounds = <<>>
    BY <2>1 DEF Grounded, UnsupportedClassification, Distinct
  <2>2. CASE o.grounds # <<>>
    BY <2>2 DEF Grounded, CitesAvailable, UnsupportedClassification,
                Available, Elements
  <2> QED BY <2>1, <2>2
<1> QED BY <1>2, <1>3, <1>4 DEF UnsupportedClaims

LEMMA UnclassifiedGrounded ==
  ASSUME NEW f, NEW calls PROVE Grounded(Unclassified, f, calls)
  BY DEF Grounded, Unclassified

(* Every hybrid run is grounded in its own calls, and no run precedes the  *)
(* fixtures.                                                               *)
RunsInv ==
  /\ IsSeq(runs)
  /\ stage = "load" => runs = <<>>
  /\ \A i \in DOMAIN runs :
       runs[i].mode = "hybrid_agent" =>
         Grounded(runs[i].investigation, fixtures[runs[i].of], runs[i].calls)

LEMMA FinishedKeeps ==
  ASSUME RunsInv, stage = "replay", NEW run, Finished(run),
         run.mode = "hybrid_agent" =>
           Grounded(run.investigation, fixtures[run.of], run.calls)
  PROVE  RunsInv'
<1>1. runs' = Append(runs, run) /\ fixtures' = fixtures /\ stage' # "load"
  BY DEF Finished, Proceed
<1>2. IsSeq(runs) /\ DOMAIN runs = 1..Len(runs) /\ Len(runs) \in Nat
  BY DEF RunsInv, IsSeq
<1>3. /\ IsSeq(runs') /\ DOMAIN runs' = 1..(Len(runs) + 1)
      /\ \A i \in 1..Len(runs) : runs'[i] = runs[i]
      /\ runs'[Len(runs) + 1] = run
  BY <1>1, <1>2, AppendedSeq
<1>4. ASSUME NEW i \in DOMAIN runs', runs'[i].mode = "hybrid_agent"
      PROVE  Grounded(runs'[i].investigation, fixtures'[runs'[i].of],
                      runs'[i].calls)
  <2>1. CASE i = Len(runs) + 1
    BY <1>1, <1>3, <1>4, <2>1
  <2>2. CASE i # Len(runs) + 1
    <3>1. i \in 1..Len(runs)
      BY <1>2, <1>3, <2>2
    <3> QED BY <1>1, <1>2, <1>3, <1>4, <3>1 DEF RunsInv
  <2> QED BY <2>1, <2>2
<1> QED BY <1>1, <1>3, <1>4 DEF RunsInv

LEMMA InvestigatedKeeps ==
  ASSUME RunsInv, stage = "replay", NEW o, NEW used, Investigated(o, used),
         Grounded(o, fixtures[Current], replay.calls)
  PROVE  RunsInv'
<1> DEFINE run == Run(Current, "hybrid_agent", o, replay.calls)
<1>1. CASE used = Len(replay.recording.proposals)
  <2>1. Finished(run)
    BY <1>1 DEF Investigated
  <2>2. Grounded(run.investigation, fixtures[run.of], run.calls)
    BY DEF Run
  <2> HIDE DEF run
  <2> QED BY <2>1, <2>2, FinishedKeeps
<1>2. CASE used # Len(replay.recording.proposals)
  <2>1. UNCHANGED <<runs, fixtures>> /\ stage' = "done"
    BY <1>2 DEF Investigated, Refuse
  <2> QED BY <2>1 DEF RunsInv
<1> QED BY <1>1, <1>2

LEMMA RunsInvStep == RunsInv /\ [Next]_vars => RunsInv'
<1> SUFFICES ASSUME RunsInv, [Next]_vars PROVE RunsInv'
  OBVIOUS
<1>1. CASE Load
  <2>1. runs' = runs /\ stage = "load"
    BY <1>1 DEF Load
  <2> QED BY <2>1, EmptySeq DEF RunsInv
<1>2. CASE ReplaySnapshot
  <2>1. PICK r : Finished(Run(Current, "snapshot_only", r.final, <<>>))
    BY <1>2 DEF ReplaySnapshot
  <2> DEFINE run == Run(Current, "snapshot_only", r.final, <<>>)
  <2>2. Finished(run) /\ run.mode # "hybrid_agent"
    BY <2>1 DEF Run
  <2>3. stage = "replay"
    BY <1>2 DEF ReplaySnapshot
  <2> HIDE DEF run
  <2> QED BY <2>2, <2>3, FinishedKeeps
<1>3. CASE RaiseExhausted
  BY <1>3, UnclassifiedGrounded, InvestigatedKeeps
     DEF RaiseExhausted, Proposing
<1>4. CASE Propose
  <2> DEFINE p == replay.recording.proposals[replay.used + 1]
             ok == AcceptableProposal(p, fixtures[Current], replay.calls)
  <2>1. stage = "replay"
    BY <1>4 DEF Propose, Proposing
  <2>2. CASE Investigated(Unclassified, replay.used + 1)
    BY <2>1, <2>2, UnclassifiedGrounded, InvestigatedKeeps
  <2>3. CASE ok /\ Investigated(p.conclusion, replay.used + 1)
    <3>1. Grounded(p.conclusion, fixtures[Current], replay.calls)
      BY <2>3 DEF AcceptableProposal
    <3> QED BY <2>1, <2>3, <3>1, InvestigatedKeeps
  <2>4. CASE UNCHANGED <<stage, refused, source, fixtures, runs, rows,
                         handoffs, mode>>
    BY <2>4 DEF RunsInv
  <2> QED BY <1>4, <2>2, <2>3, <2>4 DEF Propose
<1>5. CASE ExecuteRecorded
  <2>1. stage = "replay"
    BY <1>5 DEF ExecuteRecorded
  <2>2. CASE Investigated(Unclassified, replay.used)
    BY <2>1, <2>2, UnclassifiedGrounded, InvestigatedKeeps
  <2>3. CASE UNCHANGED <<stage, refused, source, fixtures, runs, rows,
                         handoffs, mode>>
    BY <2>3 DEF RunsInv
  <2> QED BY <1>5, <2>2, <2>3 DEF ExecuteRecorded
<1>6. CASE Summarize
  <2>1. stage = "replay"
    BY <1>6 DEF Summarize, Summarizing
  <2> QED BY <1>6, <2>1, UnclassifiedGrounded, InvestigatedKeeps DEF Summarize
<1>7. CASE CheckMatrix \/ StartHybrid \/ ScoreRuns \/ CompareModes
           \/ CheckHandoffMatrix \/ RunCondition \/ SelectOperatingMode
           \/ Ended \/ UNCHANGED vars
  <2>1. UNCHANGED <<runs, fixtures>>
    BY <1>7 DEF CheckMatrix, StartHybrid, ScoreRuns, CompareModes,
                CheckHandoffMatrix, RunCondition, SelectOperatingMode, Ended,
                vars
  <2>2. stage' = "load" => stage = "load"
    BY <1>7 DEF CheckMatrix, StartHybrid, ScoreRuns, CompareModes,
                CheckHandoffMatrix, RunCondition, SelectOperatingMode, Ended,
                Proceed, Refuse, vars
  <2> QED BY <2>1, <2>2 DEF RunsInv
<1> QED BY <1>1, <1>2, <1>3, <1>4, <1>5, <1>6, <1>7 DEF Next

(* Every hybrid run of a replay is free of unsupported claims: what the    *)
(* loop admits is what the scorer accepts, for any recording.              *)
THEOREM HybridRunsSupported == Spec => []HybridSupported
<1>1. Init => RunsInv
  BY EmptySeq DEF Init, RunsInv
<1>2. RunsInv => HybridSupported
  BY GroundedIsSupported DEF RunsInv, HybridSupported
<1> QED BY <1>1, <1>2, RunsInvStep, PTL DEF Spec

-----------------------------------------------------------------------------
(* The handoff from the raw alarm.                                         *)

LEMMA OutputTypes ==
  ASSUME NEW f, NEW r \in HandoffRecordings(f, "raw_alarm")
  PROVE  /\ r.output.requests \in Seq([key : STRING, cited : STRING])
         /\ r.output.claims \in Seq(Seq(STRING))
<1>1. CASE source = "neutral"
  <2>1. r = NeutralHandoff(f, "raw_alarm")
    <3> DEFINE given == HandoffRecordings(f, "raw_alarm")
    <3>1. given = {NeutralHandoff(f, "raw_alarm")}
      BY <1>1 DEF HandoffRecordings
    <3> QED BY <3>1
  <2>2. r.output.requests = <<>> /\ r.output.claims = <<>>
    BY <2>1 DEF NeutralHandoff
  <2> QED BY <2>2
<1>2. CASE source # "neutral"
  <2>1. r.output \in ReviewedOutputs
    BY <1>2 DEF HandoffRecordings
  <2> QED BY <2>1, EvaluationAssumption
<1> QED BY <1>1, <1>2

(* Without visible Evidence no request can be accepted, and no claim       *)
(* supported.                                                              *)
LEMMA RawAlarmRun ==
  ASSUME NEW f, NEW r \in HandoffRecordings(f, "raw_alarm"),
         Replayable(f, "raw_alarm", r)
  PROVE  LET run == HandoffRun(f, "raw_alarm", r.output)
         IN run.tool_calls = 0 /\ run.unsupported = run.claims
<1> DEFINE requests == r.output.requests
           claims == r.output.claims
           available ==
             AvailableBefore(f, "raw_alarm", requests, Len(requests) + 1)
<1>1. /\ requests \in Seq([key : STRING, cited : STRING])
      /\ claims \in Seq(Seq(STRING))
  BY OutputTypes
<1>2. AvailableBefore(f, "raw_alarm", requests, 1) = {}
  <2>1. 1..(1 - 1) = {}
    OBVIOUS
  <2> QED BY <2>1 DEF AvailableBefore, Visible
<1>3. Len(requests) = 0
  <2>1. ASSUME Len(requests) # 0 PROVE FALSE
    <3>1. 1 \in DOMAIN requests
      BY <1>1, <2>1
    <3>2. requests[1].cited \in AvailableBefore(f, "raw_alarm", requests, 1)
      BY <3>1 DEF Replayable, ToolsExecute
    <3> QED BY <1>2, <3>2
  <2> QED BY <2>1
<1>4. available = {}
  BY <1>2, <1>3
<1>5. UnsupportedHandoff(claims, available) = 1..Len(claims)
  <2>1. ASSUME NEW i \in DOMAIN claims
        PROVE  claims[i] = <<>> \/ ~(Elements(claims[i]) \subseteq available)
    <3>1. claims[i] \in Seq(STRING)
      BY <1>1
    <3>2. CASE Len(claims[i]) = 0
      BY <3>1, <3>2
    <3>3. CASE Len(claims[i]) # 0
      <4>1. claims[i][1] \in Elements(claims[i])
        BY <3>1, <3>3 DEF Elements
      <4> QED BY <1>4, <4>1
    <3> QED BY <3>2, <3>3
  <2>2. DOMAIN claims = 1..Len(claims)
    BY <1>1
  <2> HIDE DEF claims, available
  <2> QED BY <2>1, <2>2 DEF UnsupportedHandoff
<1>6. Cardinality(1..Len(claims)) = Len(claims)
  <2>1. Len(claims) \in Nat
    BY <1>1
  <2>2. Cardinality(1..Len(claims)) = IF 1 > Len(claims) THEN 0
                                      ELSE Len(claims) - 1 + 1
    BY <2>1, FS_Interval
  <2> QED BY <2>1, <2>2
<1> QED BY <1>3, <1>5, <1>6 DEF HandoffRun

HandoffInv == IsSeq(handoffs) /\ RawAlarmSeesNothing

LEMMA HandoffInvStep == HandoffInv /\ [Next]_vars => HandoffInv'
<1> SUFFICES ASSUME HandoffInv, [Next]_vars PROVE HandoffInv'
  OBVIOUS
<1>1. CASE RunCondition
  <2> DEFINE f == fixtures[Len(handoffs) \div 2 + 1]
             c == IF Len(handoffs) % 2 = 0 THEN "raw_alarm"
                  ELSE "incident_brief"
  <2>1. CASE UNCHANGED handoffs
    BY <2>1 DEF HandoffInv, RawAlarmSeesNothing
  <2>2. CASE handoffs' # handoffs
    <3>1. PICK r \in HandoffRecordings(f, c) :
            /\ Replayable(f, c, r)
            /\ handoffs' = Append(handoffs, HandoffRun(f, c, r.output))
      BY <1>1, <2>2 DEF RunCondition
    <3> DEFINE run == HandoffRun(f, c, r.output)
    <3>2. run.condition = c
      BY DEF HandoffRun
    <3>3. c = "raw_alarm" => run.tool_calls = 0 /\ run.unsupported = run.claims
      BY <3>1, RawAlarmRun
    <3>4. IsSeq(handoffs) /\ DOMAIN handoffs = 1..Len(handoffs)
      BY DEF HandoffInv, IsSeq
    <3> HIDE DEF run, c, f
    <3>5. handoffs' = Append(handoffs, run)
      BY <3>1 DEF run
    <3>6. /\ IsSeq(handoffs') /\ DOMAIN handoffs' = 1..(Len(handoffs) + 1)
          /\ \A i \in 1..Len(handoffs) : handoffs'[i] = handoffs[i]
          /\ handoffs'[Len(handoffs) + 1] = run
      BY <3>4, <3>5, AppendedSeq
    <3>7. ASSUME NEW i \in DOMAIN handoffs',
                 handoffs'[i].condition = "raw_alarm"
          PROVE  /\ handoffs'[i].tool_calls = 0
                 /\ handoffs'[i].unsupported = handoffs'[i].claims
      <4>1. CASE i = Len(handoffs) + 1
        BY <3>2, <3>3, <3>6, <3>7, <4>1
      <4>2. CASE i # Len(handoffs) + 1
        <5>1. i \in 1..Len(handoffs) /\ Len(handoffs) \in Nat
          BY <3>4, <3>6, <4>2 DEF IsSeq
        <5> QED BY <3>4, <3>6, <3>7, <5>1 DEF HandoffInv, RawAlarmSeesNothing
      <4> QED BY <4>1, <4>2
    <3> QED BY <3>6, <3>7 DEF HandoffInv, RawAlarmSeesNothing
  <2> QED BY <2>1, <2>2
<1>2. CASE UNCHANGED handoffs
  BY <1>2 DEF HandoffInv, RawAlarmSeesNothing
<1>3. Next => RunCondition \/ UNCHANGED handoffs
  BY DEF Next, Load, CheckMatrix, ReplaySnapshot, StartHybrid, RaiseExhausted,
         Propose, ExecuteRecorded, Summarize, ScoreRuns, CompareModes,
         CheckHandoffMatrix, SelectOperatingMode, Ended, Investigated,
         Finished, vars
<1>4. UNCHANGED vars => UNCHANGED handoffs
  BY DEF vars
<1> QED BY <1>1, <1>2, <1>3, <1>4

(* A handoff from the raw alarm never executes a Tool and never makes a    *)
(* supported claim, whatever was recorded for it.                          *)
THEOREM RawAlarmIsBlind == Spec => []RawAlarmSeesNothing
<1>1. Init => HandoffInv
  BY EmptySeq DEF Init, HandoffInv, RawAlarmSeesNothing
<1>2. HandoffInv => RawAlarmSeesNothing
  BY DEF HandoffInv
<1> QED BY <1>1, <1>2, HandoffInvStep, PTL DEF Spec

-----------------------------------------------------------------------------
(* The gate.                                                               *)

(* The place of a run tells its fixture and its mode. *)
Placed(k, run) ==
  /\ run.of \in Nat \ {0}
  /\ \/ run.mode = "snapshot_only" /\ k = 2 * run.of - 1
     \/ run.mode = "hybrid_agent" /\ k = 2 * run.of

Scored == rows = [k \in DOMAIN runs |-> Score(fixtures[runs[k].of], runs[k])]

GateInv ==
  /\ IsSeq(runs) /\ IsSeq(fixtures)
  /\ \A k \in DOMAIN runs : Placed(k, runs[k])
  /\ stage \in {"load", "matrix"} => runs = <<>>
  /\ stage = "replay" => Len(runs) < 2 * Len(fixtures)
  /\ Len(runs) <= 2 * Len(fixtures)
  /\ replay # NoReplay => stage = "replay" /\ CurrentMode = "hybrid_agent"
  /\ stage \in {"compare", "handoff_matrix", "handoff", "select"} => Scored
  /\ stage \in {"handoff_matrix", "handoff", "select"} => Comparable(rows)
  /\ mode # "none" =>
       /\ stage = "done"
       /\ Scored /\ Comparable(rows) /\ mode = SelectMode(Compare(rows))

LEMMA Halves ==
  ASSUME NEW n \in Nat
  PROVE  /\ n \div 2 \in Nat
         /\ n % 2 = 0 => n + 1 = 2 * (n \div 2 + 1) - 1
         /\ n % 2 # 0 => n + 1 = 2 * (n \div 2 + 1)
  OBVIOUS

LEMMA CurrentPlaced ==
  ASSUME IsSeq(runs), NEW m, NEW o, NEW calls, m = CurrentMode
  PROVE  Placed(Len(runs) + 1, Run(Current, m, o, calls))
<1>1. Len(runs) \in Nat
  BY DEF IsSeq
<1> QED BY <1>1, Halves DEF Placed, Run, Current, CurrentMode

LEMMA GateFinished ==
  ASSUME GateInv, stage = "replay", NEW run, Placed(Len(runs) + 1, run),
         Finished(run)
  PROVE  GateInv'
<1>1. /\ runs' = Append(runs, run) /\ UNCHANGED <<fixtures, rows, mode>>
      /\ replay' = NoReplay /\ NoReplay' = NoReplay
      /\ IF Len(runs) + 1 = 2 * Len(fixtures)
         THEN stage' = "score" ELSE stage' = "replay"
  BY DEF Finished, Proceed, NoReplay
<1>2. /\ IsSeq(runs) /\ DOMAIN runs = 1..Len(runs) /\ Len(runs) \in Nat
      /\ IsSeq(fixtures) /\ Len(fixtures) \in Nat
  BY DEF GateInv, IsSeq
<1>3. /\ IsSeq(runs') /\ Len(runs') = Len(runs) + 1
      /\ DOMAIN runs' = 1..(Len(runs) + 1)
      /\ \A i \in 1..Len(runs) : runs'[i] = runs[i]
      /\ runs'[Len(runs) + 1] = run
  BY <1>1, <1>2, AppendedSeq
<1>4. \A k \in DOMAIN runs' : Placed(k, runs'[k])
  <2> SUFFICES ASSUME NEW k \in DOMAIN runs' PROVE Placed(k, runs'[k])
    OBVIOUS
  <2>1. CASE k = Len(runs) + 1
    BY <1>3, <2>1
  <2>2. CASE k # Len(runs) + 1
    <3>1. k \in 1..Len(runs)
      BY <1>2, <1>3, <2>2
    <3> QED BY <1>2, <1>3, <3>1 DEF GateInv
  <2> QED BY <2>1, <2>2
<1>5. /\ Len(runs') <= 2 * Len(fixtures)
      /\ stage' = "replay" => Len(runs') < 2 * Len(fixtures)
  BY <1>1, <1>2, <1>3 DEF GateInv
<1>6. mode' = "none" /\ stage' \in {"score", "replay"}
  BY <1>1 DEF GateInv
<1> QED BY <1>1, <1>2, <1>3, <1>4, <1>5, <1>6 DEF GateInv

LEMMA GateInvestigated ==
  ASSUME GateInv, stage = "replay", CurrentMode = "hybrid_agent",
         NEW o, NEW used, Investigated(o, used)
  PROVE  GateInv'
<1> DEFINE run == Run(Current, "hybrid_agent", o, replay.calls)
<1>1. Placed(Len(runs) + 1, run)
  BY CurrentPlaced DEF GateInv
<1>2. CASE Finished(run)
  <2> HIDE DEF run
  <2> QED BY <1>1, <1>2, GateFinished
<1>3. CASE /\ Refuse
           /\ replay' = NoReplay
           /\ UNCHANGED <<source, fixtures, runs, rows, handoffs, mode>>
  <2>1. stage' = "done" /\ mode = "none"
    BY <1>3 DEF Refuse, GateInv
  <2>2. replay' = NoReplay /\ NoReplay' = NoReplay
    BY <1>3 DEF NoReplay
  <2> QED BY <1>3, <2>1, <2>2 DEF GateInv
<1> QED BY <1>2, <1>3 DEF Investigated

LEMMA CountPositive == FixtureCount \in Nat \ {0}
  BY EvaluationAssumption, FS_CardinalityType, FS_EmptySet DEF FixtureCount

(* Steps that leave the runs alone, and the place of the replay. *)
LEMMA GateQuiet ==
  ASSUME GateInv, UNCHANGED <<runs, fixtures, mode>>, mode = "none",
         replay' = replay \/ (stage' = "replay" /\ stage = "replay"
                                /\ CurrentMode = "hybrid_agent"),
         stage' = stage \/ replay' = NoReplay,
         stage' \in {"load", "matrix"} => runs = <<>>,
         stage' = "replay" => Len(runs) < 2 * Len(fixtures),
         stage' \in {"compare", "handoff_matrix", "handoff", "select"} =>
           Scored',
         stage' \in {"handoff_matrix", "handoff", "select"} => Comparable(rows')
  PROVE  GateInv'
<1>1. CurrentMode' = CurrentMode /\ NoReplay' = NoReplay
  BY DEF CurrentMode, NoReplay
<1> QED BY <1>1 DEF GateInv

LEMMA GateInvStep == GateInv /\ [Next]_vars => GateInv'
<1> SUFFICES ASSUME GateInv, [Next]_vars PROVE GateInv'
  OBVIOUS
<1> USE BudgetAssumption
<1>1. CASE Load
  <2>1. /\ runs = <<>> /\ runs' = runs /\ mode' = mode /\ mode = "none"
        /\ replay = NoReplay /\ replay' = NoReplay /\ NoReplay' = NoReplay
    BY <1>1 DEF Load, GateInv, NoReplay
  <2>2. CASE UNCHANGED fixtures /\ stage' = "done"
    BY <2>1, <2>2 DEF GateInv
  <2>3. CASE stage' = "matrix"
    <3>1. PICK entries \in Manifests : fixtures' = Fixtures(entries)
      BY <1>1, <2>3 DEF Load, Refuse
    <3>2. entries \in Seq(Elements(entries))
      BY EvaluationAssumption
    <3>3. IsSeq(fixtures') /\ Len(fixtures') \in Nat
      BY <3>1, <3>2 DEF IsSeq, Fixtures, Elements
    <3>4. DOMAIN runs' = {} /\ Len(runs') = 0
      BY <2>1
    <3> QED BY <2>1, <2>3, <3>3, <3>4, EmptySeq DEF GateInv
  <2> QED BY <1>1, <2>2, <2>3 DEF Load, Proceed, Refuse
<1>2. CASE CheckMatrix
  <2>1. /\ UNCHANGED <<fixtures, runs, rows, mode, replay>>
        /\ mode = "none" /\ replay = NoReplay /\ runs = <<>>
    BY <1>2 DEF CheckMatrix, GateInv
  <2>2. \/ stage' = "done"
        \/ stage' = "replay" /\ Len(fixtures) = FixtureCount
    BY <1>2 DEF CheckMatrix, MatrixMatches, Proceed, Refuse
  <2>3. Len(runs) = 0
    BY <2>1
  <2> QED BY <2>1, <2>2, <2>3, CountPositive, GateQuiet
<1>3. CASE ReplaySnapshot
  <2>1. PICK r : Finished(Run(Current, "snapshot_only", r.final, <<>>))
    BY <1>3 DEF ReplaySnapshot
  <2> DEFINE run == Run(Current, "snapshot_only", r.final, <<>>)
  <2>2. Placed(Len(runs) + 1, run) /\ stage = "replay"
    BY <1>3, CurrentPlaced DEF GateInv, ReplaySnapshot
  <2>3. Finished(run)
    BY <2>1
  <2> HIDE DEF run
  <2> QED BY <2>2, <2>3, GateFinished
<1>4. CASE StartHybrid
  BY <1>4, GateQuiet DEF StartHybrid, GateInv
<1>5. CASE RaiseExhausted \/ Propose \/ ExecuteRecorded \/ Summarize
  <2>1. stage = "replay" /\ replay # NoReplay
    BY <1>5 DEF RaiseExhausted, Propose, ExecuteRecorded, Summarize, Proposing,
                Summarizing, NoReplay
  <2>2. CurrentMode = "hybrid_agent"
    BY <2>1 DEF GateInv
  <2>3. CASE \E o, used : Investigated(o, used)
    BY <2>1, <2>2, <2>3, GateInvestigated
  <2>4. CASE UNCHANGED <<stage, refused, source, fixtures, runs, rows,
                         handoffs, mode>>
    BY <2>1, <2>2, <2>4, GateQuiet DEF GateInv
  <2> QED BY <1>5, <2>3, <2>4 DEF RaiseExhausted, Propose, ExecuteRecorded,
                                  Summarize
<1>6. CASE ScoreRuns
  <2>1. /\ UNCHANGED <<fixtures, runs, mode, replay>>
        /\ mode = "none" /\ replay = NoReplay
    BY <1>6 DEF ScoreRuns, GateInv
  <2>2. stage' = "done" \/ (stage' = "compare" /\ Scored')
    BY <1>6, <2>1 DEF ScoreRuns, Scored, Proceed, Refuse
  <2> QED BY <2>1, <2>2, GateQuiet
<1>7. CASE CompareModes
  <2>1. /\ UNCHANGED <<fixtures, runs, rows, mode, replay>>
        /\ mode = "none" /\ replay = NoReplay /\ Scored
    BY <1>7 DEF CompareModes, GateInv
  <2>2. Scored' /\ (stage' = "done" \/ (stage' = "handoff_matrix"
                                          /\ Comparable(rows')))
    BY <1>7, <2>1 DEF CompareModes, Scored, Proceed, Refuse
  <2> QED BY <2>1, <2>2, GateQuiet
<1>8. CASE CheckHandoffMatrix \/ RunCondition
  <2>1. /\ UNCHANGED <<fixtures, runs, rows, mode, replay>>
        /\ mode = "none" /\ replay = NoReplay /\ Scored /\ Comparable(rows)
    BY <1>8 DEF CheckHandoffMatrix, RunCondition, GateInv
  <2>2. Scored' /\ Comparable(rows')
    BY <2>1 DEF Scored
  <2>3. stage' \in {"done", "handoff", "select"}
    BY <1>8 DEF CheckHandoffMatrix, RunCondition, Proceed, Refuse
  <2> QED BY <2>1, <2>2, <2>3, GateQuiet
<1>9. CASE SelectOperatingMode
  <2>1. /\ UNCHANGED <<fixtures, runs, rows, replay>>
        /\ replay = NoReplay /\ NoReplay' = NoReplay
        /\ Scored /\ Comparable(rows)
        /\ stage' = "done" /\ mode' = SelectMode(Compare(rows))
    BY <1>9 DEF SelectOperatingMode, GateInv, Proceed, NoReplay
  <2>2. Scored' /\ Comparable(rows') /\ mode' = SelectMode(Compare(rows'))
    BY <2>1 DEF Scored
  <2> QED BY <2>1, <2>2 DEF GateInv
<1>10. CASE Ended \/ UNCHANGED vars
  <2>1. UNCHANGED vars /\ CurrentMode' = CurrentMode /\ NoReplay' = NoReplay
    BY <1>10 DEF Ended, vars, CurrentMode, NoReplay
  <2>2. Scored' = Scored
    BY <2>1 DEF Scored, vars
  <2> QED BY <2>1, <2>2 DEF GateInv, vars
<1> QED BY <1>1, <1>2, <1>3, <1>4, <1>5, <1>6, <1>7, <1>8, <1>9, <1>10 DEF Next

-----------------------------------------------------------------------------
(* What a promotion means.                                                 *)

(* The runs of a mode, and those of them that name a right direction.      *)
RunsOf(m) == {k \in DOMAIN runs : runs[k].mode = m}

RightRuns(m) ==
  {k \in RunsOf(m) : CorrectDirection(fixtures[runs[k].of], runs[k])}

LEMMA RowsMirrorRuns ==
  ASSUME GateInv, Scored, Comparable(rows), NEW m
  PROVE  /\ Compare(rows)["hybrid_agent"] = Aggregate("hybrid_agent", rows)
         /\ Compare(rows)["snapshot_only"] = Aggregate("snapshot_only", rows)
         /\ Aggregate(m, rows).correct = Cardinality(RightRuns(m))
         /\ Aggregate(m, rows).kept = Cardinality(KeptUnclassified(m))
<1>1. DOMAIN rows = DOMAIN runs
  BY DEF Scored
<1>2. ASSUME NEW k \in DOMAIN runs
      PROVE  /\ rows[k].mode = runs[k].mode
             /\ rows[k].correct = CorrectDirection(fixtures[runs[k].of], runs[k])
             /\ rows[k].fixture_id = fixtures[runs[k].of].fixture_id
             /\ rows[k].guarded =
                  (fixtures[runs[k].of].expected.classification = "unclassified")
             /\ rows[k].kept <=>
                  /\ fixtures[runs[k].of].expected.classification
                       = "unclassified"
                  /\ runs[k].investigation.classification = "unclassified"
  <2>1. rows[k] = Score(fixtures[runs[k].of], runs[k])
    BY DEF Scored
  <2> QED BY <2>1 DEF Score
<1>3. \A k \in DOMAIN rows : rows[k].guarded <=> rows[k].fixture_id \in Guarded
  BY DEF Comparable
<1>4. {k \in {j \in DOMAIN rows : rows[j].mode = m} : rows[k].correct}
        = RightRuns(m)
  BY <1>1, <1>2 DEF RightRuns, RunsOf
<1>5. {k \in {j \in DOMAIN rows : rows[j].mode = m} : rows[k].kept}
        = KeptUnclassified(m)
  BY <1>1, <1>2, <1>3 DEF KeptUnclassified
<1>6. /\ Aggregate(m, rows).correct = Cardinality(RightRuns(m))
      /\ Aggregate(m, rows).kept = Cardinality(KeptUnclassified(m))
  BY <1>4, <1>5 DEF Aggregate
<1>7. /\ Compare(rows)["hybrid_agent"] = Aggregate("hybrid_agent", rows)
      /\ Compare(rows)["snapshot_only"] = Aggregate("snapshot_only", rows)
  BY DEF Compare, Modes
<1> QED BY <1>6, <1>7

(* Two more than the successors of S cannot be covered by them. *)
LEMMA TwoLeft ==
  ASSUME NEW S, NEW T, IsFiniteSet(S), IsFiniteSet(T),
         S \subseteq Nat, T \subseteq Nat,
         Cardinality(T) >= Cardinality(S) + 2
  PROVE  \E p, q \in T : p # q /\ p - 1 \notin S /\ q - 1 \notin S
<1> DEFINE S1 == {k + 1 : k \in S}
           U == T \ S1
<1>1. IsFiniteSet(S1) /\ Cardinality(S1) <= Cardinality(S)
  <2> DEFINE g == [k \in S |-> k + 1]
  <2>1. g \in Surjection(S, S1)
    BY DEF Surjection
  <2> HIDE DEF g, S1
  <2> QED BY <2>1, FS_Surjection
<1>2. /\ Cardinality(S) \in Nat /\ Cardinality(T) \in Nat
      /\ Cardinality(S1) \in Nat
  BY <1>1, FS_CardinalityType
<1>3. IsFiniteSet(U) /\ Cardinality(U) = Cardinality(T) - Cardinality(T \cap S1)
  BY FS_Difference
<1>4. IsFiniteSet(T \cap S1) /\ Cardinality(T \cap S1) <= Cardinality(S1)
  BY <1>1, FS_Subset
<1>5. Cardinality(U) >= 2 /\ Cardinality(U) \in Nat
  <2>1. Cardinality(T \cap S1) \in Nat
    BY <1>4, FS_CardinalityType
  <2> HIDE DEF U, S1
  <2> QED BY <1>1, <1>2, <1>3, <1>4, <2>1
<1>6. PICK p \in U : TRUE
  <2>1. U # {}
    BY <1>5, FS_EmptySet
  <2> QED BY <2>1
<1>7. PICK q \in U : q # p
  <2>1. ASSUME U \subseteq {p} PROVE FALSE
    <3>1. U = {p}
      BY <1>6, <2>1
    <3>2. Cardinality(U) = 1
      BY <3>1, FS_Singleton
    <3> QED BY <1>5, <3>2
  <2> QED BY <2>1
<1>8. ASSUME NEW x \in U PROVE x - 1 \notin S
  <2> SUFFICES ASSUME x - 1 \in S PROVE FALSE
    OBVIOUS
  <2>1. (x - 1) + 1 \in S1 /\ (x - 1) + 1 = x
    OBVIOUS
  <2> QED BY <2>1
<1> QED BY <1>6, <1>7, <1>8

LEMMA GateReasonsAgree ==
  ASSUME NEW comparison
  PROVE  SelectMode(comparison) = "hybrid_agent" <=>
           \A name \in DOMAIN GateReasons(comparison) :
             GateReasons(comparison)[name]
<1> DEFINE R == GateReasons(comparison)
           H == comparison["hybrid_agent"]
           L == comparison["snapshot_only"]
<1>1. DOMAIN R = {"unsupported_claims_zero", "unsupported_claims_not_worse",
                  "unclassified_accuracy_not_worse",
                  "required_evidence_recall_not_worse",
                  "unnecessary_tool_ratio_at_most_0_25",
                  "direction_improves_by_at_least_2"}
  BY DEF GateReasons
<1>2. /\ R["unsupported_claims_zero"] = (H.unsupported = 0)
      /\ R["unsupported_claims_not_worse"] = (H.unsupported <= L.unsupported)
      /\ R["unclassified_accuracy_not_worse"] = (H.kept >= L.kept)
      /\ R["required_evidence_recall_not_worse"] = (H.recall >= L.recall)
      /\ R["unnecessary_tool_ratio_at_most_0_25"]
           = (4 * H.unnecessary <= H.calls)
      /\ R["direction_improves_by_at_least_2"]
           = (H.correct >= L.correct + 2)
  BY DEF GateReasons
<1>3. SelectMode(comparison) = "hybrid_agent" <=>
        SafeHybrid(comparison) /\ H.correct >= L.correct + 2
  BY DEF SelectMode
<1>4. SafeHybrid(comparison) <=>
        /\ H.unsupported = 0 /\ H.unsupported <= L.unsupported
        /\ H.kept >= L.kept /\ H.recall >= L.recall
        /\ 4 * H.unnecessary <= H.calls
  BY DEF SafeHybrid
<1> HIDE DEF R, H, L
<1>5. (\A name \in DOMAIN R : R[name]) <=>
        /\ R["unsupported_claims_zero"] /\ R["unsupported_claims_not_worse"]
        /\ R["unclassified_accuracy_not_worse"]
        /\ R["required_evidence_recall_not_worse"]
        /\ R["unnecessary_tool_ratio_at_most_0_25"]
        /\ R["direction_improves_by_at_least_2"]
  BY <1>1
<1>6. SelectMode(comparison) = "hybrid_agent" <=> \A name \in DOMAIN R : R[name]
  BY <1>2, <1>3, <1>4, <1>5
<1> QED BY <1>6 DEF R

(* A hybrid run that is right, where the snapshot run before it is not,    *)
(* is a fixture won.                                                       *)
LEMMA RightRunWins ==
  ASSUME GateInv, NEW p \in RightRuns("hybrid_agent"),
         p - 1 \notin RightRuns("snapshot_only")
  PROVE  /\ p = 2 * runs[p].of /\ runs[p].of \in Nat
         /\ runs[p].of \in Right("hybrid_agent") \ Right("snapshot_only")
<1>1. /\ p \in DOMAIN runs /\ runs[p].mode = "hybrid_agent"
      /\ CorrectDirection(fixtures[runs[p].of], runs[p])
  BY DEF RightRuns, RunsOf
<1>2. /\ DOMAIN runs = 1..Len(runs) /\ Len(runs) \in Nat
      /\ DOMAIN fixtures = 1..Len(fixtures) /\ Len(fixtures) \in Nat
      /\ Len(runs) <= 2 * Len(fixtures)
      /\ \A k \in DOMAIN runs : Placed(k, runs[k])
  BY DEF GateInv, IsSeq
<1>3. p = 2 * runs[p].of /\ runs[p].of \in Nat \ {0}
  BY <1>1, <1>2 DEF Placed
<1>4. runs[p].of \in DOMAIN fixtures
  BY <1>1, <1>2, <1>3
<1>5. runs[p].of \in Right("hybrid_agent")
  BY <1>1, <1>4 DEF Right
<1>6. ASSUME NEW k \in DOMAIN runs, runs[k].of = runs[p].of,
             runs[k].mode = "snapshot_only",
             CorrectDirection(fixtures[runs[p].of], runs[k])
      PROVE  FALSE
  <2>1. k = 2 * runs[k].of - 1
    BY <1>2, <1>6 DEF Placed
  <2>2. k = p - 1
    BY <1>3, <1>6, <2>1
  <2>3. k \in RightRuns("snapshot_only")
    BY <1>6 DEF RightRuns, RunsOf
  <2> QED BY <2>2, <2>3
<1> QED BY <1>3, <1>5, <1>6 DEF Right

LEMMA RightRunsFinite ==
  ASSUME GateInv, NEW m
  PROVE  /\ IsFiniteSet(RightRuns(m)) /\ RightRuns(m) \subseteq Nat
         /\ IsFiniteSet(KeptUnclassified(m))
<1>1. DOMAIN runs = 1..Len(runs) /\ Len(runs) \in Nat
  BY DEF GateInv, IsSeq
<1>2. IsFiniteSet(DOMAIN runs)
  BY <1>1, FS_Interval
<1>3. /\ RightRuns(m) \subseteq DOMAIN runs
      /\ KeptUnclassified(m) \subseteq DOMAIN runs
  BY DEF RightRuns, RunsOf, KeptUnclassified
<1> QED BY <1>1, <1>2, <1>3, FS_Subset

LEMMA GateInvMeaning ==
  ASSUME GateInv
  PROVE  PromotedOnlyIfBetter
<1> SUFFICES ASSUME mode # "none"
             PROVE  /\ mode = "hybrid_agent" <=>
                         \A name \in DOMAIN GateReasons(Compare(rows)) :
                           GateReasons(Compare(rows))[name]
                    /\ mode = "hybrid_agent" =>
                         /\ \E a, b \in Right("hybrid_agent")
                                          \ Right("snapshot_only") : a # b
                         /\ Cardinality(KeptUnclassified("hybrid_agent"))
                              >= Cardinality(KeptUnclassified("snapshot_only"))
  BY DEF PromotedOnlyIfBetter
<1>1. Scored /\ Comparable(rows) /\ mode = SelectMode(Compare(rows))
  BY DEF GateInv
<1>2. mode = "hybrid_agent" <=>
        \A name \in DOMAIN GateReasons(Compare(rows)) :
          GateReasons(Compare(rows))[name]
  BY <1>1, GateReasonsAgree
<1>3. ASSUME mode = "hybrid_agent"
      PROVE  /\ \E a, b \in Right("hybrid_agent") \ Right("snapshot_only") :
                  a # b
             /\ Cardinality(KeptUnclassified("hybrid_agent"))
                  >= Cardinality(KeptUnclassified("snapshot_only"))
  <2> DEFINE H == Aggregate("hybrid_agent", rows)
             L == Aggregate("snapshot_only", rows)
  <2>1. /\ Compare(rows)["hybrid_agent"] = H
        /\ Compare(rows)["snapshot_only"] = L
        /\ H.correct = Cardinality(RightRuns("hybrid_agent"))
        /\ L.correct = Cardinality(RightRuns("snapshot_only"))
        /\ H.kept = Cardinality(KeptUnclassified("hybrid_agent"))
        /\ L.kept = Cardinality(KeptUnclassified("snapshot_only"))
    BY <1>1, RowsMirrorRuns
  <2> HIDE DEF H, L
  <2>2. H.correct >= L.correct + 2 /\ H.kept >= L.kept
    BY <1>1, <1>3, <2>1 DEF SelectMode, SafeHybrid
  <2>3. /\ IsFiniteSet(RightRuns("hybrid_agent"))
        /\ IsFiniteSet(RightRuns("snapshot_only"))
        /\ RightRuns("hybrid_agent") \subseteq Nat
        /\ RightRuns("snapshot_only") \subseteq Nat
    BY RightRunsFinite
  <2>4. PICK p, q \in RightRuns("hybrid_agent") :
          /\ p # q
          /\ p - 1 \notin RightRuns("snapshot_only")
          /\ q - 1 \notin RightRuns("snapshot_only")
    BY <2>1, <2>2, <2>3, TwoLeft
  <2>5. /\ runs[p].of \in Right("hybrid_agent") \ Right("snapshot_only")
        /\ p = 2 * runs[p].of
    BY <2>4, RightRunWins
  <2>6. /\ runs[q].of \in Right("hybrid_agent") \ Right("snapshot_only")
        /\ q = 2 * runs[q].of
    BY <2>4, RightRunWins
  <2>7. runs[p].of # runs[q].of
    BY <2>4, <2>5, <2>6
  <2> QED BY <2>1, <2>2, <2>5, <2>6, <2>7
<1> QED BY <1>2, <1>3

(* The invariant of the gate holds throughout.                             *)
THEOREM Gate == Spec => []GateInv
<1>1. Init => GateInv
  <2> SUFFICES ASSUME Init PROVE GateInv
    OBVIOUS
  <2>1. /\ IsSeq(runs) /\ IsSeq(fixtures) /\ runs = <<>> /\ fixtures = <<>>
        /\ Len(runs) = 0 /\ Len(fixtures) = 0 /\ DOMAIN runs = {}
    BY EmptySeq DEF Init, IsSeq
  <2> QED BY <2>1 DEF Init, GateInv
<1>2. GateInv /\ [Next]_vars => GateInv'
  BY GateInvStep
<1> QED BY <1>1, <1>2, PTL DEF Spec

(* select_operating_mode answers hybrid_agent exactly when every reason    *)
(* that report.py prints has passed, and only when the agent names a right *)
(* direction for two fixtures that the snapshot misses, and loses no       *)
(* guarded fixture: for any fixtures, recordings and budgets.              *)
THEOREM PromotionMeansBetter == Spec => []PromotedOnlyIfBetter
<1>1. GateInv => PromotedOnlyIfBetter
  BY GateInvMeaning
<1> QED BY <1>1, Gate, PTL

-----------------------------------------------------------------------------
(* What the loader and the agent loop admit.                               *)

LEMMA TailSeq ==
  ASSUME NEW s, IsSeq(s), s # <<>>
  PROVE  /\ IsSeq(Tail(s)) /\ Len(Tail(s)) = Len(s) - 1 /\ Len(s) \in Nat \ {0}
<1>1. s \in Seq(Elements(s)) /\ Len(s) \in Nat /\ Len(s) # 0
  BY DEF IsSeq
<1>2. /\ Tail(s) \in Seq(Elements(s)) /\ Len(Tail(s)) = Len(s) - 1
      /\ DOMAIN Tail(s) = 1..(Len(s) - 1)
      /\ \A i \in 1..(Len(s) - 1) : Tail(s)[i] = s[i + 1]
  BY <1>1
<1>3. \A i \in 1..Len(Tail(s)) : Tail(s)[i] \in Elements(Tail(s))
  BY <1>1, <1>2 DEF Elements
<1> DEFINE t == Tail(s)
<1>4. t \in Seq(Elements(s)) /\ \A i \in 1..Len(t) : t[i] \in Elements(t)
  BY <1>2, <1>3
<1> HIDE DEF t
<1>5. t \in Seq(Elements(t))
  BY <1>4
<1>6. IsSeq(Tail(s))
  BY <1>5 DEF IsSeq, t
<1> QED BY <1>1, <1>2, <1>6

(* The Evidence of a fixture and of some results, list by list.            *)
LEMMA EvidenceListsOf ==
  ASSUME NEW f, NEW results, IsSeq(results)
  PROVE  /\ DOMAIN EvidenceLists(f, results) = 1..(Len(results) + 1)
         /\ EvidenceLists(f, results)[1] = f.snapshot.evidence
         /\ \A n \in 1..Len(results) :
              EvidenceLists(f, results)[n + 1] = results[n].evidence
         /\ Len(results) \in Nat /\ DOMAIN results = 1..Len(results)
<1> DEFINE e == f.snapshot.evidence
           B == [i \in DOMAIN results |-> results[i].evidence]
           S == {e} \cup {results[i].evidence : i \in DOMAIN results}
<1>1. Len(results) \in Nat /\ DOMAIN results = 1..Len(results)
  BY DEF IsSeq
<1>2. /\ B \in Seq(S) /\ Len(B) = Len(results) /\ <<e>> \in Seq(S)
      /\ \A n \in 1..Len(results) : B[n] = results[n].evidence
  BY <1>1
<1> HIDE DEF B, S, e
<1>3. /\ DOMAIN (<<e>> \o B) = 1..(Len(B) + 1) /\ (<<e>> \o B)[1] = e
      /\ \A n \in 1..Len(B) : (<<e>> \o B)[n + 1] = B[n]
  BY <1>1, <1>2
<1>4. EvidenceLists(f, results) = <<e>> \o B
  BY DEF EvidenceLists, e, B
<1> QED BY <1>1, <1>2, <1>3, <1>4 DEF e

LoadedFixture(f) == ValidFixture(f) /\ IsSeq(f.tool_results)

DistinctKeys(calls) ==
  \A i, j \in DOMAIN calls : calls[i].key = calls[j].key => i = j

(* Calls that the loop executed for a fixture: recorded results, each once.*)
CallsOk(f, calls) ==
  /\ IsSeq(calls) /\ Len(calls) <= MaxTotal
  /\ \A i \in DOMAIN calls : calls[i] \in Elements(f.tool_results)
  /\ DistinctKeys(calls)

(* No Evidence ID occurs twice in what a run saw.                          *)
LEMMA CallsKeepIdsApart ==
  ASSUME NEW f, LoadedFixture(f), NEW calls, CallsOk(f, calls)
  PROVE  NoDuplicateId(EvidenceLists(f, calls))
<1> DEFINE all  == EvidenceLists(f, f.tool_results)
           seen == EvidenceLists(f, calls)
<1>1. NoDuplicateId(all)
  BY DEF LoadedFixture, ValidFixture, EvidenceContract
<1>2. /\ DOMAIN all = 1..(Len(f.tool_results) + 1)
      /\ all[1] = f.snapshot.evidence /\ Len(f.tool_results) \in Nat
      /\ \A n \in 1..Len(f.tool_results) :
           all[n + 1] = f.tool_results[n].evidence
      /\ DOMAIN f.tool_results = 1..Len(f.tool_results)
  BY EvidenceListsOf DEF LoadedFixture
<1>3. /\ DOMAIN seen = 1..(Len(calls) + 1)
      /\ seen[1] = f.snapshot.evidence /\ Len(calls) \in Nat
      /\ \A n \in 1..Len(calls) : seen[n + 1] = calls[n].evidence
      /\ DOMAIN calls = 1..Len(calls)
  BY EvidenceListsOf DEF CallsOk
<1> HIDE DEF all, seen
<1>4. ASSUME NEW m \in DOMAIN seen
      PROVE  \E a \in DOMAIN all :
               /\ seen[m] = all[a]
               /\ \/ m = 1 /\ a = 1
                  \/ /\ m \in 2..(Len(calls) + 1) /\ a \in 2..(Len(f.tool_results) + 1)
                     /\ calls[m - 1] = f.tool_results[a - 1]
  <2>1. CASE m = 1
    BY <1>2, <1>3, <2>1
  <2>2. CASE m # 1
    <3>1. m - 1 \in 1..Len(calls) /\ (m - 1) + 1 = m
      BY <1>3, <2>2
    <3>2. PICK b \in DOMAIN f.tool_results : calls[m - 1] = f.tool_results[b]
      BY <1>3, <3>1 DEF CallsOk, Elements
    <3>3. b + 1 \in DOMAIN all /\ (b + 1) - 1 = b /\ b + 1 \in 2..(Len(f.tool_results) + 1)
      BY <1>2
    <3>4. seen[m] = calls[m - 1].evidence /\ all[b + 1] = f.tool_results[b].evidence
      BY <1>2, <1>3, <3>1
    <3> QED BY <1>3, <2>2, <3>2, <3>3, <3>4
  <2> QED BY <2>1, <2>2
<1>5. ASSUME NEW m \in DOMAIN seen, NEW n \in DOMAIN seen,
             NEW i \in DOMAIN seen[m], NEW j \in DOMAIN seen[n],
             seen[m][i] = seen[n][j]
      PROVE  m = n /\ i = j
  <2>1. PICK a \in DOMAIN all :
          /\ seen[m] = all[a]
          /\ \/ m = 1 /\ a = 1
             \/ /\ m \in 2..(Len(calls) + 1) /\ a \in 2..(Len(f.tool_results) + 1)
                /\ calls[m - 1] = f.tool_results[a - 1]
    BY <1>4
  <2>2. PICK b \in DOMAIN all :
          /\ seen[n] = all[b]
          /\ \/ n = 1 /\ b = 1
             \/ /\ n \in 2..(Len(calls) + 1) /\ b \in 2..(Len(f.tool_results) + 1)
                /\ calls[n - 1] = f.tool_results[b - 1]
    BY <1>4
  <2>3. a = b /\ i = j
    BY <1>1, <1>5, <2>1, <2>2 DEF NoDuplicateId
  <2>4. CASE m # 1 /\ n # 1
    <3>1. calls[m - 1] = calls[n - 1] /\ m - 1 \in DOMAIN calls /\ n - 1 \in DOMAIN calls
      BY <1>3, <2>1, <2>2, <2>3, <2>4
    <3>2. m - 1 = n - 1
      BY <3>1 DEF CallsOk, DistinctKeys
    <3> QED BY <1>3, <2>3, <3>2
  <2>5. CASE m = 1 \/ n = 1
    BY <1>2, <2>1, <2>2, <2>3, <2>5
  <2> QED BY <2>3, <2>4, <2>5
<1>6. NoDuplicateId(seen)
  BY <1>5 DEF NoDuplicateId
<1> QED BY <1>6 DEF seen

LEMMA CallsAreScorable ==
  ASSUME NEW f, LoadedFixture(f), NEW run, CallsOk(f, run.calls)
  PROVE  Scorable(f, run)
<1>1. \A i, j \in DOMAIN f.tool_results :
        f.tool_results[i].key = f.tool_results[j].key => i = j
  BY DEF LoadedFixture, ValidFixture, ValidToolResults
<1>2. Distinct([i \in DOMAIN f.tool_results |-> f.tool_results[i].key])
  BY <1>1 DEF Distinct
<1>3. Distinct([i \in DOMAIN run.calls |-> run.calls[i].key])
  BY DEF CallsOk, DistinctKeys, Distinct
<1> QED BY <1>2, <1>3, CallsKeepIdsApart DEF Scorable, CallsOk

(* A hybrid replay in progress: its requests and calls are within budget,  *)
(* and every call is a result that the fixture records, made once.         *)
InProgress(r, f) ==
  /\ DOMAIN r = {"round", "recording", "used", "batch", "calls"}
  /\ r.used \in Nat /\ IsSeq(r.recording.proposals)
  /\ \A p \in Elements(r.recording.proposals) : IsSeq(p.requests)
  /\ IsSeq(r.batch) /\ Len(r.batch) + Len(r.calls) <= MaxTotal
  /\ CallsOk(f, r.calls)

AdmitInv ==
  /\ \A i \in DOMAIN fixtures : LoadedFixture(fixtures[i])
  /\ \A k \in DOMAIN runs : /\ runs[k].of \in DOMAIN fixtures
                            /\ CallsOk(fixtures[runs[k].of], runs[k].calls)
  /\ replay # NoReplay => InProgress(replay, fixtures[Current])

LEMMA NoCallsOk == ASSUME NEW f PROVE CallsOk(f, <<>>)
BY EmptySeq, BudgetAssumption DEF CallsOk, DistinctKeys

LEMMA CurrentFixture ==
  ASSUME GateInv, stage = "replay"
  PROVE  Current \in DOMAIN fixtures
<1>1. /\ Len(runs) \in Nat /\ Len(fixtures) \in Nat
      /\ DOMAIN fixtures = 1..Len(fixtures) /\ Len(runs) < 2 * Len(fixtures)
  BY DEF GateInv, IsSeq
<1> QED BY <1>1, Halves DEF Current

LEMMA AdmitFinished ==
  ASSUME GateInv, AdmitInv, stage = "replay", NEW run, Finished(run),
         run.of = Current, CallsOk(fixtures[Current], run.calls)
  PROVE  AdmitInv'
<1>1. /\ runs' = Append(runs, run) /\ fixtures' = fixtures
      /\ replay' = NoReplay /\ NoReplay' = NoReplay
  BY DEF Finished, NoReplay
<1>2. IsSeq(runs) /\ DOMAIN runs = 1..Len(runs) /\ Len(runs) \in Nat
  BY DEF GateInv, IsSeq
<1>3. /\ DOMAIN runs' = 1..(Len(runs) + 1)
      /\ \A i \in 1..Len(runs) : runs'[i] = runs[i]
      /\ runs'[Len(runs) + 1] = run
  BY <1>1, <1>2, AppendedSeq
<1>4. ASSUME NEW k \in DOMAIN runs'
      PROVE  /\ runs'[k].of \in DOMAIN fixtures
             /\ CallsOk(fixtures[runs'[k].of], runs'[k].calls)
  <2>1. CASE k = Len(runs) + 1
    BY <1>3, <2>1, CurrentFixture
  <2>2. CASE k # Len(runs) + 1
    <3>1. k \in DOMAIN runs /\ runs'[k] = runs[k]
      BY <1>2, <1>3, <2>2
    <3> QED BY <3>1 DEF AdmitInv
  <2> QED BY <2>1, <2>2
<1> QED BY <1>1, <1>4 DEF AdmitInv, CallsOk

LEMMA AdmitInvestigated ==
  ASSUME GateInv, AdmitInv, stage = "replay", NEW o, NEW used,
         Investigated(o, used), CallsOk(fixtures[Current], replay.calls)
  PROVE  AdmitInv'
<1> DEFINE run == Run(Current, "hybrid_agent", o, replay.calls)
<1>1. run.of = Current /\ run.calls = replay.calls
  BY DEF Run
<1>2. CASE Finished(run)
  <2> HIDE DEF run
  <2> QED BY <1>1, <1>2, AdmitFinished
<1>3. CASE replay' = NoReplay /\ UNCHANGED <<fixtures, runs>>
  BY <1>3 DEF AdmitInv, NoReplay
<1> QED BY <1>2, <1>3 DEF Investigated

(* The registry of the loop asks for a result the fixture has, under a key *)
(* that was not used yet.                                                  *)
LEMMA RecordedCallAdded ==
  ASSUME NEW f, NEW calls, CallsOk(f, calls), Len(calls) < MaxTotal,
         NEW request, request.key \in RecordedKeys(f),
         request.key \notin {calls[i].key : i \in DOMAIN calls}
  PROVE  /\ CallsOk(f, Append(calls, RecordedResult(f, request.key)))
         /\ Len(Append(calls, RecordedResult(f, request.key))) = Len(calls) + 1
<1> DEFINE result == RecordedResult(f, request.key)
<1>1. result \in Elements(f.tool_results) /\ result.key = request.key
  BY DEF RecordedResult, RecordedKeys, Elements
<1> HIDE DEF result
<1>2. IsSeq(calls) /\ DOMAIN calls = 1..Len(calls) /\ Len(calls) \in Nat
  BY DEF CallsOk, IsSeq
<1> DEFINE next == Append(calls, result)
<1>3. /\ IsSeq(next) /\ Len(next) = Len(calls) + 1
      /\ DOMAIN next = 1..(Len(calls) + 1)
      /\ \A i \in 1..Len(calls) : next[i] = calls[i]
      /\ next[Len(calls) + 1] = result
  BY <1>2, AppendedSeq
<1> HIDE DEF next
<1>4. \A i \in DOMAIN next : next[i] \in Elements(f.tool_results)
  BY <1>1, <1>2, <1>3 DEF CallsOk
<1>5. DistinctKeys(next)
  BY <1>1, <1>2, <1>3 DEF CallsOk, DistinctKeys
<1>6. Len(next) <= MaxTotal
  BY <1>2, <1>3, BudgetAssumption
<1>7. CallsOk(f, next)
  BY <1>3, <1>4, <1>5, <1>6 DEF CallsOk
<1> QED BY <1>3, <1>7 DEF next, result

LEMMA ProposalsTyped ==
  ASSUME NEW f, NEW r \in Recordings(f, "hybrid_agent")
  PROVE  /\ IsSeq(r.proposals)
         /\ \A p \in Elements(r.proposals) : IsSeq(p.requests)
<1>1. CASE source = "neutral"
  <2> DEFINE p == [requests |-> <<>>, conclusion |-> SnapshotInvestigation(f)]
  <2>1. r = NeutralRecording(f, "hybrid_agent")
    <3> DEFINE given == Recordings(f, "hybrid_agent")
    <3>1. given = {NeutralRecording(f, "hybrid_agent")}
      BY <1>1 DEF Recordings
    <3> QED BY <3>1
  <2>2. r.proposals = <<p>> /\ p.requests = <<>>
    BY <2>1 DEF NeutralRecording
  <2> HIDE DEF p
  <2>3. /\ IsSeq(<<p>>) /\ Elements(<<p>>) = {p}
    BY DEF IsSeq, Elements
  <2> QED BY <2>2, <2>3, EmptySeq
<1>2. CASE source # "neutral"
  <2>1. r \in Reviewed
    BY <1>2 DEF Recordings
  <2> QED BY <2>1, EvaluationAssumption DEF IsSeq
<1> QED BY <1>1, <1>2

(* Steps that leave fixtures and runs alone. *)
LEMMA AdmitQuiet ==
  ASSUME AdmitInv, UNCHANGED <<fixtures, runs>>,
         replay' = NoReplay \/ InProgress(replay', fixtures[Current])
  PROVE  AdmitInv'
<1>1. Current' = Current /\ NoReplay' = NoReplay
  BY DEF Current, NoReplay
<1> QED BY <1>1 DEF AdmitInv, CallsOk

(* A proposal was used: it ended the rounds, or asked for a batch.         *)
LEMMA ProposalUsed ==
  ASSUME NEW r, NEW f, InProgress(r, f)
  PROVE  /\ \A n : InProgress([r EXCEPT !.round = n, !.used = @ + 1], f)
         /\ \A b : IsSeq(b) /\ Len(b) + Len(r.calls) <= MaxTotal =>
                   InProgress([r EXCEPT !.batch = b, !.used = @ + 1], f)
<1>1. ASSUME NEW n
      PROVE  InProgress([r EXCEPT !.round = n, !.used = @ + 1], f)
  BY DEF InProgress
<1>2. ASSUME NEW b, IsSeq(b), Len(b) + Len(r.calls) <= MaxTotal
      PROVE  InProgress([r EXCEPT !.batch = b, !.used = @ + 1], f)
  BY <1>2 DEF InProgress
<1> QED BY <1>1, <1>2

LEMMA AdmitStep ==
  ASSUME GateInv, AdmitInv, [Next]_vars
  PROVE  AdmitInv'
<1> DEFINE f == fixtures[Current]
<1>1. CASE Load
  <2>1. /\ runs = <<>> /\ runs' = runs /\ replay' = NoReplay
        /\ NoReplay' = NoReplay
    BY <1>1 DEF Load, GateInv, NoReplay
  <2>2. ASSUME NEW i \in DOMAIN fixtures' PROVE LoadedFixture(fixtures'[i])
    <3>1. CASE fixtures' = fixtures
      BY <2>2, <3>1 DEF AdmitInv
    <3>2. CASE \E entries \in Manifests : /\ ValidManifest(entries)
                                          /\ fixtures' = Fixtures(entries)
      <4>1. PICK entries \in Manifests : /\ ValidManifest(entries)
                                         /\ fixtures' = Fixtures(entries)
        BY <3>2
      <4>2. /\ i \in DOMAIN entries /\ fixtures'[i] = entries[i].file
            /\ ValidFixture(entries[i].file)
        BY <2>2, <4>1 DEF Fixtures, ValidManifest
      <4>3. IsSeq(entries[i].file.tool_results)
        BY <4>2, EvaluationAssumption DEF IsSeq, Elements
      <4> QED BY <4>2, <4>3 DEF LoadedFixture
    <3> QED BY <1>1, <3>1, <3>2 DEF Load
  <2>3. DOMAIN runs' = {}
    BY <2>1
  <2> QED BY <2>1, <2>2, <2>3 DEF AdmitInv
<1>2. CASE ReplaySnapshot
  <2>1. PICK r : Finished(Run(Current, "snapshot_only", r.final, <<>>))
    BY <1>2 DEF ReplaySnapshot
  <2> DEFINE run == Run(Current, "snapshot_only", r.final, <<>>)
  <2>2. /\ Finished(run) /\ run.of = Current /\ stage = "replay"
        /\ CallsOk(f, run.calls)
    BY <1>2, <2>1, NoCallsOk DEF Run, ReplaySnapshot
  <2> HIDE DEF run
  <2> QED BY <2>2, AdmitFinished
<1>3. CASE StartHybrid
  <2>1. PICK r \in Recordings(f, "hybrid_agent") :
          replay' = [round |-> 1, recording |-> r, used |-> 0, batch |-> <<>>,
                     calls |-> <<>>]
    BY <1>3 DEF StartHybrid
  <2>2. /\ IsSeq(r.proposals)
        /\ \A p \in Elements(r.proposals) : IsSeq(p.requests)
    BY ProposalsTyped
  <2>3. Len(<<>>) + Len(<<>>) <= MaxTotal
    BY BudgetAssumption
  <2>4. InProgress(replay', f)
    BY <2>1, <2>2, <2>3, NoCallsOk, EmptySeq DEF InProgress
  <2>5. UNCHANGED <<fixtures, runs>>
    BY <1>3 DEF StartHybrid
  <2> QED BY <2>4, <2>5, AdmitQuiet
<1>4. ASSUME stage = "replay", replay # NoReplay,
             RaiseExhausted \/ Propose \/ ExecuteRecorded \/ Summarize
      PROVE  AdmitInv'
  <2>1. /\ InProgress(replay, f) /\ CallsOk(f, replay.calls)
        /\ IsSeq(replay.calls) /\ Len(replay.calls) \in Nat
        /\ IsSeq(replay.batch) /\ Len(replay.batch) \in Nat
        /\ MaxTotal \in Nat
    BY <1>4, BudgetAssumption DEF AdmitInv, InProgress, CallsOk, IsSeq
  <2>2. CASE \E o, used : Investigated(o, used)
    BY <1>4, <2>1, <2>2, AdmitInvestigated
  <2> DEFINE quiet == UNCHANGED <<stage, refused, source, fixtures, runs, rows,
                                  handoffs, mode>>
  <2>3. CASE Propose /\ quiet
    <3> DEFINE p == replay.recording.proposals[replay.used + 1]
               next == IF p.requests = <<>>
                       THEN [replay EXCEPT !.round = MaxRounds + 1, !.used = @ + 1]
                       ELSE [replay EXCEPT !.batch = p.requests, !.used = @ + 1]
    <3>1. /\ replay.batch = <<>> /\ replay.used < Len(replay.recording.proposals)
          /\ AcceptableProposal(p, f, replay.calls) /\ replay' = next
          \/ \E o, used : Investigated(o, used)
      BY <2>3 DEF Propose, Proposing
    <3>2. CASE /\ replay.batch = <<>>
               /\ replay.used < Len(replay.recording.proposals)
               /\ AcceptableProposal(p, f, replay.calls) /\ replay' = next
      <4>1. replay.used + 1 \in DOMAIN replay.recording.proposals
        BY <2>1, <3>2 DEF InProgress, IsSeq
      <4>2. p \in Elements(replay.recording.proposals)
        BY <4>1 DEF Elements
      <4> HIDE DEF p
      <4>3. IsSeq(p.requests)
        BY <2>1, <4>2 DEF InProgress
      <4>4. InProgress(next, f)
        <5>1. CASE p.requests = <<>>
          BY <2>1, <5>1, ProposalUsed
        <5>2. CASE p.requests # <<>>
          <6>1. Len(p.requests) \in Nat
            BY <4>3 DEF IsSeq
          <6>2. Len(p.requests) <= MaxTotal - Len(replay.calls)
            BY <3>2 DEF AcceptableProposal
          <6>3. \A a, b, c \in Nat : a <= c - b => a + b <= c
            OBVIOUS
          <6>4. Len(p.requests) + Len(replay.calls) <= MaxTotal
            BY <2>1, <6>1, <6>2, <6>3
          <6> QED BY <2>1, <4>3, <5>2, <6>4, ProposalUsed
        <5> QED BY <5>1, <5>2
      <4> HIDE DEF next
      <4> QED BY <2>3, <3>2, <4>4, AdmitQuiet
    <3> QED BY <2>2, <3>1, <3>2
  <2>4. CASE ExecuteRecorded /\ quiet
    <3> DEFINE request == Head(replay.batch)
               calls == Append(replay.calls, RecordedResult(f, request.key))
               round == IF Len(replay.batch) = 1 THEN replay.round + 1
                        ELSE replay.round
    <3>1. \/ \E o, used : Investigated(o, used)
          \/ /\ replay.batch # <<>>
             /\ request.key \in RecordedKeys(f)
             /\ request.key \notin {replay.calls[i].key : i \in DOMAIN replay.calls}
             /\ replay' = [replay EXCEPT !.batch = Tail(replay.batch),
                                         !.round = round, !.calls = calls]
      BY <2>4 DEF ExecuteRecorded, Permitted
    <3>2. CASE /\ replay.batch # <<>>
               /\ request.key \in RecordedKeys(f)
               /\ request.key \notin {replay.calls[i].key : i \in DOMAIN replay.calls}
               /\ replay' = [replay EXCEPT !.batch = Tail(replay.batch),
                                           !.round = round, !.calls = calls]
      <4>1. /\ IsSeq(Tail(replay.batch))
            /\ Len(Tail(replay.batch)) = Len(replay.batch) - 1
            /\ Len(replay.batch) # 0
        BY <2>1, <3>2, TailSeq
      <4>2. Len(replay.calls) < MaxTotal
        BY <2>1, <4>1 DEF InProgress
      <4> HIDE DEF request
      <4>3. CallsOk(f, calls) /\ Len(calls) = Len(replay.calls) + 1
        BY <2>1, <3>2, <4>2, RecordedCallAdded
      <4> HIDE DEF calls, round
      <4>4. Len(Tail(replay.batch)) + Len(calls) <= MaxTotal
        BY <2>1, <4>1, <4>3 DEF InProgress
      <4>5. InProgress(replay', f)
        BY <2>1, <3>2, <4>1, <4>3, <4>4 DEF InProgress
      <4> QED BY <2>4, <4>5, AdmitQuiet
    <3> QED BY <2>2, <3>1, <3>2
  <2> QED BY <1>4, <2>2, <2>3, <2>4
          DEF RaiseExhausted, Propose, ExecuteRecorded, Summarize
<1>5. CASE RaiseExhausted \/ Propose \/ ExecuteRecorded \/ Summarize
  <2>1. stage = "replay" /\ replay # NoReplay
    BY <1>5, BudgetAssumption DEF RaiseExhausted, Propose, ExecuteRecorded,
       Summarize, Proposing, Summarizing, NoReplay
  <2> QED BY <1>4, <1>5, <2>1
<1>6. CASE CheckMatrix \/ ScoreRuns \/ CompareModes \/ CheckHandoffMatrix
           \/ RunCondition \/ SelectOperatingMode \/ Ended \/ UNCHANGED vars
  <2>1. UNCHANGED <<fixtures, runs, replay>>
    BY <1>6 DEF CheckMatrix, ScoreRuns, CompareModes, CheckHandoffMatrix,
                RunCondition, SelectOperatingMode, Ended, vars
  <2> QED BY <2>1, AdmitQuiet DEF AdmitInv
<1> QED BY <1>1, <1>2, <1>3, <1>5, <1>6 DEF Next

-----------------------------------------------------------------------------
(* Why a report is refused.                                                *)

DistinctIds ==
  \A i, j \in DOMAIN fixtures :
    fixtures[i].fixture_id = fixtures[j].fixture_id => i = j

(* What each stage has left behind.                                        *)
OrderInv ==
  /\ stage \in {"replay", "score", "compare", "handoff_matrix", "handoff",
                "select"} => DistinctIds /\ Len(fixtures) > 0
  /\ stage \in {"score", "compare"} => Len(runs) = 2 * Len(fixtures)
  /\ stage \in {"load", "matrix", "replay", "score"} => rows = <<>>
  /\ rows # <<>> => Scored /\ DistinctIds
  /\ stage \in {"load", "matrix", "replay", "score", "compare",
                "handoff_matrix"} => handoffs = <<>>
  /\ stage = "handoff" => Len(handoffs) < 2 * Len(fixtures)

(* A neutral run is the summary of its fixture's Snapshot, without a call. *)
NeutralRun(run) ==
  /\ run.calls = <<>>
  /\ run.investigation = SnapshotInvestigation(fixtures[run.of])

NeutralStart ==
  [round |-> 1, recording |-> NeutralRecording(fixtures[Current], "hybrid_agent"),
   used |-> 0, batch |-> <<>>, calls |-> <<>>]

NeutralInv ==
  source = "neutral" =>
    /\ \A k \in DOMAIN runs : NeutralRun(runs[k])
    /\ replay # NoReplay => replay = NeutralStart
    /\ stage = "handoff" => Promptable

RefusalInv ==
  /\ stage # "done" => refused = "no"
  /\ ScoringAcceptsReplays

ReportInv == OrderInv /\ NeutralInv /\ RefusalInv

(* The committed fixtures, guarded as listed. *)
Listed ==
  /\ FixtureIds = Committed
  /\ \A i \in DOMAIN fixtures :
       (fixtures[i].fixture_id \in Guarded)
         = (fixtures[i].expected.classification = "unclassified")

(* Runs of every fixture in both modes compare, when they are those.       *)
LEMMA ListedCompare ==
  ASSUME GateInv, AdmitInv, Scored, DistinctIds, Listed,
         Len(runs) = 2 * Len(fixtures)
  PROVE  Comparable(rows)
<1>1. /\ DOMAIN runs = 1..Len(runs) /\ Len(runs) \in Nat
      /\ DOMAIN fixtures = 1..Len(fixtures) /\ Len(fixtures) \in Nat
      /\ \A k \in DOMAIN runs : Placed(k, runs[k])
      /\ DOMAIN rows = DOMAIN runs
  BY DEF GateInv, IsSeq, Scored
<1>2. ASSUME NEW k \in DOMAIN runs
      PROVE  /\ runs[k].of \in DOMAIN fixtures
             /\ rows[k].fixture_id = fixtures[runs[k].of].fixture_id
             /\ rows[k].mode = runs[k].mode
             /\ rows[k].guarded =
                  (fixtures[runs[k].of].expected.classification = "unclassified")
  <2>1. rows[k] = Score(fixtures[runs[k].of], runs[k])
    BY DEF Scored
  <2> QED BY <2>1 DEF Score, AdmitInv
<1>3. \A k \in DOMAIN rows : rows[k].guarded <=> rows[k].fixture_id \in Guarded
  BY <1>1, <1>2 DEF Listed
<1>4. ASSUME NEW i \in DOMAIN rows, NEW j \in DOMAIN rows,
             rows[i].fixture_id = rows[j].fixture_id,
             rows[i].mode = rows[j].mode
      PROVE  i = j
  <2>1. runs[i].of = runs[j].of /\ runs[i].mode = runs[j].mode
    BY <1>1, <1>2, <1>4 DEF DistinctIds
  <2> QED BY <1>1, <2>1 DEF Placed
<1>5. Distinct([i \in DOMAIN rows |-> <<rows[i].fixture_id, rows[i].mode>>])
  BY <1>4 DEF Distinct
<1>6. ASSUME NEW k \in DOMAIN rows
      PROVE  rows[k].fixture_id \in Committed /\ rows[k].mode \in Modes
  BY <1>1, <1>2 DEF Listed, FixtureIds, Placed, Modes
<1>7. ASSUME NEW id \in Committed, NEW m \in Modes
      PROVE  \E k \in DOMAIN rows : rows[k].fixture_id = id /\ rows[k].mode = m
  <2>1. PICK i \in DOMAIN fixtures : fixtures[i].fixture_id = id
    BY DEF Listed, FixtureIds
  <2> DEFINE k == IF m = "snapshot_only" THEN 2 * i - 1 ELSE 2 * i
  <2>2. i \in 1..Len(fixtures) /\ k \in 1..Len(runs)
    BY <1>1
  <2>3. k \in DOMAIN runs /\ Placed(k, runs[k])
    BY <1>1, <2>2
  <2>4. runs[k].of = i /\ runs[k].mode = m
    BY <1>7, <2>2, <2>3 DEF Placed, Modes
  <2> QED BY <1>1, <1>2, <2>1, <2>3, <2>4
<1>8. {<<rows[i].fixture_id, rows[i].mode>> : i \in DOMAIN rows}
        = Committed \X Modes
  <2> DEFINE keys == {<<rows[i].fixture_id, rows[i].mode>> : i \in DOMAIN rows}
  <2>1. keys \subseteq Committed \X Modes
    BY <1>6
  <2>2. ASSUME NEW p \in Committed \X Modes PROVE p \in keys
    <3>1. PICK id \in Committed, m \in Modes : p = <<id, m>>
      OBVIOUS
    <3>2. PICK k \in DOMAIN rows : rows[k].fixture_id = id /\ rows[k].mode = m
      BY <1>7
    <3> QED BY <3>1, <3>2
  <2> QED BY <2>1, <2>2
<1> QED BY <1>3, <1>5, <1>8 DEF Comparable

(* The neutral proposal passes the checks of the loop.                     *)
LEMMA NeutralAccepted ==
  ASSUME NEW f
  PROVE  LET p == NeutralRecording(f, "hybrid_agent").proposals[1] IN
         /\ Len(NeutralRecording(f, "hybrid_agent").proposals) = 1
         /\ p.requests = <<>> /\ p.conclusion = SnapshotInvestigation(f)
         /\ AcceptableProposal(p, f, <<>>)
<1> DEFINE p == [requests |-> <<>>, conclusion |-> SnapshotInvestigation(f)]
           o == SnapshotInvestigation(f)
<1>1. NeutralRecording(f, "hybrid_agent").proposals = <<p>>
  BY DEF NeutralRecording
<1>2. /\ o.facts = [i \in DOMAIN f.snapshot.evidence
                      |-> <<f.snapshot.evidence[i]>>]
      /\ o.directions = <<>> /\ o.grounds = <<>>
      /\ o.classification = "unclassified"
  BY DEF SnapshotInvestigation, Unclassified
<1>3. Elements(f.snapshot.evidence) \subseteq Available(f, <<>>)
  <2>1. /\ 1 \in DOMAIN EvidenceLists(f, <<>>)
        /\ EvidenceLists(f, <<>>)[1] = f.snapshot.evidence
    BY EmptySeq, EvidenceListsOf
  <2> QED BY <2>1 DEF Available, IdsIn
<1>4. ASSUME NEW i \in DOMAIN o.facts
      PROVE  CitesAvailable(o.facts[i], f, <<>>)
  <2> DEFINE e == f.snapshot.evidence[i]
  <2>1. e \in Available(f, <<>>) /\ o.facts[i] = <<e>>
    BY <1>2, <1>3 DEF Elements
  <2> HIDE DEF e
  <2>2. <<e>> # <<>> /\ Distinct(<<e>>) /\ Elements(<<e>>) = {e}
    BY DEF Distinct, Elements
  <2> QED BY <2>1, <2>2 DEF CitesAvailable
<1>5. Grounded(o, f, <<>>)
  <2>1. DOMAIN o.directions = {} /\ o.grounds = <<>>
    BY <1>2
  <2>2. o.classification = "unclassified"
    BY <1>2
  <2> HIDE DEF o
  <2> QED BY <1>4, <2>1, <2>2 DEF Grounded
<1> HIDE DEF o
<1>6. p.requests = <<>> /\ p.conclusion = o
  BY DEF o
<1>7. AcceptableProposal(p, f, <<>>)
  BY <1>5, <1>6, BudgetAssumption DEF AcceptableProposal
<1> HIDE DEF p
<1> DEFINE proposals == NeutralRecording(f, "hybrid_agent").proposals
<1>8. proposals[1] = p /\ Len(proposals) = 1
  BY <1>1
<1> HIDE DEF proposals
<1>9. /\ Len(proposals) = 1
      /\ proposals[1].requests = <<>> /\ proposals[1].conclusion = o
      /\ AcceptableProposal(proposals[1], f, <<>>)
  BY <1>6, <1>7, <1>8
<1> QED BY <1>9 DEF o, proposals

LEMMA HarmlessRefusal ==
  ASSUME refused' \in {"no", "load", "matrix"}
  PROVE  ScoringAcceptsReplays'
BY DEF ScoringAcceptsReplays

LEMMA ReportFinished ==
  ASSUME GateInv, ReportInv, stage = "replay", NEW run, Finished(run),
         source = "neutral" => NeutralRun(run)
  PROVE  ReportInv'
<1>1. /\ runs' = Append(runs, run) /\ UNCHANGED <<source, fixtures, rows, handoffs>>
      /\ replay' = NoReplay /\ NoReplay' = NoReplay /\ refused' = refused
      /\ IF Len(runs) + 1 = 2 * Len(fixtures)
         THEN stage' = "score" ELSE stage' = "replay"
  BY DEF Finished, Proceed, NoReplay
<1>2. IsSeq(runs) /\ DOMAIN runs = 1..Len(runs) /\ Len(runs) \in Nat
  BY DEF GateInv, IsSeq
<1>3. /\ Len(runs') = Len(runs) + 1 /\ DOMAIN runs' = 1..(Len(runs) + 1)
      /\ \A i \in 1..Len(runs) : runs'[i] = runs[i]
      /\ runs'[Len(runs) + 1] = run
  BY <1>1, <1>2, AppendedSeq
<1>4. refused' = "no" /\ ScoringAcceptsReplays'
  BY <1>1, HarmlessRefusal DEF ReportInv, RefusalInv
<1>5. OrderInv'
  BY <1>1, <1>3 DEF ReportInv, OrderInv, DistinctIds
<1>6. ASSUME source = "neutral", NEW k \in DOMAIN runs'
      PROVE  NeutralRun(runs'[k])
  <2>1. CASE k = Len(runs) + 1
    BY <1>3, <1>6, <2>1
  <2>2. CASE k # Len(runs) + 1
    <3>1. k \in DOMAIN runs /\ runs'[k] = runs[k]
      BY <1>2, <1>3, <2>2
    <3> QED BY <1>6, <3>1 DEF ReportInv, NeutralInv
  <2> QED BY <2>1, <2>2
<1>7. NeutralInv'
  BY <1>1, <1>6 DEF NeutralInv, NeutralRun
<1> QED BY <1>1, <1>4, <1>5, <1>7 DEF ReportInv, RefusalInv

(* A neutral replay uses all it recorded.                                  *)
LEMMA ReportInvestigated ==
  ASSUME GateInv, ReportInv, stage = "replay", NEW o, NEW used,
         Investigated(o, used),
         source = "neutral" =>
           /\ used = Len(replay.recording.proposals) /\ replay.calls = <<>>
           /\ o = SnapshotInvestigation(fixtures[Current])
  PROVE  ReportInv'
<1> DEFINE run == Run(Current, "hybrid_agent", o, replay.calls)
<1>1. CASE Finished(run)
  <2>1. source = "neutral" => NeutralRun(run)
    BY DEF Run, NeutralRun
  <2> HIDE DEF run
  <2> QED BY <1>1, <2>1, ReportFinished
<1>2. CASE /\ used # Len(replay.recording.proposals) /\ Refuse
           /\ replay' = NoReplay
           /\ UNCHANGED <<source, fixtures, runs, rows, handoffs, mode>>
  <2>1. /\ source # "neutral" /\ source' = source
        /\ stage' = "done" /\ refused' = "replay" /\ rows = <<>>
    BY <1>2 DEF Refuse, ReportInv, OrderInv
  <2>2. ScoringAcceptsReplays'
    BY <2>1 DEF ScoringAcceptsReplays
  <2>3. OrderInv'
    BY <1>2, <2>1 DEF OrderInv
  <2> QED BY <2>1, <2>2, <2>3 DEF ReportInv, NeutralInv, RefusalInv
<1> QED BY <1>1, <1>2 DEF Investigated

(* Steps of the agent loop; a neutral replay proposes once and ends.       *)
LEMMA ReportLoop ==
  ASSUME GateInv, ReportInv,
         RaiseExhausted \/ Propose \/ ExecuteRecorded \/ Summarize
  PROVE  ReportInv'
<1> DEFINE f == fixtures[Current]
           quiet == UNCHANGED <<stage, refused, source, fixtures, runs, rows,
                                handoffs, mode>>
<1>1. stage = "replay" /\ replay # NoReplay
  BY BudgetAssumption DEF RaiseExhausted, Propose, ExecuteRecorded, Summarize,
     Proposing, Summarizing, NoReplay
<1>2. CASE source # "neutral"
  <2>1. CASE \E o, used : Investigated(o, used)
    BY <1>1, <1>2, <2>1, ReportInvestigated
  <2>2. CASE quiet
    <3>1. OrderInv'
      BY <1>1, <2>2 DEF ReportInv, OrderInv, DistinctIds
    <3>2. RefusalInv'
      BY <1>1, <2>2, HarmlessRefusal DEF ReportInv, RefusalInv
    <3> QED BY <1>2, <2>2, <3>1, <3>2 DEF ReportInv, NeutralInv
  <2> QED BY <2>1, <2>2 DEF RaiseExhausted, Propose, ExecuteRecorded, Summarize
<1>3. CASE source = "neutral"
  <2> DEFINE proposals == NeutralRecording(f, "hybrid_agent").proposals
             p == proposals[1]
  <2>1. replay = NeutralStart
    BY <1>1, <1>3 DEF ReportInv, NeutralInv
  <2>2. /\ replay.round = 1 /\ replay.used = 0 /\ replay.batch = <<>>
        /\ replay.calls = <<>> /\ replay.recording.proposals = proposals
    BY <2>1 DEF NeutralStart
  <2>3. /\ Len(proposals) = 1 /\ p.requests = <<>>
        /\ p.conclusion = SnapshotInvestigation(f)
        /\ AcceptableProposal(p, f, <<>>)
    BY NeutralAccepted
  <2>4. replay.recording.proposals[replay.used + 1] = p
    BY <2>2
  <2> HIDE DEF proposals
  <2>5. ~RaiseExhausted
    BY <2>2, <2>3 DEF RaiseExhausted
  <2>6. ~ExecuteRecorded /\ ~Summarize
    BY <2>2, BudgetAssumption DEF ExecuteRecorded, Summarize, Summarizing
  <2>7. Propose
    BY <2>5, <2>6
  <2>8. Investigated(p.conclusion, replay.used + 1)
    <3> HIDE DEF p
    <3> QED BY <2>2, <2>3, <2>4, <2>7 DEF Propose
  <2>9. replay.used + 1 = Len(replay.recording.proposals)
    BY <2>2, <2>3
  <2> HIDE DEF p
  <2> QED BY <1>1, <2>2, <2>3, <2>8, <2>9, ReportInvestigated
<1> QED BY <1>2, <1>3

(* A neutral handoff replays whenever its prompt can be built.             *)
LEMMA NeutralReplayable ==
  ASSUME NEW f, NEW c, PromptBuilds(f, c)
  PROVE  Replayable(f, c, NeutralHandoff(f, c))
<1> DEFINE r == NeutralHandoff(f, c)
<1>1. /\ r.provenance = Provenance(f, c, ModelId, PromptBudget)
      /\ r.output.label = "" /\ r.output.clarifications = <<>>
      /\ r.output.requests = <<>>
  BY DEF NeutralHandoff
<1> HIDE DEF r
<1>2. /\ Elements(r.output.clarifications) = {}
      /\ Len(r.output.requests) = 0 /\ DOMAIN r.output.requests = {}
  <2>1. Elements(<<>>) = {} /\ Len(<<>>) = 0 /\ DOMAIN <<>> = {}
    BY DEF Elements
  <2> QED BY <1>1, <2>1
<1>3. InVocabulary(f, r.output)
  BY <1>1, <1>2 DEF InVocabulary
<1>4. ToolsExecute(f, c, r.output.requests)
  BY <1>2, BudgetAssumption DEF ToolsExecute
<1>5. Replayable(f, c, r)
  BY <1>1, <1>3, <1>4 DEF Replayable
<1> QED BY <1>5 DEF r

LEMMA ReportHandoff ==
  ASSUME HandoffInv, ReportInv, CheckHandoffMatrix \/ RunCondition
  PROVE  ReportInv'
<1>1. /\ UNCHANGED <<source, fixtures, replay, runs, rows>>
      /\ NoReplay' = NoReplay /\ refused = "no" /\ DistinctIds
      /\ Len(fixtures) > 0
      /\ rows' # <<>> => Scored' /\ DistinctIds'
  BY DEF CheckHandoffMatrix, RunCondition, NoReplay, ReportInv, RefusalInv,
         OrderInv, Scored, DistinctIds
<1>2. CASE CheckHandoffMatrix
  <2>1. /\ handoffs = <<>> /\ handoffs' = handoffs
        /\ \/ /\ stage' = "handoff" /\ refused' = "no"
              /\ source = "neutral" => Promptable
           \/ /\ stage' = "done" /\ refused' = "handoff_matrix"
              /\ source = "neutral" => ~Promptable
    BY <1>1, <1>2 DEF CheckHandoffMatrix, Proceed, Refuse, Promptable,
                      ReportInv, OrderInv
  <2>2. OrderInv'
    BY <1>1, <2>1 DEF OrderInv, DistinctIds
  <2>3. NeutralInv'
    BY <1>1, <2>1 DEF NeutralInv, ReportInv, NeutralRun, NeutralStart, Current,
                      Promptable
  <2>4. RefusalInv'
    BY <1>1, <2>1 DEF RefusalInv, ScoringAcceptsReplays, Promptable
  <2> QED BY <2>2, <2>3, <2>4 DEF ReportInv
<1>3. CASE RunCondition
  <2> DEFINE n == Len(handoffs) \div 2 + 1
             c == IF Len(handoffs) % 2 = 0 THEN "raw_alarm" ELSE "incident_brief"
  <2>1. /\ stage = "handoff"
        /\ source = "neutral" => Promptable
        /\ Len(handoffs) < 2 * Len(fixtures)
        /\ IsSeq(handoffs) /\ Len(handoffs) \in Nat
    BY <1>3 DEF RunCondition, ReportInv, OrderInv, NeutralInv, HandoffInv, IsSeq
  <2>2. PICK r \in HandoffRecordings(fixtures[n], c) :
          \/ /\ handoffs' = Append(handoffs, HandoffRun(fixtures[n], c, r.output))
             /\ IF Len(handoffs) + 1 = 2 * Len(fixtures)
                THEN Proceed("select") ELSE UNCHANGED <<stage, refused>>
          \/ ~Replayable(fixtures[n], c, r) /\ Refuse /\ UNCHANGED handoffs
    BY <1>3 DEF RunCondition
  <2>3. CASE /\ handoffs' = Append(handoffs, HandoffRun(fixtures[n], c, r.output))
             /\ IF Len(handoffs) + 1 = 2 * Len(fixtures)
                THEN Proceed("select") ELSE UNCHANGED <<stage, refused>>
    <3>1. Len(handoffs') = Len(handoffs) + 1
      BY <2>1, <2>3, AppendedSeq
    <3>2. /\ refused' = "no"
          /\ \/ stage' = "select"
             \/ stage' = "handoff" /\ Len(handoffs) + 1 # 2 * Len(fixtures)
      BY <1>1, <2>1, <2>3 DEF Proceed
    <3>3. OrderInv'
      <4>1. Len(fixtures) \in Nat
        BY <2>1 DEF HandoffInv
      <4> QED BY <1>1, <2>1, <3>1, <3>2, <4>1 DEF OrderInv, DistinctIds
    <3>4. NeutralInv'
      BY <1>1, <2>1, <3>2 DEF NeutralInv, ReportInv, NeutralRun, NeutralStart,
                              Current, Promptable
    <3> QED BY <3>2, <3>3, <3>4, HarmlessRefusal DEF ReportInv, RefusalInv
  <2>4. CASE ~Replayable(fixtures[n], c, r) /\ Refuse /\ UNCHANGED handoffs
    <3>1. stage' = "done" /\ refused' = "handoff"
      BY <2>1, <2>4 DEF Refuse
    <3>2. source = "neutral" => ~Promptable
      <4> SUFFICES ASSUME source = "neutral", Promptable PROVE FALSE
        OBVIOUS
      <4>1. r = NeutralHandoff(fixtures[n], c)
        <5> DEFINE given == HandoffRecordings(fixtures[n], c)
        <5>1. given = {NeutralHandoff(fixtures[n], c)}
          BY DEF HandoffRecordings
        <5> QED BY <5>1
      <4>2. n \in DOMAIN fixtures /\ c \in Conditions
        BY <2>1, Halves DEF Conditions
      <4> QED BY <2>4, <4>1, <4>2, NeutralReplayable DEF Promptable
    <3>3. OrderInv'
      BY <1>1, <3>1 DEF OrderInv
    <3>4. NeutralInv'
      BY <1>1, <2>1, <3>1 DEF NeutralInv, ReportInv, NeutralRun, NeutralStart,
                              Current
    <3>5. RefusalInv'
      BY <1>1, <3>1, <3>2 DEF RefusalInv, ScoringAcceptsReplays, Promptable
    <3> QED BY <3>3, <3>4, <3>5 DEF ReportInv
  <2> QED BY <2>2, <2>3, <2>4
<1> QED BY <1>2, <1>3

LEMMA ReportStep ==
  ASSUME GateInv, AdmitInv, HandoffInv, ReportInv, [Next]_vars
  PROVE  ReportInv'
<1>1. CASE Load
  <2>1. /\ runs = <<>> /\ runs' = runs /\ handoffs = <<>> /\ handoffs' = handoffs
        /\ rows = <<>> /\ rows' = rows /\ replay = NoReplay
        /\ replay' = NoReplay /\ NoReplay' = NoReplay /\ refused = "no"
        /\ \/ stage' = "matrix" /\ refused' = "no"
           \/ stage' = "done" /\ refused' = "load"
    BY <1>1 DEF Load, GateInv, ReportInv, OrderInv, RefusalInv, NoReplay,
                Proceed, Refuse
  <2>2. OrderInv' /\ NeutralInv'
    BY <2>1 DEF OrderInv, NeutralInv
  <2> QED BY <2>1, <2>2, HarmlessRefusal DEF ReportInv, RefusalInv
<1>2. CASE CheckMatrix
  <2>1. /\ UNCHANGED <<source, fixtures, replay, runs, rows, handoffs>>
        /\ runs = <<>> /\ handoffs = <<>> /\ rows = <<>> /\ replay = NoReplay
        /\ NoReplay' = NoReplay /\ refused = "no"
        /\ \/ /\ stage' = "replay" /\ refused' = "no"
              /\ DistinctIds /\ Len(fixtures) = FixtureCount
           \/ stage' = "done" /\ refused' = "matrix"
    BY <1>2 DEF CheckMatrix, GateInv, ReportInv, OrderInv, RefusalInv, NoReplay,
                Proceed, Refuse, MatrixMatches, Distinct, DistinctIds
  <2>2. OrderInv'
    BY <2>1, CountPositive DEF OrderInv, DistinctIds
  <2>3. NeutralInv'
    BY <2>1 DEF NeutralInv
  <2> QED BY <2>1, <2>2, <2>3, HarmlessRefusal DEF ReportInv, RefusalInv
<1>3. CASE ReplaySnapshot
  <2>1. PICK r \in Recordings(fixtures[Current], "snapshot_only") :
          Finished(Run(Current, "snapshot_only", r.final, <<>>))
    BY <1>3 DEF ReplaySnapshot
  <2> DEFINE run == Run(Current, "snapshot_only", r.final, <<>>)
  <2>2. source = "neutral" => NeutralRun(run)
    <3> SUFFICES ASSUME source = "neutral" PROVE NeutralRun(run)
      OBVIOUS
    <3>1. r = NeutralRecording(fixtures[Current], "snapshot_only")
      <4> DEFINE given == Recordings(fixtures[Current], "snapshot_only")
      <4>1. given = {NeutralRecording(fixtures[Current], "snapshot_only")}
        BY DEF Recordings
      <4> QED BY <4>1
    <3>2. r.final = SnapshotInvestigation(fixtures[Current])
      BY <3>1 DEF NeutralRecording
    <3> QED BY <3>2 DEF Run, NeutralRun
  <2>3. stage = "replay" /\ Finished(run)
    BY <1>3, <2>1 DEF ReplaySnapshot
  <2> HIDE DEF run
  <2> QED BY <2>2, <2>3, ReportFinished
<1>4. CASE StartHybrid
  <2>1. PICK r \in Recordings(fixtures[Current], "hybrid_agent") :
          replay' = [round |-> 1, recording |-> r, used |-> 0, batch |-> <<>>,
                     calls |-> <<>>]
    BY <1>4 DEF StartHybrid
  <2>2. source = "neutral" =>
          r = NeutralRecording(fixtures[Current], "hybrid_agent")
    <3> DEFINE given == Recordings(fixtures[Current], "hybrid_agent")
    <3>1. source = "neutral" =>
            given = {NeutralRecording(fixtures[Current], "hybrid_agent")}
      BY DEF Recordings
    <3> QED BY <3>1
  <2>3. /\ UNCHANGED <<stage, refused, source, fixtures, runs, rows, handoffs>>
        /\ stage = "replay"
    BY <1>4 DEF StartHybrid
  <2>4. Current' = Current
    BY <2>3 DEF Current
  <2>5. OrderInv'
    BY <2>3 DEF ReportInv, OrderInv, DistinctIds
  <2>6. source = "neutral" => replay' = NeutralStart
    BY <2>1, <2>2 DEF NeutralStart
  <2>7. NeutralStart' = NeutralStart
    BY <2>3, <2>4 DEF NeutralStart
  <2>8. NeutralInv'
    BY <2>3, <2>6, <2>7 DEF ReportInv, NeutralInv, NeutralRun
  <2> QED BY <2>3, <2>5, <2>8, HarmlessRefusal DEF ReportInv, RefusalInv
<1>5. CASE ScoreRuns
  <2>1. \A i \in DOMAIN runs : Scorable(fixtures[runs[i].of], runs[i])
    BY CallsAreScorable DEF AdmitInv
  <2>2. /\ rows' = [i \in DOMAIN runs |-> Score(fixtures[runs[i].of], runs[i])]
        /\ stage' = "compare" /\ refused' = "no"
        /\ UNCHANGED <<source, fixtures, replay, runs, handoffs>>
        /\ stage = "score"
    BY <1>5, <2>1 DEF ScoreRuns, Proceed, ReportInv, RefusalInv
  <2>3. Scored' /\ DistinctIds' /\ NoReplay' = NoReplay
    BY <2>2 DEF Scored, ReportInv, OrderInv, DistinctIds, NoReplay
  <2>4. OrderInv'
    BY <2>2, <2>3 DEF ReportInv, OrderInv
  <2>5. replay = NoReplay
    BY <2>2 DEF GateInv
  <2>6. NeutralInv'
    BY <2>2, <2>3, <2>5 DEF ReportInv, NeutralInv, NeutralRun
  <2> QED BY <2>2, <2>4, <2>6, HarmlessRefusal DEF ReportInv, RefusalInv
<1>6. CASE CompareModes
  <2>1. /\ stage = "compare" /\ refused = "no" /\ replay = NoReplay
        /\ NoReplay' = NoReplay /\ Scored /\ DistinctIds
        /\ Len(runs) = 2 * Len(fixtures)
        /\ UNCHANGED <<source, fixtures, replay, runs, rows, handoffs>>
        /\ \/ stage' = "handoff_matrix" /\ refused' = "no"
           \/ ~Comparable(rows) /\ stage' = "done" /\ refused' = "compare"
    BY <1>6 DEF CompareModes, GateInv, ReportInv, RefusalInv, OrderInv, NoReplay,
                Proceed, Refuse
  <2>2. Scored' /\ DistinctIds'
    BY <2>1 DEF Scored, DistinctIds
  <2>3. OrderInv'
    BY <2>1, <2>2 DEF ReportInv, OrderInv
  <2>4. NeutralInv'
    BY <2>1 DEF ReportInv, NeutralInv, NeutralRun
  <2>5. refused' = "compare" => ~Listed'
    BY <2>1, ListedCompare DEF Listed, FixtureIds
  <2>6. ScoringAcceptsReplays'
    BY <2>1, <2>5 DEF ScoringAcceptsReplays, Listed
  <2> QED BY <2>1, <2>3, <2>4, <2>6 DEF ReportInv, RefusalInv
<1>7. CASE SelectOperatingMode
  <2>1. /\ UNCHANGED <<source, fixtures, replay, runs, rows, handoffs>>
        /\ stage' = "done" /\ refused' = "no" /\ replay = NoReplay
        /\ NoReplay' = NoReplay
        /\ Scored' = Scored /\ DistinctIds' = DistinctIds
    BY <1>7 DEF SelectOperatingMode, GateInv, ReportInv, RefusalInv, NoReplay,
                Proceed, Scored, DistinctIds
  <2>2. OrderInv'
    BY <2>1 DEF ReportInv, OrderInv
  <2>3. NeutralInv'
    BY <2>1 DEF ReportInv, NeutralInv, NeutralRun
  <2> QED BY <2>1, <2>2, <2>3, HarmlessRefusal DEF ReportInv, RefusalInv
<1>8. CASE Ended \/ UNCHANGED vars
  <2>1. UNCHANGED vars
    BY <1>8 DEF Ended
  <2> QED BY <2>1 DEF vars, ReportInv, OrderInv, NeutralInv, RefusalInv,
       DistinctIds, Scored, NeutralRun, NeutralStart, NoReplay, Current,
       Promptable, ScoringAcceptsReplays, FixtureIds
<1> QED BY <1>1, <1>2, <1>3, <1>4, <1>5, <1>6, <1>7, <1>8, ReportLoop,
           ReportHandoff DEF Next

THEOREM Report == Spec => [](AdmitInv /\ ReportInv)
<1>1. Init => AdmitInv /\ HandoffInv /\ ReportInv
  <2> SUFFICES ASSUME Init PROVE AdmitInv /\ HandoffInv /\ ReportInv
    OBVIOUS
  <2>1. /\ DOMAIN runs = {} /\ DOMAIN fixtures = {} /\ DOMAIN handoffs = {}
        /\ IsSeq(handoffs) /\ stage = "load" /\ refused = "no"
        /\ rows = <<>> /\ handoffs = <<>> /\ replay = NoReplay
    BY EmptySeq DEF Init
  <2>2. AdmitInv
    BY <2>1 DEF AdmitInv
  <2>3. HandoffInv
    BY <2>1 DEF HandoffInv, RawAlarmSeesNothing
  <2>4. ReportInv
    BY <2>1 DEF ReportInv, OrderInv, NeutralInv, RefusalInv,
                ScoringAcceptsReplays
  <2> QED BY <2>2, <2>3, <2>4
<1>2. GateInv /\ AdmitInv /\ HandoffInv /\ ReportInv /\ [Next]_vars
        => AdmitInv' /\ HandoffInv' /\ ReportInv'
  BY AdmitStep, HandoffInvStep, ReportStep
<1> QED BY <1>1, <1>2, Gate, PTL DEF Spec

(* Whatever manifest is loaded and whatever recordings are replayed, no    *)
(* report is refused at scoring, and one is refused at the comparison only *)
(* for fixtures that are not the committed ones or not guarded as listed;  *)
(* the neutral report only where a handoff prompt cannot be built.         *)
THEOREM ReplaysScore == Spec => []ScoringAcceptsReplays
<1>1. ReportInv => ScoringAcceptsReplays
  BY DEF ReportInv, RefusalInv
<1> QED BY <1>1, Report, PTL

(* Two scores of equal calls and investigations differ in the mode alone.  *)
LEMMA ModeReplaced ==
  ASSUME NEW f, NEW a, NEW b, a.calls = b.calls,
         a.investigation = b.investigation
  PROVE  [Score(f, a) EXCEPT !.mode = b.mode] = Score(f, b)
<1> DEFINE r == Score(f, a)
           s == Score(f, b)
           q == [r EXCEPT !.mode = b.mode]
           F == {"fixture_id", "mode", "recall", "correct", "calls",
                 "unnecessary", "unsupported", "guarded", "kept"}
           V == {r[x] : x \in F} \cup {b.mode}
<1>1. /\ Recall(f, a) = Recall(f, b)
      /\ CorrectDirection(f, a) = CorrectDirection(f, b)
      /\ UnsupportedClaims(f, a) = UnsupportedClaims(f, b)
  BY DEF Recall, CorrectDirection, UnsupportedClaims
<1>2. /\ r = [x \in F |-> r[x]] /\ s = [x \in F |-> s[x]]
  BY DEF Score
<1>3. /\ s.mode = b.mode
      /\ \A x \in F \ {"mode"} : s[x] = r[x]
  <2>1. /\ r.fixture_id = s.fixture_id /\ r.recall = s.recall
        /\ r.correct = s.correct /\ r.unsupported = s.unsupported
    BY <1>1 DEF Score
  <2>2. r.calls = s.calls /\ r.unnecessary = s.unnecessary
    BY DEF Score
  <2>3. r.guarded = s.guarded /\ r.kept = s.kept /\ s.mode = b.mode
    BY DEF Score
  <2> HIDE DEF r, s
  <2> QED BY <2>1, <2>2, <2>3
<1> HIDE DEF r, s, F
<1>4. "mode" \in F
  BY DEF F
<1>5. q = [x \in F |-> IF x = "mode" THEN b.mode ELSE r[x]]
  BY <1>2, <1>4
<1>6. s = [x \in F |-> IF x = "mode" THEN b.mode ELSE r[x]]
  BY <1>2, <1>3
<1> QED BY <1>5, <1>6 DEF r, s

(* Two neutral rows of one fixture differ in their mode only. *)
LEMMA NeutralRowsEqual ==
  ASSUME GateInv, AdmitInv, ReportInv, source = "neutral"
  PROVE  NeutralNeverPromotes
<1>1. ASSUME NEW k \in DOMAIN runs
      PROVE  /\ runs[k].calls = <<>> /\ runs[k].of \in DOMAIN fixtures
             /\ runs[k].investigation
                  = SnapshotInvestigation(fixtures[runs[k].of])
             /\ runs[k].investigation.directions = <<>>
             /\ runs[k].investigation.classification = "unclassified"
  <2>1. /\ NeutralRun(runs[k]) /\ runs[k].of \in DOMAIN fixtures
    BY DEF ReportInv, NeutralInv, AdmitInv
  <2>2. \A f : /\ SnapshotInvestigation(f).directions = <<>>
               /\ SnapshotInvestigation(f).classification = "unclassified"
    BY DEF SnapshotInvestigation, Unclassified
  <2> QED BY <2>1, <2>2 DEF NeutralRun
<1>2. mode # "hybrid_agent"
  <2>1. Right("hybrid_agent") = {}
    BY <1>1 DEF Right, CorrectDirection
  <2> QED BY <2>1, GateInvMeaning DEF PromotedOnlyIfBetter
<1>3. ASSUME rows # <<>>
      PROVE  /\ \A i, j \in DOMAIN rows :
                  rows[i].fixture_id = rows[j].fixture_id =>
                    [rows[i] EXCEPT !.mode = rows[j].mode] = rows[j]
             /\ \A i \in DOMAIN rows : rows[i].guarded = rows[i].kept
  <2>1. /\ Scored /\ DistinctIds
    BY <1>3 DEF ReportInv, OrderInv
  <2>2. DOMAIN rows = DOMAIN runs
    BY <2>1 DEF Scored
  <2>3. ASSUME NEW i \in DOMAIN rows
        PROVE  /\ rows[i] = Score(fixtures[runs[i].of], runs[i])
               /\ rows[i].fixture_id = fixtures[runs[i].of].fixture_id
               /\ rows[i].mode = runs[i].mode
               /\ rows[i].guarded = rows[i].kept
    <3>1. rows[i] = Score(fixtures[runs[i].of], runs[i])
      BY <2>1, <2>2 DEF Scored
    <3>2. /\ rows[i].fixture_id = fixtures[runs[i].of].fixture_id
          /\ rows[i].mode = runs[i].mode
      BY <3>1 DEF Score
    <3>3. ASSUME NEW f, NEW run,
                 run.investigation.classification = "unclassified"
          PROVE  Score(f, run).guarded = Score(f, run).kept
      BY <3>3 DEF Score
    <3>4. rows[i].guarded = rows[i].kept
      BY <1>1, <2>2, <3>1, <3>3
    <3> QED BY <3>1, <3>2, <3>4
  <2>4. ASSUME NEW i \in DOMAIN rows, NEW j \in DOMAIN rows,
               rows[i].fixture_id = rows[j].fixture_id
        PROVE  [rows[i] EXCEPT !.mode = rows[j].mode] = rows[j]
    <3>1. runs[i].of = runs[j].of
      BY <1>1, <2>1, <2>2, <2>3, <2>4 DEF DistinctIds
    <3>2. /\ runs[i].calls = runs[j].calls
          /\ runs[i].investigation = runs[j].investigation
      BY <1>1, <2>2, <3>1
    <3> QED BY <2>3, <3>1, <3>2, ModeReplaced
  <2> QED BY <2>3, <2>4
<1>4. CASE rows = <<>>
  BY <1>2, <1>4 DEF NeutralNeverPromotes
<1> QED BY <1>2, <1>3, <1>4 DEF NeutralNeverPromotes

(* The neutral report of any committed fixtures shows two equal sides and  *)
(* never selects hybrid_agent.                                             *)
THEOREM NeutralIsEven == Spec => []NeutralNeverPromotes
<1>1. GateInv /\ AdmitInv /\ ReportInv => NeutralNeverPromotes
  BY NeutralRowsEqual DEF NeutralNeverPromotes
<1> QED BY <1>1, Gate, Report, PTL
=============================================================================

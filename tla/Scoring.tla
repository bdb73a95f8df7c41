------------------------------ MODULE Scoring -------------------------------
(***************************************************************************)
(* metrics.py: one run scored against its fixture, the paired comparison   *)
(* of both modes, the gate that may select hybrid_agent, and the reasons   *)
(* that report.py prints for it.  Counts are kept as the sets they count;  *)
(* a recall is a whole number of Scale-ths, without the rounding of the    *)
(* floats.  Measurements are left out: no decision reads them.             *)
(***************************************************************************)
EXTENDS OfflineReplay, Functions

CONSTANTS
  Committed,  \* EVALUATION_FIXTURE_IDS
  Guarded,    \* UNCLASSIFIED_FIXTURE_IDS
  Scale       \* a multiple of every number of required Evidence

-----------------------------------------------------------------------------
(* score_run.                                                              *)

(* The checks that raise ValueError. *)
Scorable(f, run) ==
  /\ Len(run.calls) <= MaxTotal
  /\ Distinct([i \in DOMAIN run.calls |-> run.calls[i].key])
  /\ Distinct([i \in DOMAIN f.tool_results |-> f.tool_results[i].key])
  /\ \A i \in DOMAIN run.calls : run.calls[i] \in Elements(f.tool_results)
  /\ NoDuplicateId(EvidenceLists(f, run.calls))

(* _statement_is_unsupported and _classification_is_unsupported. *)
UnsupportedStatement(cites, ids) ==
  \/ cites = <<>>
  \/ ~Distinct(cites)
  \/ \E i \in DOMAIN cites : cites[i] \notin ids

UnsupportedClassification(o, ids) ==
  \/ ~Distinct(o.grounds)
  \/ \E i \in DOMAIN o.grounds : o.grounds[i] \notin ids
  \/ o.classification # "unclassified" /\ o.grounds = <<>>

(* The unsupported claims of a run, each by its kind and place. *)
UnsupportedClaims(f, run) ==
  LET o == run.investigation
      ids == IdsIn(EvidenceLists(f, run.calls))
  IN ({"fact"} \X {i \in DOMAIN o.facts :
                     UnsupportedStatement(o.facts[i], ids)})
       \cup ({"direction"} \X {i \in DOMAIN o.directions :
                     UnsupportedStatement(o.directions[i].cites, ids)})
       \cup ({"classification"} \X {i \in {1} :
                     UnsupportedClassification(o, ids)})

CitedIds(o) ==
  UNION {Elements(o.facts[i]) : i \in DOMAIN o.facts}
    \cup UNION {Elements(o.directions[i].cites) : i \in DOMAIN o.directions}
    \cup Elements(o.grounds)

Recall(f, run) ==
  LET required == Elements(f.expected.required)
  IN IF required = {} THEN Scale
     ELSE Cardinality(required \cap CitedIds(run.investigation))
            * (Scale \div Cardinality(required))

CorrectDirection(f, run) ==
  /\ run.investigation.directions # <<>>
  /\ run.investigation.directions[1].label \in Elements(f.expected.labels)

Score(f, run) ==
  [fixture_id  |-> f.fixture_id,
   mode        |-> run.mode,
   recall      |-> Recall(f, run),
   correct     |-> CorrectDirection(f, run),
   calls       |-> DOMAIN run.calls,
   unnecessary |-> {i \in DOMAIN run.calls :
                      run.calls[i].tool \notin Elements(f.expected.useful)},
   unsupported |-> UnsupportedClaims(f, run),
   guarded     |-> f.expected.classification = "unclassified",
   kept        |-> /\ f.expected.classification = "unclassified"
                   /\ run.investigation.classification = "unclassified"]

-----------------------------------------------------------------------------
(* compare_modes and ComparisonMetrics.                                    *)

Comparable(rows) ==
  /\ \A i \in DOMAIN rows : rows[i].guarded <=> rows[i].fixture_id \in Guarded
  /\ Distinct([i \in DOMAIN rows |-> <<rows[i].fixture_id, rows[i].mode>>])
  /\ {<<rows[i].fixture_id, rows[i].mode>> : i \in DOMAIN rows}
       = Committed \X Modes

(* _aggregate_mode. *)
Aggregate(mode, rows) ==
  LET of == {i \in DOMAIN rows : rows[i].mode = mode}
  IN [recall      |-> SumFunction([i \in of |-> rows[i].recall]),
      correct     |-> Cardinality({i \in of : rows[i].correct}),
      calls       |-> Cardinality(UNION {{i} \X rows[i].calls : i \in of}),
      unnecessary |-> Cardinality(UNION {{i} \X rows[i].unnecessary : i \in of}),
      unsupported |-> Cardinality(UNION {{i} \X rows[i].unsupported : i \in of}),
      kept        |-> Cardinality({i \in of : rows[i].kept})]

Compare(rows) ==
  [mode \in Modes |-> Aggregate(mode, rows)]

-----------------------------------------------------------------------------
(* select_operating_mode.  Both accuracies are over the guarded fixtures,  *)
(* and both recalls over all fixtures: their numerators are compared.  The *)
(* mistake: one better fixture is enough.                                  *)
SafeHybrid(comparison) ==
  LET snapshot == comparison["snapshot_only"]
      hybrid   == comparison["hybrid_agent"]
  IN /\ hybrid.unsupported = 0
     /\ hybrid.unsupported <= snapshot.unsupported
     /\ hybrid.kept >= snapshot.kept
     /\ hybrid.recall >= snapshot.recall
     /\ 4 * hybrid.unnecessary <= hybrid.calls

SelectModeByOne(comparison) ==
  IF /\ SafeHybrid(comparison)
     /\ comparison["hybrid_agent"].correct
          >= comparison["snapshot_only"].correct + 1
  THEN "hybrid_agent" ELSE "snapshot_only"

SelectMode(comparison) ==
  IF /\ SafeHybrid(comparison)
     /\ comparison["hybrid_agent"].correct
          >= comparison["snapshot_only"].correct + 2
  THEN "hybrid_agent" ELSE "snapshot_only"

(* _gate_reasons: each reason and whether it passed. *)
GateReasons(comparison) ==
  LET snapshot == comparison["snapshot_only"]
      hybrid   == comparison["hybrid_agent"]
  IN [unsupported_claims_zero |-> hybrid.unsupported = 0,
      unsupported_claims_not_worse |->
        hybrid.unsupported <= snapshot.unsupported,
      unclassified_accuracy_not_worse |-> hybrid.kept >= snapshot.kept,
      required_evidence_recall_not_worse |-> hybrid.recall >= snapshot.recall,
      unnecessary_tool_ratio_at_most_0_25 |->
        4 * hybrid.unnecessary <= hybrid.calls,
      direction_improves_by_at_least_2 |->
        hybrid.correct >= snapshot.correct + 2]
=============================================================================

SPECIFICATION Spec
CONSTANTS
  ToolNames <- MCToolNames
  SafeIds = {"s1", "t1"}
  MaxRounds = 2
  MaxPerRound = 3
  MaxTotal = 6
  Committed = {"f1", "f2"}
  Guarded = {"f2"}
  Scale = 2
  ModelId = "model"
  PromptBudget = 1
  Manifests <- MCManifests
  Reviewed <- MCReviewed
  ReviewedOutputs <- MCReviewedOutputs
INVARIANTS ScoringAcceptsReplays HybridSupported PromotedOnlyIfBetter NeutralNeverPromotes RawAlarmSeesNothing

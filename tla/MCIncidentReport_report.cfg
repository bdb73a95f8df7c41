SPECIFICATION Spec
CONSTANTS
  ServiceCount = 2
  NameOf <- MCNameOf
  Answers <- MCAnswers
  TaskIds = {1, 2, 3}
  MaxTasks = 2
  MaxTaskPages = 2
  MaxRows = 2
  MaxChanges = 1
  MaxToolRows = 1
  SensitiveKeys = {"tokens", "sentinel"}
  SafeKey <- MCSafeKey
  UnsafeNames = {"two words"}
  Width <- MCWidth
  MaxBriefChars = 34
  TargetStates = {"healthy", "unhealthy"}
  RdsStatuses = {"available", "failed"}
  Inputs <- MCInputs
  ToolPlans <- MCToolPlans
  ToolAnswers <- MCToolAnswers
  FactTexts <- MCFactTexts
  MissingTexts <- MCMissingTexts
  AlarmArns = {"one", "both", "none"}
  PublishableIds = {"e"}
  MaxBundle = 36
  MaxIssue = 24
INVARIANTS TypeOK IdsByRank AlarmsServicesOnly NothingSecret RefusedWithCause GapsReported MetricsAccount
PROPERTIES WholeOrFailed LastingTasksSeen

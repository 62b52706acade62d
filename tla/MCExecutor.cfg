SPECIFICATION FairSpec
CONSTANTS
  heavy = heavy
  risky = risky
  Tasks = {heavy, risky}
  Verticals = {"CERES", "ATHENA"}
  Instance = "ceres"
  NeedsApproval <- MCNeedsApproval
  TimeoutActions <- MCTimeoutActions
  Commands = {"RECALL_FOR_UPDATE", "REDEPLOY"}
  Capacity = 112
  Cost <- MCCost
  NoTask = NoTask
  Home = Home
  Elsewhere = Elsewhere
INVARIANTS
  HeldWithoutTask
  ApprovalRespected
  WorksAtTarget
PROPERTIES
  ServesTasks
  TaskEnds
  LowIsRefilled
  LoopGoesOn

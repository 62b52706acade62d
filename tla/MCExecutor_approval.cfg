SPECIFICATION Spec
CONSTANTS
  heavy = heavy
  risky = risky
  Tasks = {heavy, risky}
  Verticals = {"ATHENA"}
  Instance = "ceres"
  NeedsApproval <- MCNeedsApproval
  TimeoutActions <- MCTimeoutActions
  Commands = {"RECALL_FOR_UPDATE", "REDEPLOY"}
  Capacity = 112
  Cost <- MCCost
  NoTask = NoTask
  Home = Home
  Elsewhere = Elsewhere
INVARIANT ApprovalRequired

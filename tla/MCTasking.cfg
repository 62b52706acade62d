SPECIFICATION TaskingSpec
CONSTANTS
  Questions <- MCQuestions
  Counts = {0, 2}
  Requests <- MCRequests
  Vertical = "CERES"
INVARIANTS
  NothingLeftOut
  EndsByItself
  RiskNeverLowers
  AskingIsFixed
CHECK_DEADLOCK FALSE

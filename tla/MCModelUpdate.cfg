SPECIFICATION FairSpec
CONSTANTS
  a = a
  b = b
  Scouts = {a, b}
  Registry <- MCRegistry
  MaxVersion = 2
  MaxDrifts = 1
  MaxRestarts = 1
INVARIANTS
  ConfirmedHasLoaded
PROPERTY RecallIsLifted
CHECK_DEADLOCK FALSE

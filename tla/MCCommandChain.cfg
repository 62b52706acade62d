SPECIFICATION CommandSpec
CONSTANTS
  MaxCode = 9
  Gps = 0
  MaxFrames = 2
  MaxFaults = 1
  HitAt = {2}
  Me <- MCMe
  Other <- MCOther
  Leader <- MCLeader
  Orders <- MCOrders
  Reports <- MCReports
  MaxOrders = 2
INVARIANTS
  FramesArrive
  HeldAsOrdered
PROPERTIES
  PlansAsTold
  ResumesByItself
CHECK_DEADLOCK FALSE

SPECIFICATION FairSpec
CONSTANTS
  Detections = {1, 2, 3, 4}
  Unreadable = {1}
  MaxSize = 3
  Batch = 2
PROPERTIES
  AtLeastOnce
  SyncedGiveWayFirst
  DeliveredInTheEnd
  ModeSettles

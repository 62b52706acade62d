SPECIFICATION FairSpec
CONSTANTS
  RingLines = 2
  MaxAttempts = 6
  MaxAcks = 2
  QuickReopen = FALSE
  SlowHost = FALSE
INVARIANTS
  StreamsToTheAnnounced
PROPERTY StreamsInTheEnd

CONSTANTS
  Cuts = {1, 2, 3, 5}
  MaxSize = 200
  BatchSize = 2
  QueueSize = 1
  Streams <- MCStreams
SPECIFICATION FairSpec
CHECK_DEADLOCK FALSE
INVARIANTS
  TypeOK
  DecodedAsSent
PROPERTIES
  PacedArrives

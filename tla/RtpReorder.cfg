SPECIFICATION FairSpec
CONSTANTS
  FirstBatch = 1
  MaxQueueSize = 4
  SNMax = 4
  MaxArrivals = 6
INVARIANTS
  TypeOK
  BoundedQueue
  EachPacketOnce
  OnlyDuplicatesLeftBehind
  StallIsForMissing
PROPERTY
  StopIsHeeded

SPECIFICATION StreamSpec
CONSTANTS
  FirstBatch = 2
  MaxQueueSize = 4
  SNMax = 4
  MaxArrivals = 8
  LastRound = 10
INVARIANT
  NothingLeftBehind
PROPERTY
  StreamIsOrdered

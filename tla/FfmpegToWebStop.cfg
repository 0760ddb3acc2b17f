SPECIFICATION Spec
CONSTANT
  MaxStreams = 2
INVARIANT
  StopExitsThread

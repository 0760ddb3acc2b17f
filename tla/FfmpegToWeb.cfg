SPECIFICATION FairSpec
CONSTANT
  MaxStreams = 2
INVARIANTS
  TypeOK
  CopiesBetweenOpenContexts
  CrashCause
  LeakCause
PROPERTY
  StopEndsThread

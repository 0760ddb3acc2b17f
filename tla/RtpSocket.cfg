SPECIFICATION Spec
CONSTANTS
  Objects = {cam1, cam2}
  Handles = {s1, s2, s3}
  Closed = closed
  Retries = 2
SYMMETRY Symmetry
INVARIANTS
  TypeOK
  StrayUse
  LeakCause
  OnlyStraysWait

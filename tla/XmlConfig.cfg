SPECIFICATION Spec
CONSTANTS
  Values = {v, w}
  NoFile = noFile
  Blank = blank
  Long = long
  BlankFields = {"ID", "IP"}
  MaxInserts = 2
  MaxPlatforms = 2
INVARIANT
  FaultCause
PROPERTY
  ReadBack

SPECIFICATION Spec
CONSTANTS
  Cameras = {cam1, cam2}
  Nobody = nobody
  MaxStarts = 2
SYMMETRY CameraSymmetry
INVARIANTS
  TypeOK
  MediaHasItsCall
  NoRunawayTranscoder
  NoOrphanCall
  NoRunawayReceiver
  MediaStartedOnce
  CrashCause
PROPERTIES
  RequestsAreAtomic
  StopEndsOwnCall

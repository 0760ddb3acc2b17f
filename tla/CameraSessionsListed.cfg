SPECIFICATION Spec
CONSTANTS
  Cameras = {cam1}
  Nobody = nobody
  MaxStarts = 2
INVARIANT ListedCamerasArePlaying

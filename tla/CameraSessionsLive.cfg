SPECIFICATION FairSpec
CONSTANTS
  Cameras = {cam1}
  Nobody = nobody
  MaxStarts = 2
PROPERTIES
  AnswerIsAcknowledged
  StopEndsMedia

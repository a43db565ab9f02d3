SPECIFICATION FairSpec
CONSTANTS
  None = None
  Names = {s1}
  MaxFrames = 2
INVARIANTS
  Faithful
PROPERTIES
  FramesArrive
  HandlersReturn
  FinishedStreamsEnd
CHECK_DEADLOCK FALSE

SPECIFICATION Spec
CONSTANTS
  NumPkts = 2
  Files <- AllFiles
  VIDEO_PICTURE_QUEUE_SIZE = 1
  MAX_AUDIO_SIZE = 0
  MAX_VIDEO_SIZE = 1
  FrameFailMax = 1
  MaxEvents = 3
  MaxCmds = 2
  AudioFrames = 1
  Chunks = 1
INVARIANTS TypeOK QueueFifo SizeBound ShownOrder PictureSafe RefreshOnce NoLostWake
PROPERTIES FramesShown PlayEnds QuitEnds
\* The program ends.
CHECK_DEADLOCK FALSE

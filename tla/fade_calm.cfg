SPECIFICATION FrameSpec
CONSTANTS
  FadeMax = 2
  MaxLoop = 2
  MaxCmds = 3
  TimerUpds = 0
  Commands <- CalmCommands
  Preempt <- OnlyUpdate
  LoadMayFail = FALSE
INVARIANTS RenderLive DestroyOnce FadeShown
\* The bound on the commands lets the system come to rest.
CHECK_DEADLOCK FALSE

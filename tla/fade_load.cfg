SPECIFICATION Spec
CONSTANTS
  FadeMax = 2
  MaxLoop = 1
  MaxCmds = 3
  TimerUpds = 0
  Commands <- PlainCommands
  Preempt <- OnlyLoad
  LoadMayFail = FALSE
INVARIANTS RenderLive
\* The bound on the commands lets the system come to rest.
CHECK_DEADLOCK FALSE

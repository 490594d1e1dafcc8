SPECIFICATION Spec
CONSTANTS
  FadeMax = 3
  MaxLoop = 1
  MaxCmds = 2
  TimerUpds = 0
  Commands <- OnlyFadeout
  Preempt <- OnlyLag
  LoadMayFail = FALSE
PROPERTIES CommandsResume
\* The bound on the commands lets the system come to rest.
CHECK_DEADLOCK FALSE

SPECIFICATION Spec
CONSTANTS
  FadeMax = 2
  MaxLoop = 1
  MaxCmds = 2
  TimerUpds = 0
  Commands <- CalmCommands
  Preempt <- OnlyHandler
  LoadMayFail = FALSE
PROPERTIES CommandsResume
\* The bound on the commands lets the system come to rest.
CHECK_DEADLOCK FALSE

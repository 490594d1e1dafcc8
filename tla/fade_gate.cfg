SPECIFICATION Spec
CONSTANTS
  FadeMax = 2
  MaxLoop = 2
  MaxCmds = 2
  TimerUpds = 1
  Commands <- CalmCommands
  Preempt <- FaderAndLoad
  LoadMayFail = FALSE
PROPERTIES GateRefinement CommandsResume
\* The bound on the commands lets the system come to rest.
CHECK_DEADLOCK FALSE

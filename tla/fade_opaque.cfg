SPECIFICATION Spec
CONSTANTS
  FadeMax = 2
  MaxLoop = 2
  MaxCmds = 1
  TimerUpds = 0
  Commands <- CalmCommands
  Preempt <- Nowhere
  LoadMayFail = FALSE
INVARIANTS FinalOpaque
\* The bound on the commands lets the system come to rest.
CHECK_DEADLOCK FALSE

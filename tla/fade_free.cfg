SPECIFICATION Spec
CONSTANTS
  FadeMax = 2
  MaxLoop = 1
  MaxCmds = 2
  TimerUpds = 0
  Commands <- AllCommands
  Preempt <- Everywhere
  LoadMayFail = TRUE
INVARIANTS TypeOK AdmittedIdle ExclusiveFade
PROPERTIES GateOpensIdle FadesEnd
\* The bound on the commands lets the system come to rest.
CHECK_DEADLOCK FALSE

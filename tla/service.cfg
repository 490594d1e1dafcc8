SPECIFICATION Spec
CONSTANTS
  Clients = {"c1", "c2"}
  Requests <- AllRequests
  Scripts <- AllScripts
  RunScript <- Nested
  TEXTURE_SLOTS = 1
  BufSize = 1
  BufStep = 1
  Backlog = 1
  MaxEvents = 1
INVARIANTS TypeOK ScriptFirst ServedOnce BufferFits SlotsReady
PROPERTIES AnsweredRuns QueueMoves QuitEnds
\* The program ends.
CHECK_DEADLOCK FALSE

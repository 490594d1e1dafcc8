SPECIFICATION Spec
CONSTANTS
  Digit = 4
  Glow = 8
  Dim = 4
  NUM_LEDS = 3
  Requests <- AllRequests
  MaxRequests = 3
  Rounds = 3
  Lists <- AllLists
  Rises = {0, 2, 5}
  Steps = {0, 2, 5}
  MaxCalls = 3
INVARIANTS TypeOK MailSafe StripShown CallsLand
PROPERTIES Served
\* Either program may end.
CHECK_DEADLOCK FALSE

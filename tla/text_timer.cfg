SPECIFICATION Spec
CONSTANTS
  NumTexts = 2
  MaxTimeout = 2
  MaxCmds = 2
  Fades = TRUE
  HasPicture = TRUE
  Flips = FALSE
  Interrupts <- TimerAnywhere
INVARIANTS TypeOK TextLive RecursionBound TextShown TextGone TextLasts
PROPERTIES RedrawFrees

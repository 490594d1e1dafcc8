SPECIFICATION Spec
CONSTANTS
  NumTexts = 2
  MaxTimeout = 2
  MaxCmds = 1
  Fades = FALSE
  HasPicture = TRUE
  Flips = FALSE
  Interrupts <- TimerAnywhere
PROPERTIES TextLeaves

\* A saved event is left for its copy, and Back is pressed.
SPECIFICATION Spec
CONSTANTS
  e1 = e1  e2 = e2  w1 = w1  w2 = w2
  None = None  Failed = Failed
  Events = {e1, e2}
  Writes = {w1}
  Ops = {"save", "duplicate"}
  TicketPages = 1
  MaxEdits = 1
  MaxWrites = 2
SYMMETRY WriteSymmetry
PROPERTIES ObsoleteHidden
CHECK_DEADLOCK FALSE

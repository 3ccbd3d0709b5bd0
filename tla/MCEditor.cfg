\* One event and one that may be created, two writes that may overlap.
SPECIFICATION Spec
CONSTANTS
  e1 = e1  e2 = e2  w1 = w1  w2 = w2
  None = None  Failed = Failed
  Events = {e1, e2}
  Writes = {w1, w2}
  Ops = {"create", "save", "publish", "unpublish", "cancel", "duplicate",
         "ticket", "refund-policy", "profile"}
  TicketPages = 2
  MaxEdits = 2
  MaxWrites = 2
SYMMETRY WriteSymmetry
INVARIANTS TypeOK SavedMeansStored NeverStaleTickets DialogMatchesStatus
PROPERTIES DraftSurvives
CHECK_DEADLOCK FALSE

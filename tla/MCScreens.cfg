\* An organizer and another user, two requests that may overlap.
SPECIFICATION Spec
CONSTANTS
  a = a  b = b  c1 = c1  c2 = c2
  None = None
  Users = {a, b}
  Organizers = {a}
  Calls = {c1, c2}
  Addresses = {"organizer"}
  MaxEdits = 2
  MaxSaves = 2
SYMMETRY CallSymmetry
INVARIANTS TypeOK OwnData
PROPERTIES AbandonedFormsStayQuiet SignInLeadsBack NothingReverted
CHECK_DEADLOCK FALSE

\* Two users, a start with or without a stored token, a sign-in over it.
SPECIFICATION Spec
CONSTANTS
  a = a  b = b  boot = boot  c1 = c1  f1 = f1  f2 = f2
  None = None
  Users = {a, b}
  Calls = {boot, c1}
  Boot = boot
  Flights = {f1, f2}
  Ops = {"get", "reload"}
  StorageFails = TRUE
  MaxTokens = 3
  MaxLogins = 1
  MaxCrashes = 0
SYMMETRY SessionSymmetry
INVARIANTS ShowsItsAccount RaisesNoAlarm
PROPERTIES NoneSlipsAway
CHECK_DEADLOCK FALSE

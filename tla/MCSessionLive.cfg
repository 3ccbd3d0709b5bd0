\* One user and a restart: what the disk holds, and that every call settles.
SPECIFICATION FairSpec
CONSTANTS
  a = a  b = b  boot = boot  c1 = c1  f1 = f1  f2 = f2
  None = None
  Users = {a}
  Calls = {boot, c1}
  Boot = boot
  Flights = {f1}
  Ops = {"post"}
  StorageFails = TRUE
  MaxTokens = 2
  MaxLogins = 1
  MaxCrashes = 1
INVARIANTS TypeOK DiskFollowsSession
PROPERTIES SpendsOnce CallsSettle ImplementsAccount
CHECK_DEADLOCK FALSE

\* General admission: two orders, two requests in flight, stale statuses included.
SPECIFICATION Spec
CONSTANTS
  u1 = u1  u2 = u2  s1 = s1  s2 = s2  free = free  paid = paid
  g1 = g1  g2 = g2  g3 = g3  o1 = o1  o2 = o2  o3 = o3  r1 = r1  r2 = r2
  None = None
  Users = {u1}
  Seats = {s1}
  TicketTypes = {free, paid}
  FreeTypes = {free}
  SeatsOf <- AnySeat
  Total <- TwoEach
  Groups = {g1}
  Orders = {o1, o2}
  Requests = {r1, r2}
  MaxPerOrder = 2
  Assigned = FALSE
  HoldDuration = 1
  SalesClose = 2
  MaxTime = 2
  MaxWait = 1
  OrderBatch = 2
  HoldBatch = 1
SYMMETRY GeneralSymmetry
INVARIANTS CountersWithinChecks GAAccounting
CHECK_DEADLOCK FALSE

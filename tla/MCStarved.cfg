\* General admission: one unit, two paid orders, one confirmation in flight.
SPECIFICATION Deployed
CONSTANTS
  u1 = u1  u2 = u2  s1 = s1  s2 = s2  free = free  paid = paid
  g1 = g1  g2 = g2  g3 = g3  o1 = o1  o2 = o2  o3 = o3  r1 = r1  r2 = r2
  None = None
  Users = {u1}
  Seats = {s1}
  TicketTypes = {paid}
  FreeTypes = {}
  SeatsOf <- AnySeat
  Total <- OneEach
  Groups = {g1}
  Orders = {o1, o2}
  Requests = {r1}
  MaxPerOrder = 1
  Assigned = FALSE
  HoldDuration = 1
  SalesClose = 2
  MaxTime = 2
  MaxWait = 1
  OrderBatch = 1
  HoldBatch = 1
PROPERTIES PendingOrdersEnd
CHECK_DEADLOCK FALSE

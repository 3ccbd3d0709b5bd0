\* Both workers running, batches of one, two seats that can be due at once.
SPECIFICATION WithHoldWorker
CONSTANTS
  u1 = u1  u2 = u2  s1 = s1  s2 = s2  free = free  paid = paid
  g1 = g1  g2 = g2  g3 = g3  o1 = o1  o2 = o2  o3 = o3  r1 = r1  r2 = r2
  None = None
  Users = {u1}
  Seats = {s1, s2}
  TicketTypes = {paid}
  FreeTypes = {}
  SeatsOf <- AnySeat
  Total <- TwoEach
  Groups = {g1, g2}
  Orders = {o1, o2}
  Requests = {r1}
  MaxPerOrder = 2
  Assigned = TRUE
  HoldDuration = 1
  SalesClose = 1
  MaxTime = 1
  MaxWait = 1
  OrderBatch = 1
  HoldBatch = 1
PROPERTIES SeatOrdersEnd HoldsEnd
CHECK_DEADLOCK FALSE

\* Assigned seats: two seats, a free and a paid type for either, one request.
SPECIFICATION Spec
CONSTANTS
  u1 = u1  u2 = u2  s1 = s1  s2 = s2  free = free  paid = paid
  g1 = g1  g2 = g2  g3 = g3  o1 = o1  o2 = o2  o3 = o3  r1 = r1  r2 = r2
  None = None
  Users = {u1, u2}
  Seats = {s1, s2}
  TicketTypes = {free, paid}
  FreeTypes = {free}
  SeatsOf <- AnySeat
  Total <- TwoFree
  Groups = {g1, g2}
  Orders = {o1, o2}
  Requests = {r1}
  MaxPerOrder = 2
  Assigned = TRUE
  HoldDuration = 1
  SalesClose = 2
  MaxTime = 2
  MaxWait = 1
  OrderBatch = 2
  HoldBatch = 1
SYMMETRY SeatSymmetry
INVARIANTS TypeOK OneActiveRowPerSeat RowsFollowGroup SeatAccounting
INVARIANTS SoldSeatsHaveTickets TicketsFollowOrder
PROPERTIES HoldKeepsItsOrder ImplementsMarket OrderMoves
CHECK_DEADLOCK FALSE

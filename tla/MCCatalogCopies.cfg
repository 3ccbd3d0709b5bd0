\* Two events, one perhaps the copy of the other, and an order of each.
SPECIFICATION Spec
CONSTANTS
  e1 = e1  e2 = e2  k1 = k1  k2 = k2  o1 = o1  o2 = o2  r1 = r1  r2 = r2
  hall = hall
  None = None
  Events = {e1, e2}
  Types = {k1}
  Orders = {o1, o2}
  Requests = {r1}
  Capacities = {1, 2}
  Quantities = {1, 2}
  Prices = {0, 1}
  Seatings = {"general_admission", "assigned"}
  Layouts = {hall}
  PaidSales = TRUE
SYMMETRY CatalogSymmetry
INVARIANTS CountersBelongToOrders
CHECK_DEADLOCK FALSE

\* One event, in either seating mode: two management requests, which may overlap,
\* among two buyers whose payments and cancellations judge by old statuses.
SPECIFICATION Spec
CONSTANTS
  e1 = e1  e2 = e2  k1 = k1  k2 = k2  o1 = o1  o2 = o2  r1 = r1  r2 = r2
  hall = hall
  None = None
  Events = {e1}
  Types = {k1, k2}
  Orders = {o1, o2}
  Requests = {r1, r2}
  Capacities = {2, 3}
  Quantities = {0, 1, 2}
  Prices = {0, 1}
  Seatings = {"general_admission", "assigned"}
  Layouts = {hall}
  PaidSales = TRUE
SYMMETRY CatalogSymmetry
INVARIANTS TypeOK OrdersOnlyWhilePublished OrdersKeepTheirPrice AllocatedWithinTotal
INVARIANTS CapacityCoversTypes AssignedHasLayout
PROPERTIES SeatingFixedByOrders CancelledIsFinal
CHECK_DEADLOCK FALSE

---------------------------- MODULE EventCatalog ----------------------------
(***************************************************************************)
(* Events (P2) and their ticket types (P3): what organisers may edit while *)
(* the public holds seats and buys.                                        *)
(*                                                                         *)
(* Every management route depends on check_event_access, which loads the   *)
(* event; the route keeps the object, so the locking SELECT of the service *)
(* finds it in the session's identity map and keeps its attributes.  A     *)
(* management request is therefore two actions: it reads the event, and    *)
(* later, under the event lock, it judges by what it has `seen`.  What it  *)
(* queries there (ticket quantities, orders, the ticket type) is current.  *)
(* Of the event, only attributes that differ from what was seen are        *)
(* written.  Checkout loads the event first under the lock: no stale read. *)
(* Payments and cancellations, in their turn, judge an order by the status  *)
(* it had before the lock, however long ago: module Checkout has the reads, *)
(* here any status that an order once had may have been read.              *)
(***************************************************************************)
EXTENDS TicketCounters, FiniteSets

CONSTANTS
  Events, Types,        \* identities of events, and of types of one event
  Orders, Requests,     \* orders; management requests in flight
  Capacities,           \* capacities an organiser may ask for
  Quantities, Prices,   \* quantity_total and price_amount asked for; 0: free
  Seatings, Layouts,    \* seating modes in use; venue layouts
  PaidSales,            \* paid_sales_status is active (P6 will set it)
  None                  \* SQL NULL

ASSUME CatalogAssumption ==
  /\ IsFiniteSet(Types) /\ IsFiniteSet(Orders)
  /\ Capacities \subseteq Nat /\ Quantities \subseteq Nat
  /\ Prices \subseteq Nat
  /\ Seatings \subseteq {"general_admission", "assigned"}
  /\ PaidSales \in BOOLEAN
  /\ None \notin Events \cup Layouts

VARIABLES
  events,    \* events, once inserted
  types,     \* types[e][k]: the ticket_types row k of event e
  held,      \* held[e][k]: units of it on seat holds that are no order's yet
  orders,    \* orders, of one item each
  reqs,      \* management requests between the read and the lock
  outdated,  \* history: events on which one acted that saw an older event
  late       \* history: orders paid or refunded by an outdated status

vars == <<events, types, held, orders, reqs, outdated, late>>

NoEvent == [status |-> "none", capacity |-> 0,
            seating |-> "general_admission", layout |-> None]
NoType == [exists |-> FALSE, total |-> 0, price |-> 0, units |-> NoUnits]
NoOrder == [status |-> "none", event |-> None, type |-> None,
            quantity |-> 0, price |-> 0]
NoRequest == [event |-> None, seen |-> NoEvent]

Init ==
  /\ events = [e \in Events |-> NoEvent]
  /\ types = [e \in Events |-> [k \in Types |-> NoType]]
  /\ held = [e \in Events |-> [k \in Types |-> 0]]
  /\ orders = [o \in Orders |-> NoOrder]
  /\ reqs = [r \in Requests |-> NoRequest]
  /\ outdated = {} /\ late = {}

-----------------------------------------------------------------------------
(* What is queried under the lock.                                         *)

(* The sum of f over S, as the number of units it stands for.               *)
UnitsIn(f, S) == UNION {{x} \X (1..f[x]) : x \in S}
SumOf(f, S) == Cardinality(UnitsIn(f, S))

TotalOf(e, K) == SumOf([k \in Types |-> types[e][k].total], K)

(* _ticket_quantity and _total_other_capacity.                             *)
TicketQuantity(e) == TotalOf(e, Types)
TotalOther(e, k) == TotalOf(e, Types \ {k})

OrdersOf(e) == {o \in Orders : orders[o].status # "none" /\ orders[o].event = e}

(* Mutant: only orders that still hold units count.                        *)
HasLiveOrders(e) ==
  \E o \in OrdersOf(e) : orders[o].status \in {"pending", "confirmed"}

HasOrders(e) == OrdersOf(e) # {}

(* Units that a new quantity_total may not go below.                       *)
(* Mutant: reservations are forgotten.                                     *)
SoldOnly(c) == c.sold - c.refunded
AlreadyAllocated(c) == InUse(c)

(* Mutant: a reservation alone does not lock the price.                    *)
SoldLocksPrice(c) == c.sold # 0
PriceLocked(c) == c.reserved # 0 \/ c.sold # 0

-----------------------------------------------------------------------------
(* What the schemas validate.                                              *)

Configurations ==
  [capacity : Capacities, seating : Seatings, layout : Layouts \cup {None}]

(* Mutant: the layout is looked at only when the seating mode is set.       *)
ValidWhenSet(old, m) ==
  /\ m.capacity > 0
  /\ m.seating = "assigned" /\ old.seating # "assigned" => m.layout # None

(* EventCreate.validate_event of the PATCH merged into what was seen.       *)
ValidEvent(old, m) ==
  /\ m.capacity > 0
  /\ m.seating = "assigned" => m.layout # None

(* Mutant: an empty quantity is let through.                               *)
AnyTotal(total) == TRUE
ValidTotal(total) == total > 0

(* Mutants: a cancelled event can be edited; the venue layout may change    *)
(* under the orders; capacity is compared with nothing.                    *)
AnyStatus(seen) == TRUE
NotCancelled(seen) == seen.status # "cancelled"

ModeChanged(seen, m) == m.seating # seen.seating
SeatingChanged(seen, m) == m.seating # seen.seating \/ m.layout # seen.layout

AnyCapacity(e, seen, m) == TRUE
CapacityFits(e, seen, m) ==
  m.capacity # seen.capacity => m.capacity >= TicketQuantity(e)

-----------------------------------------------------------------------------
(* Management requests.                                                    *)

(* check_event_access loads the event.                                     *)
Read(r, e) ==
  /\ reqs[r] = NoRequest
  /\ events[e].status # "none"
  /\ reqs' = [reqs EXCEPT ![r] = [event |-> e, seen |-> events[e]]]
  /\ UNCHANGED <<events, types, held, orders, outdated, late>>

Finish(r) ==
  /\ reqs[r] # NoRequest
  /\ reqs' = [reqs EXCEPT ![r] = NoRequest]
  /\ UNCHANGED <<held, orders, late>>

(* The handler raises, finds nothing to change, or only reads.             *)
Refuse(r) == Finish(r) /\ UNCHANGED <<events, types, outdated>>

(* What the request saw is no longer so, or came about in that way.        *)
Outdated(r) ==
  reqs[r].seen # events[reqs[r].event] \/ reqs[r].event \in outdated

(* The request writes event e.                                             *)
Write(r, e) ==
  /\ Finish(r)
  /\ outdated' = IF Outdated(r) THEN outdated \cup {e} ELSE outdated

CreateEvent(e, m) ==
  /\ events[e].status = "none"
  /\ ValidEvent(NoEvent, m)
  /\ events' = [events EXCEPT ![e] =
                  [status |-> "draft", capacity |-> m.capacity,
                   seating |-> m.seating, layout |-> m.layout]]
  /\ UNCHANGED <<types, held, orders, reqs, outdated, late>>

SetStatus(e, status) ==
  /\ events' = [events EXCEPT ![e].status = status]
  /\ UNCHANGED types

PublishEvent(r) ==
  LET e == reqs[r].event  seen == reqs[r].seen IN
  /\ Write(r, e)
  /\ seen.status = "draft"
  /\ TicketQuantity(e) >= 1 /\ seen.capacity >= TicketQuantity(e)
  /\ SetStatus(e, "published")

UnpublishEvent(r) ==
  LET e == reqs[r].event  seen == reqs[r].seen IN
  /\ Write(r, e)
  /\ seen.status = "published" /\ ~HasOrders(e)
  /\ SetStatus(e, "draft")

CancelEvent(r) ==
  LET e == reqs[r].event  seen == reqs[r].seen IN
  /\ Write(r, e)
  /\ NotCancelled(seen) /\ ~HasOrders(e)
  /\ SetStatus(e, "cancelled")

(* An attribute set to the value that was seen is not written.             *)
Written(now, seen, m) ==
  [now EXCEPT
    !.capacity = IF m.capacity = seen.capacity THEN @ ELSE m.capacity,
    !.seating = IF m.seating = seen.seating THEN @ ELSE m.seating,
    !.layout = IF m.layout = seen.layout THEN @ ELSE m.layout]

(* m is the PATCH merged into what was seen.                               *)
UpdateEvent(r, m) ==
  LET e == reqs[r].event  seen == reqs[r].seen IN
  /\ Write(r, e)
  /\ NotCancelled(seen)
  /\ ValidEvent(seen, m)
  /\ CapacityFits(e, seen, m)
  /\ SeatingChanged(seen, m) => ~HasOrders(e)
  /\ events' = [events EXCEPT ![e] = Written(@, seen, m)]
  /\ UNCHANGED types

(* Mutant: the copy of a ticket type keeps the counters of its original.    *)
CopyWithUnits(row) == row
CopyOf(row) == [row EXCEPT !.units = NoUnits]

(* The copy takes the configuration seen and the ticket types found.       *)
DuplicateEvent(r, copy) ==
  LET e == reqs[r].event  seen == reqs[r].seen IN
  /\ Write(r, copy)
  /\ events[copy].status = "none"
  /\ events' = [events EXCEPT ![copy] = [seen EXCEPT !.status = "draft"]]
  /\ types' = [types EXCEPT ![copy] = [k \in Types |-> CopyOf(types[e][k])]]

CreateTicketType(r, k, total, price) ==
  LET e == reqs[r].event  seen == reqs[r].seen IN
  /\ Write(r, e)
  /\ ~types[e][k].exists
  /\ ValidTotal(total)
  /\ NotCancelled(seen)
  /\ TicketQuantity(e) + total <= seen.capacity
  /\ types' = [types EXCEPT ![e][k] = [exists |-> TRUE, total |-> total,
                                       price |-> price, units |-> NoUnits]]
  /\ UNCHANGED events

UpdateTicketType(r, k, total, price) ==
  LET e == reqs[r].event  seen == reqs[r].seen  row == types[e][k] IN
  /\ Write(r, e)
  /\ row.exists
  /\ ValidTotal(total)
  /\ NotCancelled(seen)
  /\ total >= AlreadyAllocated(row.units)
  /\ total + TotalOther(e, k) <= seen.capacity
  /\ price # row.price => ~PriceLocked(row.units)
  /\ types' = [types EXCEPT ![e][k].total = total, ![e][k].price = price]
  /\ UNCHANGED events

-----------------------------------------------------------------------------
(* The public: what module Checkout does in detail, here in units of one    *)
(* type.  The event is read under its lock.                                *)

OnSale(e, k) ==
  /\ events[e].status = "published"
  /\ types[e][k].exists
  /\ types[e][k].price = 0 \/ PaidSales

Count(e, k, units) == types' = [types EXCEPT ![e][k].units = units]

HoldSeats(e, k, n) ==
  LET row == types[e][k] IN
  /\ OnSale(e, k)
  /\ events[e].seating = "assigned" /\ events[e].layout # None
  /\ n > 0 /\ CanReserve(row.units, n, row.total)
  /\ Count(e, k, Reserve(row.units, n))
  /\ held' = [held EXCEPT ![e][k] = @ + n]
  /\ UNCHANGED <<events, orders, reqs, outdated, late>>

(* The buyer or a worker gives the units of a hold back.                   *)
EndHold(e, k, n) ==
  /\ n \in 1..held[e][k]
  /\ CanRelease(types[e][k].units, n)
  /\ Count(e, k, Release(types[e][k].units, n))
  /\ held' = [held EXCEPT ![e][k] = @ - n]
  /\ UNCHANGED <<events, orders, reqs, outdated, late>>

Place(o, e, k, n) ==
  /\ OnSale(e, k)
  /\ n > 0 /\ orders[o].status = "none"
  /\ orders' = [orders EXCEPT ![o] =
       [status |-> IF types[e][k].price = 0 THEN "confirmed" ELSE "pending",
        event |-> e, type |-> k, quantity |-> n, price |-> types[e][k].price]]
  /\ UNCHANGED <<events, reqs, outdated, late>>

(* A free order is confirmed in the transaction that places it.            *)
Settled(row, units, n) == IF row.price = 0 THEN Confirm(units, n) ELSE units

PlaceGeneralOrder(o, e, k, n) ==
  LET row == types[e][k] IN
  /\ Place(o, e, k, n)
  /\ events[e].seating = "general_admission"
  /\ CanReserve(row.units, n, row.total)
  /\ Count(e, k, Settled(row, Reserve(row.units, n), n))
  /\ UNCHANGED held

PlaceSeatOrder(o, e, k, n) ==
  LET row == types[e][k] IN
  /\ Place(o, e, k, n)
  /\ events[e].seating = "assigned" /\ events[e].layout # None
  /\ n <= held[e][k] /\ CanConfirm(row.units, n)
  /\ Count(e, k, Settled(row, row.units, n))
  /\ held' = [held EXCEPT ![e][k] = @ - n]

Settle(o, status) ==
  /\ orders' = [orders EXCEPT ![o].status = status]
  /\ UNCHANGED <<events, held, reqs, outdated>>

UnitsOf(o) == types[orders[o].event][orders[o].type].units

(* The order has hold rows: orders fix the seating of their event.         *)
Seated(o) == events[orders[o].event].seating = "assigned"

(* The status by which a payment or a cancellation judges was read before   *)
(* the lock.  With seats, the hold rows tell whether it still is: they must *)
(* be held for confirm_hold, and converted for _cancel_free.               *)
StillIs(o, status) == orders[o].status # "none" /\ (Seated(o) => orders[o].status = status)

Note(o, status) ==
  late' = IF orders[o].status = status THEN late ELSE late \cup {o}

(* Orders with a price begin as pending, ...                               *)
PayOrder(o) ==
  /\ orders[o].price # 0 /\ StillIs(o, "pending")
  /\ CanConfirm(UnitsOf(o), orders[o].quantity)
  /\ Count(orders[o].event, orders[o].type, Confirm(UnitsOf(o), orders[o].quantity))
  /\ Settle(o, "confirmed")
  /\ Note(o, "pending")

(* The order expires, fails or is cancelled; or its seats are given back    *)
(* and it stays pending ("stranded") until its deadline.                   *)
EndPending(o) ==
  /\ orders[o].status = "pending"
  /\ CanRelease(UnitsOf(o), orders[o].quantity)
  /\ Count(orders[o].event, orders[o].type, Release(UnitsOf(o), orders[o].quantity))
  /\ Settle(o, "released") \/ (Seated(o) /\ Settle(o, "stranded"))
  /\ UNCHANGED late

EndStranded(o) ==
  /\ orders[o].status = "stranded"
  /\ UNCHANGED <<types, late>>
  /\ Settle(o, "released")

(* ... free ones as confirmed.                                             *)
CancelFree(o) ==
  /\ orders[o].price = 0 /\ StillIs(o, "confirmed")
  /\ CanRefund(UnitsOf(o), orders[o].quantity)
  /\ Count(orders[o].event, orders[o].type, Refund(UnitsOf(o), orders[o].quantity))
  /\ Settle(o, "cancelled")
  /\ Note(o, "confirmed")

-----------------------------------------------------------------------------
Manage(r) ==
  \/ \E e \in Events : Read(r, e) \/ DuplicateEvent(r, e)
  \/ Refuse(r) \/ PublishEvent(r) \/ UnpublishEvent(r) \/ CancelEvent(r)
  \/ \E m \in Configurations : UpdateEvent(r, m)
  \/ \E k \in Types, total \in Quantities, price \in Prices :
       CreateTicketType(r, k, total, price) \/ UpdateTicketType(r, k, total, price)

Buy(o) ==
  \/ \E e \in Events, k \in Types, n \in Quantities :
       PlaceGeneralOrder(o, e, k, n) \/ PlaceSeatOrder(o, e, k, n)
  \/ PayOrder(o) \/ EndPending(o) \/ EndStranded(o) \/ CancelFree(o)

Next ==
  \/ \E e \in Events, m \in Configurations : CreateEvent(e, m)
  \/ \E r \in Requests : Manage(r)
  \/ \E e \in Events, k \in Types, n \in Quantities : HoldSeats(e, k, n) \/ EndHold(e, k, n)
  \/ \E o \in Orders : Buy(o)

Spec == Init /\ [][Next]_vars

-----------------------------------------------------------------------------
(* Properties that hold whatever was read before the lock.                 *)

EventRecord ==
  [status : {"none", "draft", "published", "cancelled"},
   capacity : Nat, seating : {"general_admission", "assigned"},
   layout : Layouts \cup {None}]
TypeRecord == [exists : BOOLEAN, total : Nat, price : Nat, units : Counters]
OrderRecord ==
  [status : {"none", "pending", "stranded", "confirmed", "released", "cancelled"},
   event : Events \cup {None}, type : Types \cup {None},
   quantity : Nat, price : Nat]

(* Every column has a value of its type; a request in flight has read an    *)
(* event; an order belongs to a ticket type; no ticket type is empty.      *)
TypeOK ==
  /\ events \in [Events -> EventRecord]
  /\ types \in [Events -> [Types -> TypeRecord]]
  /\ held \in [Events -> [Types -> Nat]]
  /\ orders \in [Orders -> OrderRecord]
  /\ reqs \in [Requests -> [event : Events \cup {None}, seen : EventRecord]]
  /\ outdated \subseteq Events /\ late \subseteq Orders
  /\ \A r \in Requests : reqs[r] # NoRequest => reqs[r].event \in Events
  /\ \A o \in Orders : orders[o].status # "none" =>
       orders[o].event \in Events /\ orders[o].type \in Types
  /\ \A e \in Events, k \in Types : types[e][k].exists => types[e][k].total > 0

(* Whoever has ordered finds the event published: no request that saw an    *)
(* older status hides or cancels it (unpublish_event, cancel_event).       *)
OrdersOnlyWhilePublished ==
  \A e \in Events : OrdersOf(e) # {} => events[e].status = "published"

(* The price of a ticket type is the one its orders were placed at, from    *)
(* the reservation on (update_ticket_type's price_locked), also when other  *)
(* orders took their units by an outdated status.  An order whose units     *)
(* were given back no longer fixes it, nor does one that is paid after that. *)
OrdersKeepTheirPrice ==
  \A o \in Orders :
    orders[o].status \in {"pending", "confirmed", "cancelled"} /\ o \notin late =>
      types[orders[o].event][orders[o].type].price = orders[o].price

(* Shrinking a ticket type never runs into the CHECK constraints, with      *)
(* reservations, sales and refunds going on (quantity_below_allocated).    *)
AllocatedWithinTotal ==
  \A e \in Events, k \in Types : ChecksHold(types[e][k].units, types[e][k].total)

QuantityOf(e, k, statuses) ==
  SumOf([o \in Orders |-> orders[o].quantity],
        {o \in OrdersOf(e) : orders[o].type = k /\ orders[o].status \in statuses})

(* No order of this type was paid or refunded by an outdated status.       *)
Punctual(e, k) == \A o \in OrdersOf(e) : orders[o].type = k => o \notin late

(* Whatever is edited or duplicated, the counters of a ticket type are      *)
(* those of its own event's holds and orders: a copy starts with none.      *)
(* Where seats are assigned the hold rows stop every outdated payment and   *)
(* refund, so there it holds whatever was read; with general admission, of  *)
(* the ticket types no such act has touched.                               *)
CountersBelongToOrders ==
  \A e \in Events, k \in Types :
    events[e].seating = "assigned" \/ Punctual(e, k) =>
      /\ types[e][k].units.reserved = held[e][k] + QuantityOf(e, k, {"pending"})
      /\ types[e][k].units.sold - types[e][k].units.refunded =
           QuantityOf(e, k, {"confirmed"})

(* Once there is an order the seating is not changed, also by a request     *)
(* that saw another seating than there is (event_seating_locked).          *)
SeatingFixedByOrders ==
  [][\A e \in Events : OrdersOf(e) # {} =>
       /\ events'[e].seating = events[e].seating
       /\ events'[e].layout = events[e].layout]_vars

-----------------------------------------------------------------------------
(* Properties that two overlapping management requests can break, by acting *)
(* on what each read before the other's commit; events on which none did    *)
(* have them, whatever other requests were in flight.                      *)

(* The ticket types of an event never promise more places than it has: the  *)
(* check of capacity against ticket types and that of each ticket type      *)
(* against capacity agree.                                                 *)
CapacityCoversTypes ==
  \A e \in Events \ outdated : TicketQuantity(e) <= events[e].capacity

(* "Cancelled events cannot be edited": nor published, nor configured.      *)
CancelledIsFinal ==
  [][\A e \in Events \ outdated' : events[e].status = "cancelled" =>
       /\ events'[e] = events[e]
       /\ \A k \in Types : /\ types'[e][k].total = types[e][k].total
                           /\ types'[e][k].price = types[e][k].price]_vars

(* "assigned seating requires layout_id" (EventCreate), also of an event    *)
(* that was put together from several PATCHes.                             *)
AssignedHasLayout ==
  \A e \in Events \ outdated :
    events[e].seating = "assigned" => events[e].layout # None
=============================================================================

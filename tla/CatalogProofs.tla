--------------------------- MODULE CatalogProofs ---------------------------
(***************************************************************************)
(* Theorems about EventCatalog for every number of events, ticket types,   *)
(* orders and management requests, whatever each request saw.              *)
(***************************************************************************)
EXTENDS EventCatalog, TicketCountersProofs

-----------------------------------------------------------------------------
(* The shape of what the actions write.                                    *)

(* A request past Finish refers to an event and has seen an event record.   *)
LEMMA RequestType ==
  ASSUME TypeOK, NEW r \in Requests, reqs[r] # NoRequest
  PROVE  reqs[r].event \in Events /\ reqs[r].seen \in EventRecord
  BY DEF TypeOK

LEMMA FinishType ==
  ASSUME TypeOK, NEW r \in Requests, Finish(r)
  PROVE  /\ reqs' \in [Requests -> [event : Events \cup {None}, seen : EventRecord]]
         /\ \A q \in Requests : reqs'[q] # NoRequest => reqs'[q].event \in Events
         /\ UNCHANGED <<held, orders, late>>
  <1>1. NoRequest \in [event : Events \cup {None}, seen : EventRecord]
    BY DEF NoRequest, NoEvent, EventRecord
  <1>2. QED
    BY <1>1 DEF Finish, TypeOK

LEMMA WriteType ==
  ASSUME TypeOK, NEW r \in Requests, NEW e \in Events, Write(r, e)
  PROVE  /\ Finish(r) /\ reqs[r] # NoRequest /\ reqs[r].event \in Events
         /\ outdated' \subseteq Events
  BY RequestType DEF Write, Finish, TypeOK

LEMMA WrittenEvent ==
  ASSUME TypeOK, NEW r \in Requests, Write(r, reqs[r].event)
  PROVE  /\ Finish(r) /\ reqs[r] # NoRequest /\ reqs[r].event \in Events
         /\ outdated' \subseteq Events
  <1>1. reqs[r].event \in Events
    BY RequestType DEF Write, Finish
  <1>2. QED
    BY <1>1, WriteType

LEMMA ConfigurationType ==
  ASSUME NEW m \in Configurations
  PROVE  /\ m.capacity \in Nat
         /\ m.seating \in {"general_admission", "assigned"}
         /\ m.layout \in Layouts \cup {None}
  BY CatalogAssumption DEF Configurations

LEMMA WrittenType ==
  ASSUME NEW now \in EventRecord, NEW seen, NEW m \in Configurations
  PROVE  Written(now, seen, m) \in EventRecord
  BY ConfigurationType, Zenon DEF EventRecord, Written

(* A ticket type whose counters are replaced.                              *)
LEMMA CountType ==
  ASSUME TypeOK, NEW e \in Events, NEW k \in Types, NEW u \in Counters,
         Count(e, k, u)
  PROVE  /\ types' \in [Events -> [Types -> TypeRecord]]
         /\ \A f \in Events, j \in Types :
              /\ types'[f][j].exists = types[f][j].exists
              /\ types'[f][j].total = types[f][j].total
              /\ types'[f][j].price = types[f][j].price
              /\ types'[f][j].units =
                   IF f = e /\ j = k THEN u ELSE types[f][j].units
  <1>1. types[e][k] \in TypeRecord /\ types[e] \in [Types -> TypeRecord]
    BY DEF TypeOK
  <1>2. [types[e][k] EXCEPT !.units = u] \in TypeRecord
    BY <1>1 DEF TypeRecord
  <1>3. types' = [types EXCEPT ![e] = [types[e] EXCEPT ![k] =
                    [types[e][k] EXCEPT !.units = u]]]
    BY DEF Count
  <1>4. types' \in [Events -> [Types -> TypeRecord]]
    BY <1>1, <1>2, <1>3 DEF TypeOK
  <1>5. ASSUME NEW f \in Events, NEW j \in Types
        PROVE  types'[f][j] = IF f = e /\ j = k
                              THEN [types[e][k] EXCEPT !.units = u]
                              ELSE types[f][j]
    BY <1>1, <1>3 DEF TypeOK
  <1>6. QED
    BY <1>1, <1>4, <1>5 DEF TypeRecord

(* Rows of a ticket type and what an order says of its own.                *)
LEMMA RowType ==
  ASSUME TypeOK, NEW e \in Events, NEW k \in Types
  PROVE  /\ types[e][k].units \in Counters
         /\ types[e][k].total \in Nat /\ types[e][k].price \in Nat
         /\ held[e][k] \in Nat
  BY DEF TypeOK, TypeRecord

LEMMA OrderType ==
  ASSUME TypeOK, NEW o \in Orders, orders[o].status # "none"
  PROVE  /\ orders[o].event \in Events /\ orders[o].type \in Types
         /\ orders[o].quantity \in Nat
         /\ UnitsOf(o) \in Counters
  BY RowType DEF TypeOK, OrderRecord, UnitsOf

LEMMA SettledType ==
  ASSUME NEW row, NEW u \in Counters, NEW n \in Int
  PROVE  Settled(row, u, n) \in Counters
  BY ConfirmKeepsType DEF Settled

LEMMA SetOrderStatusType ==
  ASSUME TypeOK, NEW o \in Orders, orders[o].status # "none",
         NEW status \in {"stranded", "confirmed", "released", "cancelled"},
         Settle(o, status)
  PROVE  /\ orders' \in [Orders -> OrderRecord]
         /\ \A p \in Orders :
              /\ orders'[p].event = orders[p].event
              /\ orders'[p].type = orders[p].type
              /\ orders'[p].status = "none" <=> orders[p].status = "none"
  <1>1. orders[o] \in OrderRecord
    BY DEF TypeOK
  <1>2. [orders[o] EXCEPT !.status = status] \in OrderRecord
    BY <1>1 DEF OrderRecord
  <1>3. QED
    BY <1>1, <1>2 DEF Settle, TypeOK, OrderRecord

-----------------------------------------------------------------------------
(* Type correctness.                                                       *)

LEMMA TypedInit == Init => TypeOK
  <1> SUFFICES ASSUME Init PROVE TypeOK
    OBVIOUS
  <1>1. NoEvent \in EventRecord /\ NoOrder \in OrderRecord
    BY DEF NoEvent, EventRecord, NoOrder, OrderRecord
  <1>2. NoType \in TypeRecord
    BY NoUnitsAreCounters DEF NoType, TypeRecord
  <1>3. NoRequest \in [event : Events \cup {None}, seen : EventRecord]
    BY <1>1 DEF NoRequest
  <1>4. \A e \in Events, k \in Types : ~types[e][k].exists
    BY DEF Init, NoType
  <1>5. \A o \in Orders : orders[o].status = "none"
    BY DEF Init, NoOrder
  <1>6. QED
    BY <1>1, <1>2, <1>3, <1>4, <1>5 DEF Init, TypeOK

(* Management requests and event creation: the rows of orders are not       *)
(* touched.                                                                *)
LEMMA TypedManage ==
  ASSUME TypeOK, NEW r \in Requests, Manage(r)
  PROVE  TypeOK'
  <1>1. ASSUME NEW e \in Events, Read(r, e) PROVE TypeOK'
    <2>1. [event |-> e, seen |-> events[e]]
            \in [event : Events \cup {None}, seen : EventRecord]
      BY DEF TypeOK
    <2>2. QED
      BY <1>1, <2>1 DEF Read, TypeOK
  <1>2. ASSUME NEW copy \in Events, DuplicateEvent(r, copy) PROVE TypeOK'
    <2>1. /\ Finish(r) /\ reqs[r] # NoRequest /\ outdated' \subseteq Events
      BY <1>2, WriteType DEF DuplicateEvent
    <2>2. [reqs[r].seen EXCEPT !.status = "draft"] \in EventRecord
      BY <2>1, RequestType DEF EventRecord
    <2>3. ASSUME NEW k \in Types
          PROVE  /\ CopyOf(types[reqs[r].event][k]) \in TypeRecord
                 /\ CopyOf(types[reqs[r].event][k]).exists =>
                      CopyOf(types[reqs[r].event][k]).total > 0
      <3>1. types[reqs[r].event][k] \in TypeRecord
        BY <2>1, RequestType DEF TypeOK
      <3>2. types[reqs[r].event][k].exists => types[reqs[r].event][k].total > 0
        BY <2>1, RequestType DEF TypeOK
      <3>3. QED
        BY <3>1, <3>2, NoUnitsAreCounters DEF CopyOf, TypeRecord
    <2>4. events' \in [Events -> EventRecord]
      BY <1>2, <2>2 DEF DuplicateEvent, TypeOK
    <2>5. types' = [types EXCEPT ![copy] =
                      [k \in Types |-> CopyOf(types[reqs[r].event][k])]]
      BY <1>2 DEF DuplicateEvent
    <2>6. types' \in [Events -> [Types -> TypeRecord]]
      BY <2>3, <2>5 DEF TypeOK
    <2>7. \A e \in Events, k \in Types : types'[e][k].exists => types'[e][k].total > 0
      BY <2>3, <2>5 DEF TypeOK
    <2>8. QED
      BY <2>1, <2>4, <2>6, <2>7, FinishType DEF TypeOK
  <1>3. ASSUME Refuse(r) PROVE TypeOK'
    BY <1>3, FinishType DEF Refuse, TypeOK
  <1>4. ASSUME NEW status \in {"draft", "published", "cancelled"},
               Write(r, reqs[r].event), SetStatus(reqs[r].event, status)
        PROVE  TypeOK'
    <2>1. /\ Finish(r) /\ reqs[r].event \in Events /\ outdated' \subseteq Events
      BY <1>4, WrittenEvent
    <2>2. [events[reqs[r].event] EXCEPT !.status = status] \in EventRecord
      BY <2>1 DEF TypeOK, EventRecord
    <2>3. events' \in [Events -> EventRecord]
      BY <1>4, <2>1, <2>2 DEF SetStatus, TypeOK
    <2>4. types' = types
      BY <1>4 DEF SetStatus
    <2>5. QED
      BY <2>1, <2>3, <2>4, FinishType DEF TypeOK
  <1>5. ASSUME PublishEvent(r) \/ UnpublishEvent(r) \/ CancelEvent(r) PROVE TypeOK'
    BY <1>4, <1>5 DEF PublishEvent, UnpublishEvent, CancelEvent
  <1>6. ASSUME NEW m \in Configurations, UpdateEvent(r, m) PROVE TypeOK'
    <2>1. /\ Finish(r) /\ reqs[r].event \in Events /\ outdated' \subseteq Events
      BY <1>6, WrittenEvent DEF UpdateEvent
    <2>2. Written(events[reqs[r].event], reqs[r].seen, m) \in EventRecord
      BY <2>1, WrittenType DEF TypeOK
    <2>3. events' \in [Events -> EventRecord] /\ types' = types
      BY <1>6, <2>2 DEF UpdateEvent, TypeOK
    <2>4. QED
      BY <2>1, <2>3, FinishType DEF TypeOK
  <1>7. ASSUME NEW k \in Types, NEW total \in Quantities, NEW price \in Prices,
               CreateTicketType(r, k, total, price)
        PROVE  TypeOK'
    <2> DEFINE e == reqs[r].event
               new == [exists |-> TRUE, total |-> total, price |-> price,
                       units |-> NoUnits]
    <2>1. Finish(r) /\ e \in Events /\ outdated' \subseteq Events
      BY <1>7, WrittenEvent DEF CreateTicketType
    <2>2. new \in TypeRecord /\ new.total > 0
      BY <1>7, CatalogAssumption, NoUnitsAreCounters
         DEF TypeRecord, CreateTicketType, ValidTotal
    <2>3. types' = [types EXCEPT ![e] = [types[e] EXCEPT ![k] = new]] /\ events' = events
      BY <1>7 DEF CreateTicketType
    <2> HIDE DEF new
    <2>4. types' \in [Events -> [Types -> TypeRecord]]
      BY <2>1, <2>2, <2>3 DEF TypeOK
    <2>5. \A f \in Events, j \in Types : types'[f][j].exists => types'[f][j].total > 0
      BY <2>1, <2>2, <2>3 DEF TypeOK
    <2>6. QED
      BY <2>1, <2>3, <2>4, <2>5, FinishType DEF TypeOK
  <1>8. ASSUME NEW k \in Types, NEW total \in Quantities, NEW price \in Prices,
               UpdateTicketType(r, k, total, price)
        PROVE  TypeOK'
    <2> DEFINE e == reqs[r].event
               new == [types[e][k] EXCEPT !.total = total, !.price = price]
    <2>1. Finish(r) /\ e \in Events /\ outdated' \subseteq Events
      BY <1>8, WrittenEvent DEF UpdateTicketType
    <2>2. types[e][k] \in TypeRecord
      BY <2>1 DEF TypeOK
    <2>3. new \in TypeRecord /\ new.total > 0
      BY <1>8, <2>2, CatalogAssumption DEF TypeRecord, UpdateTicketType, ValidTotal
    <2>4. /\ types' = [types EXCEPT ![e] = [types[e] EXCEPT ![k] = new]]
          /\ events' = events
      BY <1>8, <2>1, <2>2 DEF UpdateTicketType, TypeOK, TypeRecord
    <2> HIDE DEF new
    <2>5. types' \in [Events -> [Types -> TypeRecord]]
      BY <2>1, <2>3, <2>4 DEF TypeOK
    <2>6. \A f \in Events, j \in Types : types'[f][j].exists => types'[f][j].total > 0
      BY <2>1, <2>3, <2>4 DEF TypeOK
    <2>7. QED
      BY <2>1, <2>4, <2>5, <2>6, FinishType DEF TypeOK
  <1>9. QED
    BY <1>1, <1>2, <1>3, <1>5, <1>6, <1>7, <1>8 DEF Manage

LEMMA TypedCreate ==
  ASSUME TypeOK, NEW e \in Events, NEW m \in Configurations, CreateEvent(e, m)
  PROVE  TypeOK'
  <1>1. [status |-> "draft", capacity |-> m.capacity,
         seating |-> m.seating, layout |-> m.layout] \in EventRecord
    BY ConfigurationType DEF EventRecord
  <1>2. events' \in [Events -> EventRecord]
    BY <1>1 DEF CreateEvent, TypeOK
  <1>3. QED
    BY <1>2 DEF CreateEvent, TypeOK

LEMMA TypedHolds ==
  ASSUME TypeOK, NEW e \in Events, NEW k \in Types, NEW n \in Quantities,
         HoldSeats(e, k, n) \/ EndHold(e, k, n)
  PROVE  TypeOK'
  <1>1. n \in Nat
    BY CatalogAssumption
  <1>2. PICK u \in Counters : Count(e, k, u)
    <2>1. types[e][k].units \in Counters
      BY RowType
    <2>2. CASE HoldSeats(e, k, n)
      BY <1>1, <2>1, <2>2, ReserveKeepsType DEF HoldSeats
    <2>3. CASE EndHold(e, k, n)
      BY <1>1, <2>1, <2>3, ReleaseKeepsType DEF EndHold
    <2>4. QED
      BY <2>2, <2>3
  <1>3. held' \in [Events -> [Types -> Nat]]
    <2>1. held[e] \in [Types -> Nat] /\ held[e][k] \in Nat
      BY DEF TypeOK
    <2>2. ASSUME NEW x \in Nat, held' = [held EXCEPT ![e][k] = x]
          PROVE  held' \in [Events -> [Types -> Nat]]
      BY <2>1, <2>2 DEF TypeOK
    <2>3. CASE HoldSeats(e, k, n)
      <3>1. held[e][k] + n \in Nat /\ held' = [held EXCEPT ![e][k] = held[e][k] + n]
        BY <1>1, <2>1, <2>3 DEF HoldSeats
      <3>2. QED
        BY <2>2, <3>1
    <2>4. CASE EndHold(e, k, n)
      <3>1. held[e][k] - n \in Nat /\ held' = [held EXCEPT ![e][k] = held[e][k] - n]
        BY <1>1, <2>1, <2>4 DEF EndHold
      <3>2. QED
        BY <2>2, <3>1
    <2>5. QED
      BY <2>3, <2>4
  <1>4. UNCHANGED <<events, orders, reqs, outdated, late>>
    BY DEF HoldSeats, EndHold
  <1>5. /\ types' \in [Events -> [Types -> TypeRecord]]
        /\ \A f \in Events, j \in Types : types'[f][j].exists => types'[f][j].total > 0
    <2>1. /\ types' \in [Events -> [Types -> TypeRecord]]
          /\ \A f \in Events, j \in Types :
               /\ types'[f][j].exists = types[f][j].exists
               /\ types'[f][j].total = types[f][j].total
      BY <1>2, CountType
    <2>2. QED
      BY <2>1 DEF TypeOK
  <1>6. QED
    BY <1>3, <1>4, <1>5 DEF TypeOK

LEMMA TypedPlace ==
  ASSUME TypeOK, NEW o \in Orders, NEW e \in Events, NEW k \in Types,
         NEW n \in Quantities,
         PlaceGeneralOrder(o, e, k, n) \/ PlaceSeatOrder(o, e, k, n)
  PROVE  TypeOK'
  <1>1. n \in Nat /\ Place(o, e, k, n)
    BY CatalogAssumption DEF PlaceGeneralOrder, PlaceSeatOrder
  <1>2. PICK u \in Counters : Count(e, k, u)
    <2>1. types[e][k].units \in Counters
      BY RowType
    <2>2. Reserve(types[e][k].units, n) \in Counters
      BY <1>1, <2>1, ReserveKeepsType
    <2>3. QED
      BY <1>1, <2>1, <2>2, SettledType DEF PlaceGeneralOrder, PlaceSeatOrder
  <1>3. held' \in [Events -> [Types -> Nat]]
    <2>1. held[e] \in [Types -> Nat] /\ held[e][k] \in Nat
      BY DEF TypeOK
    <2>2. CASE PlaceGeneralOrder(o, e, k, n)
      BY <2>2 DEF PlaceGeneralOrder, TypeOK
    <2>3. CASE PlaceSeatOrder(o, e, k, n)
      <3>1. held[e][k] - n \in Nat
        BY <1>1, <2>1, <2>3 DEF PlaceSeatOrder
      <3>2. held' = [held EXCEPT ![e] = [held[e] EXCEPT ![k] = held[e][k] - n]]
        BY <2>3 DEF PlaceSeatOrder
      <3>3. QED
        BY <2>1, <3>1, <3>2 DEF TypeOK
    <2>4. QED
      BY <2>2, <2>3
  <1>4. /\ orders' \in [Orders -> OrderRecord]
        /\ \A p \in Orders : orders'[p].status # "none" =>
             orders'[p].event \in Events /\ orders'[p].type \in Types
    <2> DEFINE new == [status |-> IF types[e][k].price = 0
                                  THEN "confirmed" ELSE "pending",
                       event |-> e, type |-> k, quantity |-> n,
                       price |-> types[e][k].price]
    <2>1. new \in OrderRecord /\ new.event \in Events /\ new.type \in Types
      BY <1>1, RowType DEF OrderRecord
    <2>2. orders' = [orders EXCEPT ![o] = new]
      BY <1>1 DEF Place
    <2> HIDE DEF new
    <2>3. QED
      BY <2>1, <2>2 DEF TypeOK
  <1>5. UNCHANGED <<events, reqs, outdated, late>>
    BY <1>1 DEF Place
  <1>6. /\ types' \in [Events -> [Types -> TypeRecord]]
        /\ \A f \in Events, j \in Types : types'[f][j].exists => types'[f][j].total > 0
    <2>1. /\ types' \in [Events -> [Types -> TypeRecord]]
          /\ \A f \in Events, j \in Types :
               /\ types'[f][j].exists = types[f][j].exists
               /\ types'[f][j].total = types[f][j].total
      BY <1>2, CountType
    <2>2. QED
      BY <2>1 DEF TypeOK
  <1>7. QED
    BY <1>3, <1>4, <1>5, <1>6 DEF TypeOK

(* The steps of a placed order: which counters they leave, and its status.  *)
LEMMA OrderStep ==
  ASSUME TypeOK, NEW o \in Orders,
         PayOrder(o) \/ EndPending(o) \/ CancelFree(o)
  PROVE  /\ orders[o].status # "none"
         /\ \E status \in {"stranded", "confirmed", "released", "cancelled"} :
              Settle(o, status)
         /\ \E u \in Counters : Count(orders[o].event, orders[o].type, u)
         /\ late' \in {late, late \cup {o}}
  <1>1. orders[o].status # "none"
    BY DEF PayOrder, EndPending, CancelFree, StillIs
  <1>2. orders[o].quantity \in Nat /\ UnitsOf(o) \in Counters
    BY <1>1, OrderType
  <1>3. /\ Confirm(UnitsOf(o), orders[o].quantity) \in Counters
        /\ Release(UnitsOf(o), orders[o].quantity) \in Counters
        /\ Refund(UnitsOf(o), orders[o].quantity) \in Counters
    BY <1>2, ConfirmKeepsType, ReleaseKeepsType, RefundKeepsType
  <1>4. CASE PayOrder(o)
    BY <1>1, <1>3, <1>4 DEF PayOrder, Note
  <1>5. CASE EndPending(o)
    BY <1>1, <1>3, <1>5 DEF EndPending
  <1>6. CASE CancelFree(o)
    BY <1>1, <1>3, <1>6 DEF CancelFree, Note
  <1>7. QED
    BY <1>4, <1>5, <1>6

LEMMA TypedOrderStep ==
  ASSUME TypeOK, NEW o \in Orders,
         PayOrder(o) \/ EndPending(o) \/ EndStranded(o) \/ CancelFree(o)
  PROVE  TypeOK'
  <1>1. CASE EndStranded(o)
    BY <1>1, SetOrderStatusType DEF EndStranded, Settle, TypeOK
  <1>2. CASE PayOrder(o) \/ EndPending(o) \/ CancelFree(o)
    <2>1. PICK status \in {"stranded", "confirmed", "released", "cancelled"} :
            Settle(o, status)
      BY <1>2, OrderStep
    <2>2. PICK u \in Counters : Count(orders[o].event, orders[o].type, u)
      BY <1>2, OrderStep
    <2>3. orders[o].event \in Events /\ orders[o].type \in Types
      BY <1>2, OrderStep, OrderType
    <2>4. UNCHANGED <<events, held, reqs, outdated>> /\ late' \subseteq Orders
      BY <1>2, <2>1, OrderStep DEF Settle, TypeOK
    <2>5. /\ types' \in [Events -> [Types -> TypeRecord]]
          /\ \A f \in Events, j \in Types :
               types'[f][j].exists = types[f][j].exists
               /\ types'[f][j].total = types[f][j].total
      BY <2>2, <2>3, CountType
    <2>6. orders' \in [Orders -> OrderRecord]
          /\ \A p \in Orders : orders'[p].status # "none" =>
               orders'[p].event \in Events /\ orders'[p].type \in Types
      BY <1>2, <2>1, OrderStep, SetOrderStatusType DEF TypeOK
    <2>7. QED
      BY <2>4, <2>5, <2>6 DEF TypeOK
  <1>3. QED
    BY <1>1, <1>2

(* Every event, ticket type, order and request is well formed.             *)
THEOREM CatalogTypeCorrect == Spec => []TypeOK
  <1>1. TypeOK /\ [Next]_vars => TypeOK'
    <2> SUFFICES ASSUME TypeOK, [Next]_vars PROVE TypeOK'
      OBVIOUS
    <2>1. CASE UNCHANGED vars
      BY <2>1 DEF vars, TypeOK
    <2>2. CASE Next
      BY <2>2, TypedCreate, TypedManage, TypedHolds, TypedPlace, TypedOrderStep
         DEF Next, Buy
    <2>3. QED
      BY <2>1, <2>2
  <1>2. QED
    BY <1>1, TypedInit, PTL DEF Spec

-----------------------------------------------------------------------------
(* Orders only while published.                                            *)

LEMMA SameOrders ==
  ASSUME orders' = orders, NEW e \in Events
  PROVE  OrdersOf(e)' = OrdersOf(e)
  BY DEF OrdersOf

LEMMA ManageLeavesOrders ==
  ASSUME NEW r \in Requests, Manage(r)
  PROVE  UNCHANGED <<orders, held, late>>
  BY DEF Manage, Read, Refuse, PublishEvent, UnpublishEvent, CancelEvent, UpdateEvent,
         DuplicateEvent, CreateTicketType, UpdateTicketType, Write, Finish

(* A management request leaves the orders alone, and the status of an event *)
(* that has some at "published".                                           *)
LEMMA ManagePublished ==
  ASSUME TypeOK, OrdersOnlyWhilePublished, NEW r \in Requests, Manage(r),
         NEW e \in Events, OrdersOf(e) # {}
  PROVE  /\ orders' = orders
         /\ events'[e].status = "published"
         /\ events'[e].seating = events[e].seating
         /\ events'[e].layout = events[e].layout
  <1> DEFINE Kept == /\ orders' = orders
                     /\ events'[e].status = "published"
                     /\ events'[e].seating = events[e].seating
                     /\ events'[e].layout = events[e].layout
  <1>1. events[e].status = "published" /\ events[e] \in EventRecord
    BY DEF OrdersOnlyWhilePublished, TypeOK
  <1>0. orders' = orders
    BY ManageLeavesOrders
  <1>2. ASSUME events' = events PROVE Kept
    BY <1>0, <1>1, <1>2
  <1>3. ASSUME NEW copy \in Events, DuplicateEvent(r, copy) PROVE Kept
    <2>1. copy # e
      BY <1>1, <1>3 DEF DuplicateEvent
    <2>2. events'[e] = events[e]
      BY <1>3, <2>1 DEF DuplicateEvent, TypeOK
    <2>3. QED
      BY <1>0, <1>1, <2>2
  <1>4. ASSUME PublishEvent(r) PROVE Kept
    <2>1. events' = [events EXCEPT ![reqs[r].event].status = "published"]
      BY <1>4 DEF PublishEvent, SetStatus
    <2>2. QED
      BY <1>0, <1>1, <2>1 DEF TypeOK, EventRecord
  <1>5. ASSUME UnpublishEvent(r) \/ CancelEvent(r) PROVE Kept
    <2>1. reqs[r].event # e
      BY <1>5 DEF UnpublishEvent, CancelEvent, HasOrders
    <2>2. events'[e] = events[e]
      BY <1>5, <2>1 DEF UnpublishEvent, CancelEvent, SetStatus, TypeOK
    <2>3. QED
      BY <1>0, <1>1, <2>2
  <1>6. ASSUME NEW m \in Configurations, UpdateEvent(r, m) PROVE Kept
    <2>1. CASE reqs[r].event # e
      <3>1. events'[e] = events[e]
        BY <1>6, <2>1 DEF UpdateEvent, TypeOK
      <3>2. QED
        BY <1>0, <1>1, <3>1
    <2>2. CASE reqs[r].event = e
      <3>1. m.seating = reqs[r].seen.seating /\ m.layout = reqs[r].seen.layout
        BY <1>6, <2>2 DEF UpdateEvent, SeatingChanged, HasOrders
      <3>2. events'[e] = Written(events[e], reqs[r].seen, m)
        BY <1>6, <2>2 DEF UpdateEvent, TypeOK
      <3>3. QED
        BY <1>0, <1>1, <3>1, <3>2 DEF Written, EventRecord
    <2>3. QED
      BY <2>1, <2>2
  <1>7. QED
    BY <1>2, <1>3, <1>4, <1>5, <1>6
       DEF Manage, Read, Refuse, CreateTicketType, UpdateTicketType

(* Event creation and the steps of the public.                             *)
LEMMA PublicPublished ==
  ASSUME TypeOK, OrdersOnlyWhilePublished, NEW e \in Events,
         \/ \E f \in Events, m \in Configurations : CreateEvent(f, m)
         \/ \E f \in Events, k \in Types, n \in Quantities : HoldSeats(f, k, n) \/ EndHold(f, k, n)
         \/ \E o \in Orders : Buy(o)
  PROVE  /\ OrdersOf(e) # {} => events'[e] = events[e]
         /\ OrdersOf(e)' # {} => events'[e].status = "published"
  <1> DEFINE Kept == /\ OrdersOf(e) # {} => events'[e] = events[e]
                     /\ OrdersOf(e)' # {} => events'[e].status = "published"
  <1>1. OrdersOf(e) # {} => events[e].status = "published"
    BY DEF OrdersOnlyWhilePublished
  <1>2. ASSUME events' = events, orders' = orders PROVE Kept
    BY <1>1, <1>2, SameOrders
  <1>3. ASSUME NEW f \in Events, NEW m \in Configurations, CreateEvent(f, m)
        PROVE  Kept
    <2>1. orders' = orders /\ (OrdersOf(e) # {} => f # e)
      BY <1>1, <1>3 DEF CreateEvent
    <2>2. OrdersOf(e) # {} => events'[e] = events[e]
      BY <1>3, <2>1 DEF CreateEvent, TypeOK
    <2>3. QED
      BY <1>1, <2>1, <2>2, SameOrders
  <1>4. ASSUME NEW o \in Orders, NEW f \in Events, NEW k \in Types,
               NEW n \in Quantities, Place(o, f, k, n)
        PROVE  Kept
    <2>1. events' = events /\ events[f].status = "published"
      BY <1>4 DEF Place, OnSale
    <2>2. \A p \in Orders : p # o => orders'[p] = orders[p]
      BY <1>4 DEF Place, TypeOK
    <2>3. orders'[o].event = f
      BY <1>4 DEF Place, TypeOK
    <2>4. OrdersOf(e)' # {} => (OrdersOf(e) # {} \/ e = f)
      BY <2>2, <2>3 DEF OrdersOf
    <2>5. QED
      BY <1>1, <2>1, <2>4
  <1>5. ASSUME NEW o \in Orders, orders[o].status # "none",
               NEW status \in {"stranded", "confirmed", "released", "cancelled"},
               Settle(o, status)
        PROVE  Kept
    <2>1. events' = events
      BY <1>5 DEF Settle
    <2>2. OrdersOf(e)' # {} => OrdersOf(e) # {}
      BY <1>5, SetOrderStatusType DEF OrdersOf
    <2>3. QED
      BY <1>1, <2>1, <2>2
  <1>6. ASSUME NEW o \in Orders, Buy(o) PROVE Kept
    <2>1. CASE PayOrder(o) \/ EndPending(o) \/ CancelFree(o)
      BY <1>5, <2>1, OrderStep
    <2>2. CASE EndStranded(o)
      BY <1>5, <2>2 DEF EndStranded
    <2>3. ASSUME NEW f \in Events, NEW k \in Types, NEW n \in Quantities,
                 PlaceGeneralOrder(o, f, k, n) \/ PlaceSeatOrder(o, f, k, n)
          PROVE  Kept
      BY <1>4, <2>3 DEF PlaceGeneralOrder, PlaceSeatOrder
    <2>4. QED
      BY <1>6, <2>1, <2>2, <2>3 DEF Buy
  <1>7. QED
    BY <1>2, <1>3, <1>6 DEF HoldSeats, EndHold

(* An event with an order is published, and its seating is fixed: the two   *)
(* conclusions that the theorems below draw from every step.               *)
LEMMA PublishedStep ==
  ASSUME TypeOK, OrdersOnlyWhilePublished, [Next]_vars
  PROVE  /\ OrdersOnlyWhilePublished'
         /\ \A e \in Events : OrdersOf(e) # {} =>
              /\ events'[e].seating = events[e].seating
              /\ events'[e].layout = events[e].layout
  <1>1. CASE UNCHANGED vars
    BY <1>1, SameOrders DEF vars, OrdersOnlyWhilePublished
  <1>2. ASSUME NEW r \in Requests, Manage(r)
        PROVE  /\ OrdersOnlyWhilePublished'
               /\ \A e \in Events : OrdersOf(e) # {} =>
                    /\ events'[e].seating = events[e].seating
                    /\ events'[e].layout = events[e].layout
    <2>1. orders' = orders
      BY <1>2, ManageLeavesOrders
    <2>2. QED
      BY <1>2, <2>1, ManagePublished, SameOrders DEF OrdersOnlyWhilePublished
  <1>3. CASE \/ \E f \in Events, m \in Configurations : CreateEvent(f, m)
             \/ \E f \in Events, k \in Types, n \in Quantities : HoldSeats(f, k, n) \/ EndHold(f, k, n)
             \/ \E o \in Orders : Buy(o)
    BY <1>3, PublicPublished DEF OrdersOnlyWhilePublished
  <1>4. QED
    BY <1>1, <1>2, <1>3 DEF Next

(* No request, whatever status it saw, takes an event with orders back to   *)
(* draft or cancels it.                                                    *)
THEOREM OrdersKeepEventPublished == Spec => []OrdersOnlyWhilePublished
  <1>1. Init => OrdersOnlyWhilePublished
    BY DEF Init, OrdersOnlyWhilePublished, OrdersOf, NoOrder
  <1>2. TypeOK /\ OrdersOnlyWhilePublished /\ [Next]_vars => OrdersOnlyWhilePublished'
    BY PublishedStep
  <1>3. QED
    BY <1>1, <1>2, CatalogTypeCorrect, PTL DEF Spec

(* Venue layout and seating mode stay as the first order found them.       *)
THEOREM OrdersFixSeating == Spec => SeatingFixedByOrders
  <1>1. TypeOK /\ OrdersOnlyWhilePublished /\ [Next]_vars =>
          [\A e \in Events : OrdersOf(e) # {} =>
             /\ events'[e].seating = events[e].seating
             /\ events'[e].layout = events[e].layout]_vars
    BY PublishedStep
  <1>2. QED
    BY <1>1, CatalogTypeCorrect, OrdersKeepEventPublished, PTL
       DEF Spec, SeatingFixedByOrders

-----------------------------------------------------------------------------
(* Counters and quantity_total.                                            *)

(* New counters of one ticket type that pass the CHECKs.                   *)
LEMMA CountKeepsChecks ==
  ASSUME TypeOK, AllocatedWithinTotal, NEW e \in Events, NEW k \in Types,
         NEW u \in Counters, Count(e, k, u), ChecksHold(u, types[e][k].total)
  PROVE  AllocatedWithinTotal'
  <1>1. \A f \in Events, j \in Types :
          /\ types'[f][j].total = types[f][j].total
          /\ types'[f][j].units = IF f = e /\ j = k THEN u ELSE types[f][j].units
    BY CountType
  <1>2. ASSUME NEW f \in Events, NEW j \in Types
        PROVE  ChecksHold(types'[f][j].units, types'[f][j].total)
    <2>1. ChecksHold(types[f][j].units, types[f][j].total)
      BY DEF AllocatedWithinTotal
    <2>2. CASE f = e /\ j = k
      BY <1>1, <2>2
    <2>3. CASE ~(f = e /\ j = k)
      BY <1>1, <2>1, <2>3
    <2>4. QED
      BY <2>2, <2>3
  <1>3. QED
    BY <1>2 DEF AllocatedWithinTotal

(* A quantity_total that covers what is allocated passes the CHECKs.        *)
LEMMA NewTotalKeepsChecks ==
  ASSUME NEW c \in Counters, NEW total \in Nat, NEW old \in Nat,
         ChecksHold(c, old), total >= AlreadyAllocated(c)
  PROVE  ChecksHold(c, total)
  BY DEF AlreadyAllocated, ChecksHold, NotOversold, InUse, Counters

LEMMA ManageKeepsChecks ==
  ASSUME TypeOK, AllocatedWithinTotal, NEW r \in Requests, Manage(r)
  PROVE  AllocatedWithinTotal'
  <1>1. ASSUME types' = types PROVE AllocatedWithinTotal'
    BY <1>1 DEF AllocatedWithinTotal
  <1>2. ASSUME NEW copy \in Events, DuplicateEvent(r, copy)
        PROVE  AllocatedWithinTotal'
    <2>1. reqs[r].event \in Events
      BY <1>2, WriteType DEF DuplicateEvent
    <2>2. types' = [types EXCEPT ![copy] =
                      [k \in Types |-> CopyOf(types[reqs[r].event][k])]]
      BY <1>2 DEF DuplicateEvent
    <2>3. ASSUME NEW k \in Types
          PROVE  ChecksHold(CopyOf(types[reqs[r].event][k]).units,
                            CopyOf(types[reqs[r].event][k]).total)
      <3>1. types[reqs[r].event][k] \in TypeRecord
        BY <2>1 DEF TypeOK
      <3>2. /\ CopyOf(types[reqs[r].event][k]).units = NoUnits
            /\ CopyOf(types[reqs[r].event][k]).total \in Nat
        BY <3>1 DEF CopyOf, TypeRecord
      <3>3. QED
        BY <3>2, NoUnitsPassChecks
    <2>4. ASSUME NEW e \in Events, NEW k \in Types
          PROVE  types'[e][k] = IF e = copy THEN CopyOf(types[reqs[r].event][k])
                                ELSE types[e][k]
      BY <2>2 DEF TypeOK
    <2>5. QED
      BY <2>3, <2>4 DEF AllocatedWithinTotal
  <1>3. ASSUME NEW k \in Types, NEW total \in Quantities, NEW price \in Prices,
               CreateTicketType(r, k, total, price)
        PROVE  AllocatedWithinTotal'
    <2> DEFINE new == [exists |-> TRUE, total |-> total, price |-> price,
                       units |-> NoUnits]
    <2>1. ChecksHold(new.units, new.total)
      BY CatalogAssumption, NoUnitsPassChecks
    <2>2. types' = [types EXCEPT ![reqs[r].event][k] = new]
      BY <1>3 DEF CreateTicketType
    <2> HIDE DEF new
    <2>3. \A e \in Events, j \in Types :
            types'[e][j] = IF e = reqs[r].event /\ j = k THEN new ELSE types[e][j]
      BY <2>2 DEF TypeOK
    <2>4. QED
      BY <2>1, <2>3 DEF AllocatedWithinTotal
  <1>4. ASSUME NEW k \in Types, NEW total \in Quantities, NEW price \in Prices,
               UpdateTicketType(r, k, total, price)
        PROVE  AllocatedWithinTotal'
    <2> DEFINE e == reqs[r].event
               new == [types[e][k] EXCEPT !.total = total, !.price = price]
    <2>1. e \in Events
      BY <1>4, WrittenEvent DEF UpdateTicketType
    <2>2. types[e][k] \in TypeRecord /\ total \in Nat
      BY <2>1, CatalogAssumption DEF TypeOK
    <2>3. new.units = types[e][k].units /\ new.total = total
      BY <2>2 DEF TypeRecord
    <2>4. ChecksHold(types[e][k].units, total)
      <3>1. /\ types[e][k].units \in Counters /\ types[e][k].total \in Nat
            /\ ChecksHold(types[e][k].units, types[e][k].total)
        BY <2>1, RowType DEF AllocatedWithinTotal
      <3>2. total >= AlreadyAllocated(types[e][k].units)
        BY <1>4 DEF UpdateTicketType
      <3>3. QED
        BY <2>2, <3>1, <3>2, NewTotalKeepsChecks
    <2>5. types' = [types EXCEPT ![e] = [types[e] EXCEPT ![k] = new]]
      BY <1>4, <2>1, <2>2 DEF UpdateTicketType, TypeOK, TypeRecord
    <2> HIDE DEF new, e
    <2>6. \A f \in Events, j \in Types :
            types'[f][j] = IF f = e /\ j = k THEN new ELSE types[f][j]
      BY <2>1, <2>5 DEF TypeOK
    <2>7. QED
      BY <2>3, <2>4, <2>6 DEF AllocatedWithinTotal
  <1>5. QED
    BY <1>1, <1>2, <1>3, <1>4
       DEF Manage, Read, Refuse, PublishEvent, UnpublishEvent, CancelEvent,
           SetStatus, UpdateEvent

LEMMA HoldsKeepChecks ==
  ASSUME TypeOK, AllocatedWithinTotal, NEW e \in Events, NEW k \in Types,
         NEW n \in Quantities, HoldSeats(e, k, n) \/ EndHold(e, k, n)
  PROVE  AllocatedWithinTotal'
  <1>1. /\ n \in Nat /\ types[e][k].units \in Counters /\ types[e][k].total \in Nat
        /\ ChecksHold(types[e][k].units, types[e][k].total)
    BY CatalogAssumption, RowType DEF AllocatedWithinTotal
  <1>2. CASE HoldSeats(e, k, n)
    BY <1>1, <1>2, ReserveKeepsType, ReserveKeepsChecks, CountKeepsChecks DEF HoldSeats
  <1>3. CASE EndHold(e, k, n)
    BY <1>1, <1>3, ReleaseKeepsType, ReleaseKeepsChecks, CountKeepsChecks DEF EndHold
  <1>4. QED
    BY <1>2, <1>3

LEMMA PlacingKeepsChecks ==
  ASSUME TypeOK, AllocatedWithinTotal, NEW o \in Orders, NEW e \in Events,
         NEW k \in Types, NEW n \in Quantities,
         PlaceGeneralOrder(o, e, k, n) \/ PlaceSeatOrder(o, e, k, n)
  PROVE  AllocatedWithinTotal'
  <1> DEFINE c == types[e][k].units
             total == types[e][k].total
  <1>1. n \in Nat /\ c \in Counters /\ total \in Nat /\ ChecksHold(c, total)
    BY CatalogAssumption, RowType DEF AllocatedWithinTotal
  <1>2. CASE PlaceGeneralOrder(o, e, k, n)
    <2>1. CanReserve(c, n, total) /\ Count(e, k, Settled(types[e][k], Reserve(c, n), n))
      BY <1>2 DEF PlaceGeneralOrder
    <2>2. /\ Settled(types[e][k], Reserve(c, n), n) \in Counters
          /\ ChecksHold(Settled(types[e][k], Reserve(c, n), n), total)
      BY <1>1, <2>1, ReserveKeepsType, SettledType, ReserveKeepsChecks,
         ReserveThenConfirmKeepsChecks DEF Settled
    <2>3. QED
      BY <2>1, <2>2, CountKeepsChecks
  <1>3. CASE PlaceSeatOrder(o, e, k, n)
    <2>1. CanConfirm(c, n) /\ Count(e, k, Settled(types[e][k], c, n))
      BY <1>3 DEF PlaceSeatOrder
    <2>2. /\ Settled(types[e][k], c, n) \in Counters
          /\ ChecksHold(Settled(types[e][k], c, n), total)
      BY <1>1, <2>1, SettledType, ConfirmKeepsChecks DEF Settled
    <2>3. QED
      BY <2>1, <2>2, CountKeepsChecks
  <1>4. QED
    BY <1>2, <1>3

LEMMA OrderStepsKeepChecks ==
  ASSUME TypeOK, AllocatedWithinTotal, NEW o \in Orders,
         PayOrder(o) \/ EndPending(o) \/ CancelFree(o)
  PROVE  AllocatedWithinTotal'
  <1> DEFINE e == orders[o].event
             k == orders[o].type
             n == orders[o].quantity
             c == UnitsOf(o)
  <1>1. orders[o].status # "none"
    BY OrderStep
  <1>2. e \in Events /\ k \in Types /\ n \in Nat /\ c \in Counters
    BY <1>1, OrderType
  <1>3. types[e][k].total \in Nat /\ ChecksHold(c, types[e][k].total)
    BY <1>2, RowType DEF AllocatedWithinTotal, UnitsOf
  <1>4. CASE PayOrder(o)
    BY <1>2, <1>3, <1>4, ConfirmKeepsType, ConfirmKeepsChecks, CountKeepsChecks
       DEF PayOrder
  <1>5. CASE EndPending(o)
    BY <1>2, <1>3, <1>5, ReleaseKeepsType, ReleaseKeepsChecks, CountKeepsChecks
       DEF EndPending
  <1>6. CASE CancelFree(o)
    BY <1>2, <1>3, <1>6, RefundKeepsType, RefundKeepsChecks, CountKeepsChecks
       DEF CancelFree
  <1>7. QED
    BY <1>4, <1>5, <1>6

(* A ticket type may be shrunk at any time while it is being reserved, sold *)
(* and refunded: no UPDATE runs into a CHECK constraint.                   *)
THEOREM ShrinkingKeepsChecks == Spec => []AllocatedWithinTotal
  <1>1. Init => AllocatedWithinTotal
    BY NoUnitsPassChecks DEF Init, AllocatedWithinTotal, NoType
  <1>2. TypeOK /\ AllocatedWithinTotal /\ [Next]_vars => AllocatedWithinTotal'
    <2> SUFFICES ASSUME TypeOK, AllocatedWithinTotal, [Next]_vars
                 PROVE  AllocatedWithinTotal'
      OBVIOUS
    <2>1. ASSUME types' = types PROVE AllocatedWithinTotal'
      BY <2>1 DEF AllocatedWithinTotal
    <2>2. CASE UNCHANGED vars
      BY <2>1, <2>2 DEF vars
    <2>3. CASE \E e \in Events, m \in Configurations : CreateEvent(e, m)
      BY <2>1, <2>3 DEF CreateEvent
    <2>4. ASSUME NEW o \in Orders, Buy(o) PROVE AllocatedWithinTotal'
      BY <2>1, <2>4, PlacingKeepsChecks, OrderStepsKeepChecks DEF Buy, EndStranded
    <2>5. QED
      BY <2>2, <2>3, <2>4, ManageKeepsChecks, HoldsKeepChecks DEF Next
  <1>3. QED
    BY <1>1, <1>2, CatalogTypeCorrect, PTL DEF Spec

-----------------------------------------------------------------------------
(* Sums.  A sum is a number of units, so it is split where its set is.     *)

LEMMA UnitsOfOne ==
  ASSUME NEW f, NEW x, NEW n \in Nat, n = f[x]
  PROVE  IsFiniteSet(UnitsIn(f, {x})) /\ Cardinality(UnitsIn(f, {x})) = n
  <1>1. UnitsIn(f, {x}) = {x} \X (1..n)
    BY DEF UnitsIn
  <1>2. IsFiniteSet(1..n) /\ Cardinality(1..n) = n
    <2>1. n \in Int /\ 1 \in Int
      OBVIOUS
    <2>2. IsFiniteSet(1..n) /\ Cardinality(1..n) = IF 1 > n THEN 0 ELSE n - 1 + 1
      BY ONLY <2>1, FS_Interval
    <2>3. QED
      BY <2>2
  <1>3. IsFiniteSet({x}) /\ Cardinality({x}) = 1
    BY FS_Singleton
  <1>4. IsFiniteSet({x} \X (1..n)) /\ Cardinality({x} \X (1..n)) = 1 * n
    <2>1. /\ IsFiniteSet({x} \X (1..n))
          /\ Cardinality({x} \X (1..n)) = Cardinality({x}) * Cardinality(1..n)
      BY ONLY <1>2, <1>3, FS_Product
    <2>2. QED
      BY <1>2, <1>3, <2>1
  <1>5. 1 * n = n
    OBVIOUS
  <1>6. QED
    BY ONLY <1>1, <1>4, <1>5

LEMMA UnitsAreFinite ==
  ASSUME NEW f, NEW S, IsFiniteSet(S), \A x \in S : f[x] \in Nat
  PROVE  IsFiniteSet(UnitsIn(f, S)) /\ SumOf(f, S) \in Nat
  <1> DEFINE part == [x \in S |-> {x} \X (1..f[x])]
             parts == {part[x] : x \in S}
  <1>1. IsFiniteSet(parts)
    <2>1. part \in Surjection(S, parts)
      BY DEF Surjection
    <2>2. QED
      BY <2>1, FS_Surjection DEF ExistsSurjection
  <1>2. ASSUME NEW T \in parts PROVE IsFiniteSet(T)
    <2>1. PICK x \in S : T = part[x]
      OBVIOUS
    <2>2. PICK n \in Nat : n = f[x]
      BY <2>1
    <2>3. IsFiniteSet(UnitsIn(f, {x}))
      BY <2>2, UnitsOfOne
    <2>4. UnitsIn(f, {x}) = T
      BY <2>1 DEF UnitsIn
    <2>5. QED
      BY <2>3, <2>4
  <1>3. UnitsIn(f, S) = UNION parts
    BY DEF UnitsIn
  <1>4. IsFiniteSet(UnitsIn(f, S))
    BY <1>1, <1>2, <1>3, FS_UNION
  <1>5. QED
    BY <1>4, FS_CardinalityType DEF SumOf

(* The sum over a set and one more member, and over two sets.              *)
LEMMA SumJoin ==
  ASSUME NEW f, NEW S, IsFiniteSet(S), NEW T, IsFiniteSet(T), S \cap T = {},
         \A x \in S \cup T : f[x] \in Nat
  PROVE  /\ SumOf(f, S \cup T) = SumOf(f, S) + SumOf(f, T)
         /\ SumOf(f, S) \in Nat /\ SumOf(f, T) \in Nat
  <1>1. UnitsIn(f, S \cup T) = UnitsIn(f, S) \cup UnitsIn(f, T)
    BY DEF UnitsIn
  <1>2. UnitsIn(f, S) \cap UnitsIn(f, T) = {}
    BY DEF UnitsIn
  <1>3. IsFiniteSet(UnitsIn(f, S)) /\ IsFiniteSet(UnitsIn(f, T))
    BY UnitsAreFinite
  <1>4. QED
    BY <1>1, <1>2, <1>3, CountMore DEF SumOf

LEMMA SumAdd ==
  ASSUME NEW f, NEW S, IsFiniteSet(S), NEW x, x \notin S,
         \A y \in S \cup {x} : f[y] \in Nat
  PROVE  /\ SumOf(f, S \cup {x}) = SumOf(f, S) + f[x]
         /\ SumOf(f, S) \in Nat
  <1>1. /\ SumOf(f, S \cup {x}) = SumOf(f, S) + SumOf(f, {x})
        /\ SumOf(f, S) \in Nat
    <2>1. IsFiniteSet({x}) /\ S \cap {x} = {}
      BY FS_Singleton
    <2>2. QED
      BY <2>1, SumJoin
  <1>2. PICK n \in Nat : n = f[x]
    OBVIOUS
  <1>3. SumOf(f, {x}) = n
    BY <1>2, UnitsOfOne DEF SumOf
  <1>4. QED
    BY <1>1, <1>2, <1>3

LEMMA SumSame ==
  ASSUME NEW f, NEW g, NEW S, \A x \in S : f[x] = g[x]
  PROVE  SumOf(f, S) = SumOf(g, S)
  BY DEF SumOf, UnitsIn

LEMMA SumZero ==
  ASSUME NEW f, NEW S, \A x \in S : f[x] = 0
  PROVE  SumOf(f, S) = 0
  <1>1. \A x \in S : 1..f[x] = {}
    OBVIOUS
  <1>2. UnitsIn(f, S) = {}
    BY <1>1 DEF UnitsIn
  <1>3. QED
    BY <1>2, FS_EmptySet DEF SumOf

LEMMA SumAtLeast ==
  ASSUME NEW f, NEW S, IsFiniteSet(S), NEW x \in S, \A y \in S : f[y] \in Nat
  PROVE  /\ SumOf(f, S) = SumOf(f, S \ {x}) + f[x]
         /\ SumOf(f, S \ {x}) \in Nat
  <1>1. S = (S \ {x}) \cup {x} /\ IsFiniteSet(S \ {x})
    BY FS_RemoveElement
  <1>2. QED
    BY <1>1, SumAdd

(* What an order adds to the quantities: nothing while it has no row, its   *)
(* own to those of its event, type and status.                             *)
LEMMA QuantityIsNat ==
  ASSUME TypeOK, NEW e, NEW k, NEW K
  PROVE  QuantityOf(e, k, K) \in Nat
  <1> DEFINE of == {o \in OrdersOf(e) : orders[o].type = k /\ orders[o].status \in K}
             q == [o \in Orders |-> orders[o].quantity]
  <1>1. IsFiniteSet(of)
    BY CatalogAssumption, FS_Subset DEF OrdersOf
  <1>2. \A o \in of : q[o] \in Nat
    BY DEF OrdersOf, TypeOK, OrderRecord
  <1> HIDE DEF of, q
  <1>3. SumOf(q, of) \in Nat
    BY <1>1, <1>2, UnitsAreFinite
  <1>4. QED
    BY <1>3 DEF QuantityOf, of, q

LEMMA QuantityMoves ==
  ASSUME TypeOK, NEW o \in Orders, orders[o].status # "none",
         NEW status \in {"stranded", "confirmed", "released", "cancelled"}, Settle(o, status),
         NEW e, NEW k, NEW K
  PROVE  LET own == orders[o].event = e /\ orders[o].type = k
             was == QuantityOf(e, k, K)
             is == QuantityOf(e, k, K)'
         IN /\ own /\ status \in K /\ orders[o].status \notin K
                 => is = was + orders[o].quantity
            /\ own /\ status \notin K /\ orders[o].status \in K
                 => is = was - orders[o].quantity
            /\ ~own \/ (status \in K <=> orders[o].status \in K) => is = was
            /\ was \in Nat
  <1> DEFINE own == orders[o].event = e /\ orders[o].type = k
             P == {p \in OrdersOf(e) : orders[p].type = k /\ orders[p].status \in K}
             Q == {p \in OrdersOf(e)' : orders'[p].type = k /\ orders'[p].status \in K}
             f == [p \in Orders |-> orders[p].quantity]
             g == [p \in Orders |-> orders'[p].quantity]
  <1>1. \A p \in Orders :
          /\ orders'[p].event = orders[p].event /\ orders'[p].type = orders[p].type
          /\ orders'[p].quantity = orders[p].quantity
          /\ orders'[p].status = IF p = o THEN status ELSE orders[p].status
    <2>1. orders' = [orders EXCEPT ![o] = [orders[o] EXCEPT !.status = status]]
      BY DEF Settle, TypeOK
    <2>2. orders[o] \in OrderRecord
      BY DEF TypeOK
    <2>3. LET r == [orders[o] EXCEPT !.status = status]
          IN /\ r.event = orders[o].event /\ r.type = orders[o].type
             /\ r.quantity = orders[o].quantity /\ r.status = status
      BY <2>2 DEF OrderRecord
    <2>4. QED
      BY <2>1, <2>3 DEF TypeOK
  <1>2. f = g
    BY <1>1
  <1>3. QuantityOf(e, k, K) = SumOf(f, P) /\ QuantityOf(e, k, K)' = SumOf(f, Q)
    BY <1>2 DEF QuantityOf
  <1>4. IsFiniteSet(P) /\ P \subseteq Orders /\ IsFiniteSet(Q) /\ Q \subseteq Orders
    BY CatalogAssumption, FS_Subset DEF OrdersOf
  <1>5. \A p \in Orders : f[p] \in Nat
    BY DEF TypeOK, OrderRecord
  <1>6. /\ o \in P <=> own /\ orders[o].status \in K
        /\ o \in Q <=> own /\ status \in K
        /\ \A p \in Orders \ {o} : p \in Q <=> p \in P
    BY <1>1 DEF OrdersOf
  <1>7. SumOf(f, P) \in Nat /\ f[o] = orders[o].quantity
    BY <1>4, <1>5, UnitsAreFinite
  <1> HIDE DEF P, Q, f, g
  <1>8. CASE o \in Q /\ o \notin P
    <2>1. Q = P \cup {o}
      BY <1>4, <1>6, <1>8
    <2>2. SumOf(f, P \cup {o}) = SumOf(f, P) + f[o]
      BY <1>4, <1>5, <1>8, SumAdd
    <2>3. QED
      BY <1>3, <1>6, <1>7, <1>8, <2>1, <2>2
  <1>9. CASE o \notin Q /\ o \in P
    <2>1. Q = P \ {o}
      BY <1>4, <1>6, <1>9
    <2>2. SumOf(f, P) = SumOf(f, P \ {o}) + f[o] /\ SumOf(f, P \ {o}) \in Nat
      BY <1>4, <1>5, <1>9, SumAtLeast
    <2>3. SumOf(f, P \ {o}) = SumOf(f, P) - f[o]
      BY <1>5, <2>2
    <2>4. QED
      BY <1>3, <1>6, <1>7, <1>9, <2>1, <2>3
  <1>10. CASE o \in Q <=> o \in P
    <2>1. Q = P
      BY <1>4, <1>6, <1>10
    <2>2. QED
      BY <1>3, <1>6, <1>7, <1>10, <2>1
  <1>11. QED
    BY <1>8, <1>9, <1>10

LEMMA QuantityArrives ==
  ASSUME TypeOK, NEW o \in Orders, NEW e, NEW k, NEW n \in Nat, NEW status, NEW price,
         orders[o].status = "none", status # "none",
         orders' = [orders EXCEPT ![o] = [status |-> status, event |-> e, type |-> k,
                                          quantity |-> n, price |-> price]],
         NEW f, NEW j, NEW K
  PROVE  LET was == QuantityOf(f, j, K)
             is == QuantityOf(f, j, K)'
         IN /\ f = e /\ j = k /\ status \in K => is = was + n
            /\ ~(f = e /\ j = k /\ status \in K) => is = was
            /\ was \in Nat
  <1> DEFINE P == {p \in OrdersOf(f) : orders[p].type = j /\ orders[p].status \in K}
             Q == {p \in OrdersOf(f)' : orders'[p].type = j /\ orders'[p].status \in K}
             q == [p \in Orders |-> orders[p].quantity]
             r == [p \in Orders |-> orders'[p].quantity]
  <1>1. /\ \A p \in Orders : p # o => orders'[p] = orders[p]
        /\ orders'[o].status = status /\ orders'[o].event = e /\ orders'[o].type = k
        /\ orders'[o].quantity = n
    BY DEF TypeOK
  <1>2. QuantityOf(f, j, K) = SumOf(q, P) /\ QuantityOf(f, j, K)' = SumOf(r, Q)
    BY DEF QuantityOf
  <1>3. IsFiniteSet(P) /\ P \subseteq Orders /\ o \notin P
    BY CatalogAssumption, FS_Subset DEF OrdersOf
  <1>4. \A p \in P : r[p] = q[p] /\ r[p] \in Nat
    BY <1>1, <1>3 DEF TypeOK, OrderRecord
  <1>5. r[o] = n
    BY <1>1
  <1>6. Q = IF f = e /\ j = k /\ status \in K THEN P \cup {o} ELSE P
    BY <1>1, <1>3 DEF OrdersOf
  <1> HIDE DEF P, Q, q, r
  <1>7. SumOf(r, P) = SumOf(q, P)
    BY <1>4, SumSame
  <1>8. SumOf(r, P) \in Nat
    BY <1>3, <1>4, UnitsAreFinite
  <1>9. SumOf(r, P \cup {o}) = SumOf(r, P) + n
    BY <1>3, <1>4, <1>5, SumAdd
  <1>10. QED
    BY <1>2, <1>6, <1>7, <1>8, <1>9

(* Orders that did not move.                                               *)
LEMMA QuantityStays ==
  ASSUME orders' = orders, NEW e, NEW k, NEW K
  PROVE  QuantityOf(e, k, K)' = QuantityOf(e, k, K)
  BY DEF QuantityOf, OrdersOf

-----------------------------------------------------------------------------
(* Where rows belong: a request and a ticket type to an event there is, an  *)
(* order to a ticket type there is.  What is not there yet is empty.       *)
Home ==
  /\ \A r \in Requests : reqs[r] # NoRequest => events[reqs[r].event].status # "none"
  /\ \A e \in Events, k \in Types :
       IF types[e][k].exists THEN events[e].status # "none"
       ELSE types[e][k] = NoType /\ held[e][k] = 0
  /\ \A o \in Orders : orders[o].status # "none" =>
       types[orders[o].event][orders[o].type].exists /\ orders[o].quantity > 0

(* The counters of a ticket type, one by one, are the quantities of its     *)
(* orders: a cancelled order has been sold and refunded.  An outdated act   *)
(* moves the units of an order a second time, or those of other orders.    *)
Sums ==
  \A e \in Events, k \in Types : Punctual(e, k) =>
    /\ types[e][k].units.reserved = held[e][k] + QuantityOf(e, k, {"pending"})
    /\ types[e][k].units.sold = QuantityOf(e, k, {"confirmed", "cancelled"})
    /\ types[e][k].units.refunded = QuantityOf(e, k, {"cancelled"})

Sales == {"confirmed", "cancelled"}

(* What outdated acts leave true: units once sold stay counted as sold, and *)
(* hold rows, where there are any, stop the act.                           *)
Bought ==
  /\ \A e \in Events, k \in Types : types[e][k].units.sold >= 0
  /\ \A o \in Orders : orders[o].status \in Sales => UnitsOf(o).sold > 0
  /\ \A o \in late : orders[o].status \in Sales /\ ~Seated(o)

LEMMA SumsAreTheProperty ==
  ASSUME TypeOK, Sums, Bought
  PROVE  CountersBelongToOrders
  <1> SUFFICES ASSUME NEW e \in Events, NEW k \in Types,
                      events[e].seating = "assigned" \/ Punctual(e, k)
               PROVE  /\ types[e][k].units.reserved = held[e][k] + QuantityOf(e, k, {"pending"})
                      /\ types[e][k].units.sold - types[e][k].units.refunded
                           = QuantityOf(e, k, {"confirmed"})
    BY DEF CountersBelongToOrders
  <1> DEFINE Of(K) == {o \in OrdersOf(e) : orders[o].type = k /\ orders[o].status \in K}
             A == Of({"confirmed"})
             B == Of({"cancelled"})
             q == [o \in Orders |-> orders[o].quantity]
  <1>0. Punctual(e, k)
    BY DEF Punctual, Bought, Seated, OrdersOf
  <1>1. Of({"confirmed", "cancelled"}) = A \cup B /\ A \cap B = {}
    OBVIOUS
  <1>2. IsFiniteSet(A) /\ IsFiniteSet(B)
    BY CatalogAssumption, FS_Subset DEF OrdersOf
  <1>3. \A o \in A \cup B : q[o] \in Nat
    BY DEF OrdersOf, TypeOK, OrderRecord
  <1>4. /\ QuantityOf(e, k, {"confirmed", "cancelled"}) = SumOf(q, A \cup B)
        /\ QuantityOf(e, k, {"confirmed"}) = SumOf(q, A)
        /\ QuantityOf(e, k, {"cancelled"}) = SumOf(q, B)
    BY <1>1 DEF QuantityOf
  <1> HIDE DEF A, B, q, Of
  <1>5. /\ SumOf(q, A \cup B) = SumOf(q, A) + SumOf(q, B)
        /\ SumOf(q, A) \in Nat /\ SumOf(q, B) \in Nat
    BY <1>1, <1>2, <1>3, SumJoin
  <1>6. QED
    BY <1>0, <1>4, <1>5 DEF Sums

(* A management request moves no counter: what it creates or copies starts  *)
(* with the counters that were there before, none.                         *)
LEMMA ManageRows ==
  ASSUME TypeOK, Home, NEW r \in Requests, Manage(r)
  PROVE  /\ UNCHANGED <<orders, held, late>>
         /\ \A e \in Events, k \in Types :
              /\ types'[e][k].units = types[e][k].units
              /\ types[e][k].exists => types'[e][k].exists
              /\ ~types'[e][k].exists => types'[e][k] = NoType
              /\ types[e][k].exists /\ PriceLocked(types[e][k].units)
                   => types'[e][k].price = types[e][k].price
  <1> DEFINE Kept == /\ UNCHANGED <<orders, held, late>>
                     /\ \A e \in Events, k \in Types :
                          /\ types'[e][k].units = types[e][k].units
                          /\ types[e][k].exists => types'[e][k].exists
                          /\ ~types'[e][k].exists => types'[e][k] = NoType
                          /\ types[e][k].exists /\ PriceLocked(types[e][k].units)
                               => types'[e][k].price = types[e][k].price
  <1>0. UNCHANGED <<orders, held, late>>
    BY ManageLeavesOrders
  <1>1. ASSUME types' = types PROVE Kept
    BY <1>0, <1>1 DEF Home
  <1>2. ASSUME NEW copy \in Events, DuplicateEvent(r, copy) PROVE Kept
    <2>1. reqs[r].event \in Events /\ events[copy].status = "none"
      BY <1>2, WriteType DEF DuplicateEvent
    <2>2. \A k \in Types : types[copy][k] = NoType
      BY <2>1 DEF Home
    <2>3. ASSUME NEW e \in Events, NEW k \in Types
          PROVE  types'[e][k] = IF e = copy THEN CopyOf(types[reqs[r].event][k])
                                ELSE types[e][k]
      BY <1>2 DEF DuplicateEvent, TypeOK
    <2>4. ASSUME NEW k \in Types
          PROVE  /\ CopyOf(types[reqs[r].event][k]).units = NoUnits
                 /\ ~CopyOf(types[reqs[r].event][k]).exists
                      => CopyOf(types[reqs[r].event][k]) = NoType
      <3>1. types[reqs[r].event][k] \in TypeRecord
        BY <2>1 DEF TypeOK
      <3>2. ~types[reqs[r].event][k].exists => types[reqs[r].event][k] = NoType
        BY <2>1 DEF Home
      <3>3. [NoType EXCEPT !.units = NoUnits] = NoType
        <4> DEFINE z == [NoType EXCEPT !.units = NoUnits]
        <4>1. NoType \in TypeRecord /\ NoType.units = NoUnits
          BY NoUnitsAreCounters DEF NoType, TypeRecord
        <4>2. /\ z \in TypeRecord /\ z.exists = NoType.exists /\ z.total = NoType.total
              /\ z.price = NoType.price /\ z.units = NoType.units
          BY <4>1, NoUnitsAreCounters DEF TypeRecord
        <4>3. \A a, b \in TypeRecord :
                a.exists = b.exists /\ a.total = b.total /\ a.price = b.price
                  /\ a.units = b.units => a = b
          BY DEF TypeRecord
        <4> HIDE DEF z
        <4>4. z = NoType
          BY <4>1, <4>2, <4>3
        <4>5. QED
          BY <4>4 DEF z
      <3>4. QED
        BY <3>1, <3>2, <3>3 DEF CopyOf, TypeRecord
    <2>6. NoType.units = NoUnits /\ ~NoType.exists
      BY DEF NoType
    <2>7. ASSUME NEW e \in Events, NEW k \in Types
          PROVE  /\ types'[e][k].units = types[e][k].units
                 /\ types[e][k].exists => types'[e][k] = types[e][k]
                 /\ ~types'[e][k].exists => types'[e][k] = NoType
      <3>1. CASE e = copy
        BY <2>2, <2>3, <2>4, <2>6, <3>1
      <3>2. CASE e # copy
        BY <2>3, <3>2 DEF Home
      <3>3. QED
        BY <3>1, <3>2
    <2>8. QED
      BY <1>0, <2>7
  <1>3. ASSUME NEW k \in Types, NEW total \in Quantities, NEW price \in Prices,
               CreateTicketType(r, k, total, price)
        PROVE  Kept
    <2> DEFINE e == reqs[r].event
               new == [exists |-> TRUE, total |-> total, price |-> price, units |-> NoUnits]
    <2>1. e \in Events
      BY <1>3, WrittenEvent DEF CreateTicketType
    <2>2. ~types[e][k].exists /\ types' = [types EXCEPT ![e][k] = new]
      BY <1>3 DEF CreateTicketType
    <2>3. new.exists /\ new.units = NoUnits
      OBVIOUS
    <2> HIDE DEF new, e
    <2>4. types[e][k] = NoType /\ NoType.units = NoUnits
      BY <2>1, <2>2 DEF Home, NoType
    <2>5. \A f \in Events, j \in Types :
            types'[f][j] = IF f = e /\ j = k THEN new ELSE types[f][j]
      BY <2>1, <2>2 DEF TypeOK
    <2>6. ASSUME NEW f \in Events, NEW j \in Types
          PROVE  /\ types'[f][j].units = types[f][j].units
                 /\ types[f][j].exists => types'[f][j] = types[f][j]
                 /\ ~types'[f][j].exists => types'[f][j] = NoType
      <3>1. CASE f = e /\ j = k
        BY <2>2, <2>3, <2>4, <2>5, <3>1
      <3>2. CASE ~(f = e /\ j = k)
        BY <2>5, <3>2 DEF Home
      <3>3. QED
        BY <3>1, <3>2
    <2>7. QED
      BY <1>0, <2>6
  <1>4. ASSUME NEW k \in Types, NEW total \in Quantities, NEW price \in Prices,
               UpdateTicketType(r, k, total, price)
        PROVE  Kept
    <2> DEFINE e == reqs[r].event
               new == [types[e][k] EXCEPT !.total = total, !.price = price]
    <2>1. e \in Events
      BY <1>4, WrittenEvent DEF UpdateTicketType
    <2>2. types[e][k] \in TypeRecord
      BY <2>1 DEF TypeOK
    <2>3. /\ new.units = types[e][k].units /\ new.exists = types[e][k].exists
          /\ new.price = price
      BY <2>2 DEF TypeRecord
    <2>4. types' = [types EXCEPT ![e] = [types[e] EXCEPT ![k] = new]]
      BY <1>4, <2>1, <2>2 DEF UpdateTicketType, TypeOK, TypeRecord
    <2>5. /\ types[e][k].exists
          /\ price # types[e][k].price => ~PriceLocked(types[e][k].units)
      BY <1>4 DEF UpdateTicketType
    <2> HIDE DEF new, e
    <2>6. \A f \in Events, j \in Types :
            types'[f][j] = IF f = e /\ j = k THEN new ELSE types[f][j]
      BY <2>1, <2>4 DEF TypeOK
    <2>7. ASSUME NEW f \in Events, NEW j \in Types
          PROVE  /\ types'[f][j].units = types[f][j].units
                 /\ types[f][j].exists => types'[f][j].exists
                 /\ ~types'[f][j].exists => types'[f][j] = NoType
                 /\ types[f][j].exists /\ PriceLocked(types[f][j].units)
                      => types'[f][j].price = types[f][j].price
      <3>1. CASE f = e /\ j = k
        BY <2>3, <2>5, <2>6, <3>1
      <3>2. CASE ~(f = e /\ j = k)
        BY <2>6, <3>2 DEF Home
      <3>3. QED
        BY <3>1, <3>2
    <2>8. QED
      BY <1>0, <2>7
  <1>5. QED
    BY <1>1, <1>2, <1>3, <1>4
       DEF Manage, Read, Refuse, PublishEvent, UnpublishEvent, CancelEvent,
           SetStatus, UpdateEvent

(* ... nor does it take an event away, or move a request to another one.   *)
LEMMA ManageEvents ==
  ASSUME TypeOK, Home, NEW r \in Requests, Manage(r)
  PROVE  /\ \A e \in Events : events[e].status # "none" => events'[e].status # "none"
         /\ \A q \in Requests : reqs'[q] # NoRequest =>
              \/ reqs'[q] = reqs[q] /\ reqs[q] # NoRequest
              \/ \E e \in Events : /\ events[e].status # "none" /\ events'[e] = events[e]
                                   /\ reqs'[q] = [event |-> e, seen |-> events[e]]
         /\ \A e \in Events, k \in Types :
              types'[e][k].exists /\ ~types[e][k].exists => events'[e].status # "none"
  <1> DEFINE Kept ==
        /\ \A e \in Events : events[e].status # "none" => events'[e].status # "none"
        /\ \A q \in Requests : reqs'[q] # NoRequest =>
             \/ reqs'[q] = reqs[q] /\ reqs[q] # NoRequest
             \/ \E e \in Events : /\ events[e].status # "none" /\ events'[e] = events[e]
                                  /\ reqs'[q] = [event |-> e, seen |-> events[e]]
        /\ \A e \in Events, k \in Types :
             types'[e][k].exists /\ ~types[e][k].exists => events'[e].status # "none"
  <1>1. ASSUME NEW e \in Events, Read(r, e) PROVE Kept
    BY <1>1 DEF Read, TypeOK
  <1>2. ASSUME Finish(r)
        PROVE  \A q \in Requests : reqs'[q] # NoRequest =>
                 reqs'[q] = reqs[q] /\ reqs[q] # NoRequest
    BY <1>2 DEF Finish, TypeOK
  <1>3. ASSUME NEW copy \in Events, DuplicateEvent(r, copy) PROVE Kept
    <2>1. /\ Finish(r) /\ reqs[r].event \in Events /\ reqs[r].seen \in EventRecord
          /\ events' = [events EXCEPT ![copy] = [reqs[r].seen EXCEPT !.status = "draft"]]
          /\ types' = [types EXCEPT ![copy] = [k \in Types |-> CopyOf(types[reqs[r].event][k])]]
      BY <1>3, WriteType, RequestType DEF DuplicateEvent
    <2>2. events'[copy].status = "draft" /\ \A e \in Events \ {copy} : events'[e] = events[e]
      BY <2>1 DEF TypeOK, EventRecord
    <2>3. \A e \in Events \ {copy} : types'[e] = types[e]
      BY <2>1 DEF TypeOK
    <2>4. QED
      BY <1>2, <2>1, <2>2, <2>3
  <1>4. ASSUME NEW status \in {"published", "draft", "cancelled"},
               Finish(r), SetStatus(reqs[r].event, status)
        PROVE  Kept
    <2>1. \A e \in Events :
            events'[e].status \in {status, events[e].status}
      BY <1>4 DEF SetStatus, TypeOK, EventRecord
    <2>2. types' = types
      BY <1>4 DEF SetStatus
    <2>3. QED
      BY <1>2, <1>4, <2>1, <2>2
  <1>5. ASSUME NEW m \in Configurations, UpdateEvent(r, m) PROVE Kept
    <2>1. /\ Finish(r) /\ types' = types
          /\ events' = [events EXCEPT ![reqs[r].event] = Written(@, reqs[r].seen, m)]
      BY <1>5 DEF UpdateEvent, Write
    <2>2. \A x \in EventRecord : Written(x, reqs[r].seen, m).status = x.status
      BY DEF Written, EventRecord
    <2>3. \A e \in Events : events'[e].status = events[e].status
      BY <2>1, <2>2 DEF TypeOK
    <2>4. QED
      BY <1>2, <2>1, <2>3
  <1>6. ASSUME NEW k \in Types, NEW total \in Quantities, NEW price \in Prices,
               CreateTicketType(r, k, total, price) \/ UpdateTicketType(r, k, total, price)
        PROVE  Kept
    <2> DEFINE e == reqs[r].event
    <2>1. /\ Finish(r) /\ events' = events /\ reqs[r] # NoRequest
      BY <1>6 DEF CreateTicketType, UpdateTicketType, Write, Finish
    <2>2. e \in Events /\ events[e].status # "none"
      BY <2>1, RequestType DEF Home
    <2>3. \A f \in Events \ {e} : types'[f] = types[f]
      BY <1>6 DEF CreateTicketType, UpdateTicketType, TypeOK
    <2>4. QED
      BY <1>2, <2>1, <2>2, <2>3
  <1>7. QED
    BY <1>1, <1>2, <1>3, <1>4, <1>5, <1>6
       DEF Manage, Refuse, PublishEvent, UnpublishEvent, CancelEvent, Write

LEMMA HomeManage ==
  ASSUME TypeOK, Home, NEW r \in Requests, Manage(r)
  PROVE  Home'
  <1>1. \A q \in Requests : reqs'[q] # NoRequest => events'[reqs'[q].event].status # "none"
    <2> SUFFICES ASSUME NEW q \in Requests, reqs'[q] # NoRequest
                 PROVE  events'[reqs'[q].event].status # "none"
      OBVIOUS
    <2>1. CASE reqs'[q] = reqs[q] /\ reqs[q] # NoRequest
      <3>1. reqs[q].event \in Events /\ events[reqs[q].event].status # "none"
        BY <2>1, RequestType DEF Home
      <3>2. QED
        BY <2>1, <3>1, ManageEvents
    <2>2. CASE \E e \in Events : /\ events[e].status # "none" /\ events'[e] = events[e]
                                 /\ reqs'[q] = [event |-> e, seen |-> events[e]]
      BY <2>2
    <2>3. QED
      BY <2>1, <2>2, ManageEvents
  <1>2. ASSUME NEW e \in Events, NEW k \in Types
        PROVE  IF types'[e][k].exists THEN events'[e].status # "none"
               ELSE types'[e][k] = NoType /\ held'[e][k] = 0
    BY ManageRows, ManageEvents DEF Home
  <1>3. ASSUME NEW o \in Orders, orders'[o].status # "none"
        PROVE  types'[orders'[o].event][orders'[o].type].exists /\ orders'[o].quantity > 0
    <2>1. orders' = orders
      BY ManageRows
    <2>2. orders[o].event \in Events /\ orders[o].type \in Types
      BY <1>3, <2>1, OrderType
    <2>3. QED
      BY <1>3, <2>1, <2>2, ManageRows DEF Home
  <1>4. QED
    BY <1>1, <1>2, <1>3 DEF Home

LEMMA HomeCreate ==
  ASSUME TypeOK, Home, NEW e \in Events, NEW m \in Configurations, CreateEvent(e, m)
  PROVE  Home'
  <1>1. /\ UNCHANGED <<types, held, orders, reqs>> /\ events[e].status = "none"
        /\ \A f \in Events : events[f].status # "none" => events'[f].status # "none"
    BY DEF CreateEvent, TypeOK
  <1>2. \A r \in Requests : reqs[r] # NoRequest => reqs[r].event \in Events
    BY RequestType
  <1>3. QED
    BY <1>1, <1>2 DEF Home

(* A step of the public: one ticket type, its holds and one order of it.   *)
LEMMA HomePublic ==
  ASSUME TypeOK, Home, NEW e \in Events, NEW k \in Types, NEW u \in Counters,
         types[e][k].exists, Count(e, k, u), UNCHANGED <<events, reqs>>,
         \A f \in Events, j \in Types : ~(f = e /\ j = k) => held'[f][j] = held[f][j],
         \A o \in Orders : orders'[o].status # "none" =>
           \/ /\ orders[o].status # "none" /\ orders'[o].event = orders[o].event
              /\ orders'[o].type = orders[o].type /\ orders'[o].quantity = orders[o].quantity
           \/ orders'[o].event = e /\ orders'[o].type = k /\ orders'[o].quantity > 0
  PROVE  Home'
  <1>1. \A f \in Events, j \in Types :
          /\ types'[f][j].exists = types[f][j].exists
          /\ ~(f = e /\ j = k) => types'[f][j] = types[f][j]
    <2>1. \A f \in Events, j \in Types : ~(f = e /\ j = k) => types'[f][j] = types[f][j]
      BY DEF Count, TypeOK
    <2>2. QED
      BY <2>1, CountType
  <1>2. \A r \in Requests : reqs'[r] # NoRequest => events'[reqs'[r].event].status # "none"
    BY DEF Home
  <1>3. ASSUME NEW f \in Events, NEW j \in Types
        PROVE  IF types'[f][j].exists THEN events'[f].status # "none"
               ELSE types'[f][j] = NoType /\ held'[f][j] = 0
    BY <1>1 DEF Home
  <1>4. ASSUME NEW o \in Orders, orders'[o].status # "none"
        PROVE  types'[orders'[o].event][orders'[o].type].exists /\ orders'[o].quantity > 0
    <2>1. CASE /\ orders[o].status # "none" /\ orders'[o].event = orders[o].event
               /\ orders'[o].type = orders[o].type /\ orders'[o].quantity = orders[o].quantity
      BY <1>1, <2>1, OrderType DEF Home
    <2>2. CASE orders'[o].event = e /\ orders'[o].type = k /\ orders'[o].quantity > 0
      BY <1>1, <2>2
    <2>3. QED
      BY <1>4, <2>1, <2>2
  <1>5. QED
    BY <1>2, <1>3, <1>4 DEF Home

Kinds == {{"pending"}, {"confirmed", "cancelled"}, {"cancelled"}}

(* Orders stay where they are and what was late stays late: a ticket type   *)
(* whose orders are all punctual always had punctual ones.                 *)
LEMMA PunctualBefore ==
  ASSUME late \subseteq late', NEW e \in Events, NEW k \in Types, Punctual(e, k)',
         \A o \in Orders : orders[o].status # "none" =>
           /\ orders'[o].status # "none" /\ orders'[o].event = orders[o].event
           /\ orders'[o].type = orders[o].type
  PROVE  Punctual(e, k)
  BY DEF Punctual, OrdersOf

LEMMA SumsPublic ==
  ASSUME TypeOK, Sums, NEW e \in Events, NEW k \in Types, NEW u \in Counters, Count(e, k, u),
         \A f \in Events, j \in Types : Punctual(f, j)' => Punctual(f, j),
         \A f \in Events, j \in Types : ~(f = e /\ j = k) =>
           /\ held'[f][j] = held[f][j]
           /\ \A K \in Kinds : QuantityOf(f, j, K)' = QuantityOf(f, j, K),
         Punctual(e, k)' =>
           /\ u.reserved = held'[e][k] + QuantityOf(e, k, {"pending"})'
           /\ u.sold = QuantityOf(e, k, {"confirmed", "cancelled"})'
           /\ u.refunded = QuantityOf(e, k, {"cancelled"})'
  PROVE  Sums'
  <1>1. \A f \in Events, j \in Types :
          types'[f][j].units = IF f = e /\ j = k THEN u ELSE types[f][j].units
    BY CountType
  <1>2. ASSUME NEW f \in Events, NEW j \in Types, Punctual(f, j)'
        PROVE  /\ types'[f][j].units.reserved = held'[f][j] + QuantityOf(f, j, {"pending"})'
               /\ types'[f][j].units.sold = QuantityOf(f, j, {"confirmed", "cancelled"})'
               /\ types'[f][j].units.refunded = QuantityOf(f, j, {"cancelled"})'
    <2>1. CASE f = e /\ j = k
      BY <1>1, <1>2, <2>1
    <2>2. CASE ~(f = e /\ j = k)
      BY <1>1, <1>2, <2>2 DEF Sums, Kinds
    <2>3. QED
      BY <2>1, <2>2
  <1>3. QED
    BY <1>2 DEF Sums

LEMMA BoughtPublic ==
  ASSUME TypeOK, Bought, NEW e \in Events, NEW k \in Types, NEW u \in Counters, Count(e, k, u),
         u.sold >= types[e][k].units.sold, events' = events,
         \A o \in Orders : orders'[o].status \in Sales =>
           \/ /\ orders[o].status \in Sales /\ orders'[o].event = orders[o].event
              /\ orders'[o].type = orders[o].type
           \/ orders'[o].event = e /\ orders'[o].type = k /\ u.sold > 0,
         \A o \in late' :
           /\ orders'[o].status \in Sales
           /\ events[orders'[o].event].seating # "assigned"
  PROVE  Bought'
  <1>1. \A f \in Events, j \in Types :
          types'[f][j].units = IF f = e /\ j = k THEN u ELSE types[f][j].units
    BY CountType
  <1>2. \A f \in Events, j \in Types : types[f][j].units.sold \in Int /\ u.sold \in Int
    BY RowType DEF Counters
  <1>3. ASSUME NEW f \in Events, NEW j \in Types
        PROVE  /\ types'[f][j].units.sold >= types[f][j].units.sold
               /\ types'[f][j].units.sold >= 0
    <2>1. types[f][j].units.sold >= 0
      BY DEF Bought
    <2>2. CASE f = e /\ j = k
      BY <1>1, <1>2, <2>1, <2>2
    <2>3. CASE ~(f = e /\ j = k)
      BY <1>1, <1>2, <2>1, <2>3
    <2>4. QED
      BY <2>2, <2>3
  <1>4. ASSUME NEW o \in Orders, orders'[o].status \in Sales
        PROVE  types'[orders'[o].event][orders'[o].type].units.sold > 0
    <2>1. CASE /\ orders[o].status \in Sales /\ orders'[o].event = orders[o].event
               /\ orders'[o].type = orders[o].type
      <3> DEFINE f == orders[o].event
                 j == orders[o].type
      <3>1. f \in Events /\ j \in Types /\ types[f][j].units.sold > 0
        BY <2>1, OrderType DEF Bought, Sales, UnitsOf
      <3>2. types'[f][j].units.sold >= types[f][j].units.sold
        BY <1>3, <3>1
      <3>3. types[f][j].units.sold \in Int /\ types'[f][j].units.sold \in Int
        BY <1>1, <1>2, <3>1
      <3> HIDE DEF f, j
      <3>4. types'[f][j].units.sold > 0
        BY <3>1, <3>2, <3>3
      <3>5. QED
        BY <2>1, <3>4 DEF f, j
    <2>2. CASE orders'[o].event = e /\ orders'[o].type = k /\ u.sold > 0
      BY <1>1, <2>2
    <2>3. QED
      BY <1>4, <2>1, <2>2
  <1>5. \A o \in late' : orders'[o].status \in Sales /\ events'[orders'[o].event].seating # "assigned"
    OBVIOUS
  <1>6. QED
    BY <1>3, <1>4, <1>5 DEF Bought, UnitsOf, Seated

-----------------------------------------------------------------------------
(* The ledger of a catalog: rows at home, sums, sales and prices.          *)
Ledger == Home /\ Sums /\ Bought /\ OrdersKeepTheirPrice

Placed == {"pending", "confirmed", "cancelled"}

(* An order that bought or gave back units locks the price, and one that    *)
(* holds some: if not its own reservation, then the sale that took it.     *)
LEMMA OrdersLockPrices ==
  ASSUME TypeOK, Home, Sums, Bought, NEW o \in Orders, orders[o].status \in Placed
  PROVE  LET row == types[orders[o].event][orders[o].type]
         IN row.exists /\ PriceLocked(row.units)
  <1> DEFINE e == orders[o].event
             k == orders[o].type
             q == [p \in Orders |-> orders[p].quantity]
             P == {p \in OrdersOf(e) : orders[p].type = k /\ orders[p].status \in {"pending"}}
  <1>1. e \in Events /\ k \in Types /\ types[e][k].exists /\ orders[o].quantity > 0
    BY OrderType DEF Home, Placed
  <1>2. ASSUME NEW p \in Orders, orders[p].status \in Sales, orders[p].event = e,
               orders[p].type = k
        PROVE  PriceLocked(types[e][k].units)
    <2>1. types[e][k].units.sold > 0
      BY <1>2 DEF Bought, UnitsOf
    <2> HIDE DEF e, k
    <2>2. QED
      BY <2>1 DEF PriceLocked
  <1>3. CASE orders[o].status \in Sales
    BY <1>1, <1>2, <1>3
  <1>4. CASE ~Punctual(e, k)
    <2>1. PICK p \in OrdersOf(e) : orders[p].type = k /\ p \in late
      BY <1>4 DEF Punctual
    <2>2. p \in Orders /\ orders[p].event = e /\ orders[p].status \in Sales
      BY <2>1 DEF Bought, OrdersOf
    <2>3. QED
      BY <1>1, <1>2, <2>1, <2>2
  <1>5. CASE orders[o].status = "pending" /\ Punctual(e, k)
    <2>1. IsFiniteSet(P) /\ o \in P
      BY <1>5, CatalogAssumption, FS_Subset DEF OrdersOf
    <2>2. \A p \in P : q[p] \in Nat
      BY DEF OrdersOf, TypeOK, OrderRecord
    <2>3. q[o] > 0 /\ q[o] \in Nat
      BY <1>1, <2>1, <2>2
    <2>4. QuantityOf(e, k, {"pending"}) = SumOf(q, P)
      BY DEF QuantityOf
    <2>5. types[e][k].units.reserved = held[e][k] + QuantityOf(e, k, {"pending"})
          /\ held[e][k] \in Nat
      BY <1>1, <1>5, RowType DEF Sums
    <2> HIDE DEF P, q, e, k
    <2>6. SumOf(q, P) = SumOf(q, P \ {o}) + q[o] /\ SumOf(q, P \ {o}) \in Nat
      BY <2>1, <2>2, SumAtLeast
    <2>7. types[e][k].units.reserved # 0
      BY <2>3, <2>4, <2>5, <2>6
    <2>8. QED
      BY <1>1, <2>7 DEF PriceLocked, e, k
  <1>6. QED
    BY <1>3, <1>4, <1>5 DEF Placed, Sales

LEMMA PricesManage ==
  ASSUME TypeOK, Ledger, NEW r \in Requests, Manage(r)
  PROVE  OrdersKeepTheirPrice'
  <1> SUFFICES ASSUME NEW o \in Orders, orders'[o].status \in Placed, o \notin late'
               PROVE  types'[orders'[o].event][orders'[o].type].price = orders'[o].price
    BY DEF OrdersKeepTheirPrice, Placed
  <1>1. orders' = orders /\ late' = late
    BY ManageRows DEF Ledger
  <1>2. orders[o].event \in Events /\ orders[o].type \in Types
    BY <1>1, OrderType DEF Placed
  <1>3. LET row == types[orders[o].event][orders[o].type]
        IN row.exists /\ PriceLocked(row.units)
    BY <1>1, OrdersLockPrices DEF Ledger
  <1>4. types'[orders[o].event][orders[o].type].price = types[orders[o].event][orders[o].type].price
    BY <1>2, <1>3, ManageRows DEF Ledger
  <1>5. QED
    BY <1>1, <1>4 DEF Ledger, OrdersKeepTheirPrice, Placed

LEMMA PricesPublic ==
  ASSUME TypeOK, OrdersKeepTheirPrice, NEW e \in Events, NEW k \in Types,
         NEW u \in Counters, Count(e, k, u), late \subseteq late',
         \A o \in Orders : orders'[o].status \in Placed /\ o \notin late' =>
           \/ /\ orders[o].status \in Placed /\ orders'[o].event = orders[o].event
              /\ orders'[o].type = orders[o].type /\ orders'[o].price = orders[o].price
           \/ /\ orders'[o].event = e /\ orders'[o].type = k
              /\ orders'[o].price = types[e][k].price
  PROVE  OrdersKeepTheirPrice'
  <1> SUFFICES ASSUME NEW o \in Orders, orders'[o].status \in Placed, o \notin late'
               PROVE  types'[orders'[o].event][orders'[o].type].price = orders'[o].price
    BY DEF OrdersKeepTheirPrice, Placed
  <1>1. \A f \in Events, j \in Types : types'[f][j].price = types[f][j].price
    BY CountType
  <1>2. CASE /\ orders[o].status \in Placed /\ orders'[o].event = orders[o].event
             /\ orders'[o].type = orders[o].type /\ orders'[o].price = orders[o].price
    <2>1. orders[o].event \in Events /\ orders[o].type \in Types
      BY <1>2, OrderType DEF Placed
    <2>2. types[orders[o].event][orders[o].type].price = orders[o].price
      BY <1>2 DEF OrdersKeepTheirPrice, Placed
    <2>3. QED
      BY <1>1, <1>2, <2>1, <2>2
  <1>3. CASE orders'[o].event = e /\ orders'[o].type = k /\ orders'[o].price = types[e][k].price
    BY <1>1, <1>3
  <1>4. QED
    BY <1>2, <1>3

LEMMA LedgerHolds ==
  ASSUME TypeOK, Ledger, NEW e \in Events, NEW k \in Types, NEW n \in Quantities,
         HoldSeats(e, k, n) \/ EndHold(e, k, n)
  PROVE  Ledger'
  <1> DEFINE c == types[e][k].units
             u == types'[e][k].units
  <1>1. n \in Nat /\ n \in Int /\ c \in Counters /\ held[e][k] \in Nat
    BY CatalogAssumption, RowType
  <1>2. orders' = orders /\ UNCHANGED <<events, reqs, late>>
    BY DEF HoldSeats, EndHold
  <1>3. /\ \A f \in Events, j \in Types : ~(f = e /\ j = k) => held'[f][j] = held[f][j]
        /\ types[e][k].exists
        /\ \E v \in Counters :
             /\ Count(e, k, v)
             /\ v.reserved - held'[e][k] = c.reserved - held[e][k]
             /\ v.sold = c.sold /\ v.refunded = c.refunded
             /\ held'[e][k] \in Int /\ v.reserved \in Int
    <2>1. CASE HoldSeats(e, k, n)
      <3> DEFINE v == Reserve(c, n)
      <3>1. v \in Counters /\ v.reserved = c.reserved + n /\ v.sold = c.sold
            /\ v.refunded = c.refunded /\ c.reserved \in Int
        BY <1>1, ReserveKeepsType, CounterEffects
      <3>2. Count(e, k, v) /\ types[e][k].exists /\ held' = [held EXCEPT ![e][k] = @ + n]
        BY <2>1 DEF HoldSeats, OnSale
      <3>3. /\ held'[e][k] = held[e][k] + n
            /\ \A f \in Events, j \in Types : ~(f = e /\ j = k) => held'[f][j] = held[f][j]
        BY <3>2 DEF TypeOK
      <3> HIDE DEF v, c
      <3>4. QED
        BY <1>1, <3>1, <3>2, <3>3
    <2>2. CASE EndHold(e, k, n)
      <3> DEFINE v == Release(c, n)
      <3>1. v \in Counters /\ v.reserved = c.reserved - n /\ v.sold = c.sold
            /\ v.refunded = c.refunded /\ c.reserved \in Int
        BY <1>1, ReleaseKeepsType, CounterEffects
      <3>2. Count(e, k, v) /\ n \in 1..held[e][k] /\ held' = [held EXCEPT ![e][k] = @ - n]
        BY <2>2 DEF EndHold
      <3>3. /\ held'[e][k] = held[e][k] - n
            /\ \A f \in Events, j \in Types : ~(f = e /\ j = k) => held'[f][j] = held[f][j]
        BY <3>2 DEF TypeOK
      <3>4. types[e][k].exists
        BY <1>1, <3>2 DEF Ledger, Home
      <3> HIDE DEF v, c
      <3>5. QED
        BY <1>1, <3>1, <3>2, <3>3, <3>4
    <2>3. QED
      BY <2>1, <2>2
  <1>4. PICK v \in Counters :
          /\ Count(e, k, v)
          /\ v.reserved - held'[e][k] = c.reserved - held[e][k]
          /\ v.sold = c.sold /\ v.refunded = c.refunded
          /\ held'[e][k] \in Int /\ v.reserved \in Int
    BY <1>3
  <1>5. \A f, g, K : QuantityOf(f, g, K)' = QuantityOf(f, g, K)
    BY <1>2, QuantityStays
  <1>6. ASSUME NEW f \in Events, NEW j \in Types, Punctual(f, j)' PROVE Punctual(f, j)
    BY <1>2, <1>6, PunctualBefore
  <1>7. ASSUME Punctual(e, k)'
        PROVE  /\ v.reserved = held'[e][k] + QuantityOf(e, k, {"pending"})'
               /\ v.sold = QuantityOf(e, k, {"confirmed", "cancelled"})'
               /\ v.refunded = QuantityOf(e, k, {"cancelled"})'
    <2>1. /\ c.reserved = held[e][k] + QuantityOf(e, k, {"pending"})
          /\ c.sold = QuantityOf(e, k, {"confirmed", "cancelled"})
          /\ c.refunded = QuantityOf(e, k, {"cancelled"})
          /\ QuantityOf(e, k, {"pending"}) \in Nat
      BY <1>6, <1>7, QuantityIsNat DEF Ledger, Sums
    <2> HIDE DEF c, u
    <2>2. QED
      BY <1>1, <1>4, <1>5, <2>1
  <1>8. Sums'
    BY <1>3, <1>4, <1>5, <1>6, <1>7, SumsPublic DEF Ledger
  <1>9. Home'
    BY <1>2, <1>3, <1>4, HomePublic DEF Ledger
  <1>10. OrdersKeepTheirPrice'
    BY <1>2, <1>4, PricesPublic DEF Ledger
  <1>11. Bought'
    <2>1. \A o \in Orders : orders'[o] = orders[o]
      BY <1>2
    <2>2. \A o \in late' : /\ orders'[o].status \in Sales
                          /\ events[orders'[o].event].seating # "assigned"
      BY <1>2 DEF Ledger, Bought, Seated
    <2>3. v.sold >= c.sold /\ events' = events /\ Count(e, k, v) /\ Bought
      BY <1>1, <1>2, <1>4 DEF Counters, Ledger
    <2>4. QED
      BY <2>1, <2>2, <2>3, BoughtPublic
  <1>12. QED
    BY <1>8, <1>9, <1>10, <1>11 DEF Ledger

(* An order that is placed takes its units from a hold, or reserves them.   *)
LEMMA LedgerPlaces ==
  ASSUME TypeOK, Ledger, NEW o \in Orders, NEW e \in Events, NEW k \in Types,
         NEW n \in Nat, NEW h \in Int, NEW v \in Counters,
         Place(o, e, k, n), Count(e, k, v),
         held'[e][k] = h,
         \A f \in Events, j \in Types : ~(f = e /\ j = k) => held'[f][j] = held[f][j],
         LET c == types[e][k].units
         IN /\ v.refunded = c.refunded
            /\ types[e][k].price = 0 =>
                 v.reserved - h = c.reserved - held[e][k] /\ v.sold = c.sold + n
            /\ types[e][k].price # 0 =>
                 v.reserved - h = c.reserved - held[e][k] + n /\ v.sold = c.sold
  PROVE  Ledger'
  <1> DEFINE c == types[e][k].units
             status == IF types[e][k].price = 0 THEN "confirmed" ELSE "pending"
             price == types[e][k].price
  <1>1. c \in Counters /\ held[e][k] \in Nat
    BY RowType
  <1>2. /\ c.reserved \in Int /\ c.sold \in Int /\ c.refunded \in Int
        /\ v.reserved \in Int /\ v.sold \in Int /\ v.refunded \in Int
    BY <1>1, CounterEffects
  <1>3. /\ orders[o].status = "none" /\ status # "none" /\ n > 0 /\ types[e][k].exists
        /\ orders' = [orders EXCEPT ![o] = [status |-> status, event |-> e, type |-> k,
                                            quantity |-> n, price |-> price]]
        /\ UNCHANGED <<events, reqs, late>>
    BY DEF Place, OnSale
  <1>5. ASSUME NEW f, NEW j, NEW K
        PROVE  /\ f = e /\ j = k /\ status \in K
                    => QuantityOf(f, j, K)' = QuantityOf(f, j, K) + n
               /\ ~(f = e /\ j = k /\ status \in K)
                    => QuantityOf(f, j, K)' = QuantityOf(f, j, K)
               /\ QuantityOf(f, j, K) \in Nat
    <2> HIDE DEF status, price
    <2>1. QED
      BY <1>3, QuantityArrives
  <1>6. \A p \in Orders : orders'[p] =
          IF p = o THEN [status |-> status, event |-> e, type |-> k,
                         quantity |-> n, price |-> price] ELSE orders[p]
    BY <1>3 DEF TypeOK
  <1>4. ASSUME NEW f \in Events, NEW j \in Types, Punctual(f, j)' PROVE Punctual(f, j)
    <2> HIDE DEF status, price
    <2>1. QED
      BY <1>3, <1>4, <1>6, PunctualBefore
  <1>7. ASSUME Punctual(e, k)'
        PROVE  /\ v.reserved = held'[e][k] + QuantityOf(e, k, {"pending"})'
               /\ v.sold = QuantityOf(e, k, {"confirmed", "cancelled"})'
               /\ v.refunded = QuantityOf(e, k, {"cancelled"})'
    <2>0. /\ c.reserved = held[e][k] + QuantityOf(e, k, {"pending"})
          /\ c.sold = QuantityOf(e, k, {"confirmed", "cancelled"})
          /\ c.refunded = QuantityOf(e, k, {"cancelled"})
      BY <1>4, <1>7 DEF Ledger, Sums
    <2>1. CASE types[e][k].price = 0
      <3>1. /\ QuantityOf(e, k, {"pending"})' = QuantityOf(e, k, {"pending"})
            /\ QuantityOf(e, k, {"confirmed", "cancelled"})'
                 = QuantityOf(e, k, {"confirmed", "cancelled"}) + n
            /\ QuantityOf(e, k, {"cancelled"})' = QuantityOf(e, k, {"cancelled"})
            /\ QuantityOf(e, k, {"pending"}) \in Nat
        BY <1>5, <2>1
      <3> HIDE DEF c
      <3>2. v.reserved - h = c.reserved - held[e][k] /\ v.sold = c.sold + n
            /\ v.refunded = c.refunded
        BY <2>1 DEF c
      <3>3. QED
        BY <1>1, <1>2, <2>0, <3>1, <3>2
    <2>2. CASE types[e][k].price # 0
      <3>1. /\ QuantityOf(e, k, {"pending"})' = QuantityOf(e, k, {"pending"}) + n
            /\ QuantityOf(e, k, {"confirmed", "cancelled"})'
                 = QuantityOf(e, k, {"confirmed", "cancelled"})
            /\ QuantityOf(e, k, {"cancelled"})' = QuantityOf(e, k, {"cancelled"})
            /\ QuantityOf(e, k, {"pending"}) \in Nat
        BY <1>5, <2>2
      <3> HIDE DEF c
      <3>2. v.reserved - h = c.reserved - held[e][k] + n /\ v.sold = c.sold
            /\ v.refunded = c.refunded
        BY <2>2 DEF c
      <3>3. QED
        BY <1>1, <1>2, <2>0, <3>1, <3>2
    <2>3. QED
      BY <2>1, <2>2
  <1>8. Sums'
    <2>1. \A f \in Events, j \in Types : ~(f = e /\ j = k) =>
            \A K \in Kinds : QuantityOf(f, j, K)' = QuantityOf(f, j, K)
      BY <1>5
    <2> HIDE DEF c, status, price
    <2>2. QED
      BY <1>4, <1>7, <2>1, SumsPublic DEF Ledger
  <1>9. Home'
    <2> HIDE DEF c, status, price
    <2>1. QED
      BY <1>3, <1>6, HomePublic DEF Ledger
  <1>10. OrdersKeepTheirPrice'
    <2>1. \A p \in Orders : orders'[p].status \in Placed =>
           \/ /\ orders[p].status \in Placed /\ orders'[p].event = orders[p].event
              /\ orders'[p].type = orders[p].type /\ orders'[p].price = orders[p].price
           \/ /\ orders'[p].event = e /\ orders'[p].type = k
              /\ orders'[p].price = types[e][k].price
      BY <1>6
    <2>2. QED
      BY <1>3, <2>1, PricesPublic DEF Ledger
  <1>11. Bought'
    <2>1. c.sold >= 0 /\ c.sold \in Int
      BY <1>2 DEF Ledger, Bought
    <2>2. CASE price = 0
      <3>1. v.sold = c.sold + n /\ status = "confirmed"
        BY <2>2
      <3>2. v.sold > 0 /\ v.sold >= c.sold
        BY <1>3, <2>1, <3>1
      <3>3. \A p \in Orders : orders'[p].status \in Sales =>
              \/ /\ orders[p].status \in Sales /\ orders'[p].event = orders[p].event
                 /\ orders'[p].type = orders[p].type
              \/ orders'[p].event = e /\ orders'[p].type = k /\ v.sold > 0
        BY <1>6, <3>2
      <3>4. \A p \in late : p # o
        BY <1>3 DEF Ledger, Bought, Sales
      <3>5. \A p \in late' : /\ orders'[p].status \in Sales
                            /\ events[orders'[p].event].seating # "assigned"
        BY <1>3, <1>6, <3>4 DEF Ledger, Bought, Seated, TypeOK
      <3> HIDE DEF c, status, price
      <3>6. QED
        BY <1>3, <3>2, <3>3, <3>5, BoughtPublic DEF Ledger, c
    <2>3. CASE price # 0
      <3>1. v.sold = c.sold /\ status = "pending"
        BY <2>3
      <3>2. v.sold >= c.sold
        BY <2>1, <3>1
      <3>3. \A p \in Orders : orders'[p].status \in Sales =>
              /\ orders[p].status \in Sales /\ orders'[p].event = orders[p].event
              /\ orders'[p].type = orders[p].type
        BY <1>6, <3>1 DEF Sales
      <3>4. \A p \in late : p # o
        BY <1>3 DEF Ledger, Bought, Sales
      <3>5. \A p \in late' : /\ orders'[p].status \in Sales
                            /\ events[orders'[p].event].seating # "assigned"
        BY <1>3, <1>6, <3>4 DEF Ledger, Bought, Seated, TypeOK
      <3> HIDE DEF c, status, price
      <3>6. QED
        BY <1>3, <3>2, <3>3, <3>5, BoughtPublic DEF Ledger, c
    <2>4. QED
      BY <2>2, <2>3
  <1>12. QED
    BY <1>8, <1>9, <1>10, <1>11 DEF Ledger

LEMMA LedgerPlacing ==
  ASSUME TypeOK, Ledger, NEW o \in Orders, NEW e \in Events, NEW k \in Types,
         NEW n \in Quantities, PlaceGeneralOrder(o, e, k, n) \/ PlaceSeatOrder(o, e, k, n)
  PROVE  Ledger'
  <1> DEFINE c == types[e][k].units
             row == types[e][k]
  <1>1. n \in Nat /\ n \in Int /\ c \in Counters /\ held[e][k] \in Nat
    BY CatalogAssumption, RowType
  <1>2. c.reserved \in Int /\ c.sold \in Int /\ c.refunded \in Int
    BY <1>1, CounterEffects
  <1>3. CASE PlaceGeneralOrder(o, e, k, n)
    <2> DEFINE r == Reserve(c, n)
               d == Confirm(r, n)
               v == IF row.price = 0 THEN d ELSE r
    <2>1. Place(o, e, k, n) /\ Count(e, k, v) /\ held' = held
      BY <1>3 DEF PlaceGeneralOrder, Settled
    <2>2. r \in Counters /\ r.reserved = c.reserved + n /\ r.sold = c.sold
          /\ r.refunded = c.refunded
      BY <1>1, ReserveKeepsType, CounterEffects
    <2> HIDE DEF r
    <2>3. d \in Counters /\ d.reserved = r.reserved - n /\ d.sold = r.sold + n
          /\ d.refunded = r.refunded
      BY <1>1, <2>2, ConfirmKeepsType, CounterEffects
    <2> HIDE DEF d, c
    <2>4. /\ v \in Counters /\ v.refunded = c.refunded
          /\ row.price = 0 =>
               v.reserved - held[e][k] = c.reserved - held[e][k] /\ v.sold = c.sold + n
          /\ row.price # 0 =>
               v.reserved - held[e][k] = c.reserved - held[e][k] + n /\ v.sold = c.sold
      BY <1>1, <1>2, <2>2, <2>3
    <2> HIDE DEF v
    <2>5. QED
      BY <1>1, <2>1, <2>4, LedgerPlaces DEF c
  <1>4. CASE PlaceSeatOrder(o, e, k, n)
    <2> DEFINE d == Confirm(c, n)
               v == IF row.price = 0 THEN d ELSE c
               h == held[e][k] - n
    <2>1. /\ Place(o, e, k, n) /\ Count(e, k, v)
          /\ held' = [held EXCEPT ![e][k] = @ - n]
      BY <1>4 DEF PlaceSeatOrder, Settled
    <2>2. d \in Counters /\ d.reserved = c.reserved - n /\ d.sold = c.sold + n
          /\ d.refunded = c.refunded
      BY <1>1, ConfirmKeepsType, CounterEffects
    <2>3. /\ held'[e][k] = h
          /\ \A f \in Events, j \in Types : ~(f = e /\ j = k) => held'[f][j] = held[f][j]
      BY <2>1 DEF TypeOK
    <2> HIDE DEF d, c
    <2>4. /\ v \in Counters /\ v.refunded = c.refunded /\ h \in Int
          /\ row.price = 0 =>
               v.reserved - h = c.reserved - held[e][k] /\ v.sold = c.sold + n
          /\ row.price # 0 =>
               v.reserved - h = c.reserved - held[e][k] + n /\ v.sold = c.sold
      BY <1>1, <1>2, <2>2
    <2> HIDE DEF v, h
    <2>5. QED
      BY <1>1, <2>1, <2>3, <2>4, LedgerPlaces DEF c
  <1>5. QED
    BY <1>3, <1>4

(* An order that is paid, ended or cancelled.                              *)
LEMMA LedgerSettles ==
  ASSUME TypeOK, Ledger, NEW o \in Orders, orders[o].status # "none",
         NEW e \in Events, NEW k \in Types, orders[o].event = e, orders[o].type = k,
         NEW status \in {"stranded", "confirmed", "released", "cancelled"}, Settle(o, status),
         late \subseteq late', late' \subseteq late \cup {o},
         o \in late' => status \in Sales /\ ~Seated(o),
         status \in Placed /\ o \notin late' => orders[o].status \in Placed,
         NEW v \in Counters, Count(e, k, v),
         v.sold >= UnitsOf(o).sold, status \in Sales => v.sold > 0,
         LET c == UnitsOf(o)
             n == orders[o].quantity
         IN \/ o \in late'
            \/ /\ orders[o].status = "pending" /\ status = "confirmed"
               /\ v.reserved = c.reserved - n /\ v.sold = c.sold + n /\ v.refunded = c.refunded
            \/ /\ orders[o].status = "pending" /\ status \in {"released", "stranded"}
               /\ v.reserved = c.reserved - n /\ v.sold = c.sold /\ v.refunded = c.refunded
            \/ /\ orders[o].status = "stranded" /\ status = "released" /\ v = c
            \/ /\ orders[o].status = "confirmed" /\ status = "cancelled"
               /\ v.reserved = c.reserved /\ v.sold = c.sold /\ v.refunded = c.refunded + n
  PROVE  Ledger'
  <1> DEFINE c == UnitsOf(o)
             n == orders[o].quantity
             pending == QuantityOf(e, k, {"pending"})
             sold == QuantityOf(e, k, {"confirmed", "cancelled"})
             refunded == QuantityOf(e, k, {"cancelled"})
  <1>1. n \in Nat /\ c \in Counters /\ c = types[e][k].units
    BY OrderType DEF UnitsOf
  <1>2. /\ c.reserved \in Int /\ c.sold \in Int /\ c.refunded \in Int
        /\ held[e][k] \in Nat
    BY <1>1, RowType DEF Counters
  <1>3. UNCHANGED <<events, held, reqs>>
    BY DEF Settle
  <1>4. ASSUME NEW f, NEW j, NEW K
        PROVE  LET own == e = f /\ k = j
                   was == QuantityOf(f, j, K)
                   is == QuantityOf(f, j, K)'
               IN /\ own /\ status \in K /\ orders[o].status \notin K => is = was + n
                  /\ own /\ status \notin K /\ orders[o].status \in K => is = was - n
                  /\ ~own \/ (status \in K <=> orders[o].status \in K) => is = was
                  /\ was \in Nat
    BY QuantityMoves
  <1>5. \A p \in Orders :
          /\ orders'[p].event = orders[p].event /\ orders'[p].type = orders[p].type
          /\ orders'[p].quantity = orders[p].quantity /\ orders'[p].price = orders[p].price
          /\ orders'[p].status = IF p = o THEN status ELSE orders[p].status
    <2>1. orders' = [orders EXCEPT ![o] = [orders[o] EXCEPT !.status = status]]
      BY DEF Settle, TypeOK
    <2>2. orders[o] \in OrderRecord
      BY DEF TypeOK
    <2>3. LET r == [orders[o] EXCEPT !.status = status]
          IN /\ r.event = orders[o].event /\ r.type = orders[o].type
             /\ r.quantity = orders[o].quantity /\ r.status = status
             /\ r.price = orders[o].price
      BY <2>2 DEF OrderRecord
    <2>4. QED
      BY <2>1, <2>3 DEF TypeOK
  <1>6. ASSUME NEW f \in Events, NEW j \in Types, Punctual(f, j)' PROVE Punctual(f, j)
    <2>1. \A p \in Orders : orders[p].status # "none" => orders'[p].status # "none"
      BY <1>5
    <2> HIDE DEF c, n
    <2>2. QED
      BY <1>5, <1>6, <2>1, PunctualBefore
  <1>7. ASSUME Punctual(e, k)'
        PROVE  /\ v.reserved = held'[e][k] + QuantityOf(e, k, {"pending"})'
               /\ v.sold = QuantityOf(e, k, {"confirmed", "cancelled"})'
               /\ v.refunded = QuantityOf(e, k, {"cancelled"})'
    <2>0. /\ c.reserved = held[e][k] + pending /\ c.sold = sold /\ c.refunded = refunded
          /\ pending \in Nat /\ sold \in Nat /\ refunded \in Nat
      BY <1>1, <1>6, <1>7, QuantityIsNat DEF Ledger, Sums
    <2>6. o \notin late'
      <3>1. o \in OrdersOf(e)' /\ orders'[o].type = k
        BY <1>5 DEF OrdersOf
      <3>2. QED
        BY <1>7, <3>1 DEF Punctual
    <2>1. CASE orders[o].status = "pending" /\ status = "confirmed"
      <3>1. /\ QuantityOf(e, k, {"pending"})' = pending - n
            /\ QuantityOf(e, k, {"confirmed", "cancelled"})' = sold + n
            /\ QuantityOf(e, k, {"cancelled"})' = refunded
        BY <1>4, <2>1
      <3>2. v.reserved = c.reserved - n /\ v.sold = c.sold + n /\ v.refunded = c.refunded
        BY <2>1, <2>6
      <3> HIDE DEF c, n, pending, sold, refunded
      <3>3. QED
        BY <1>1, <1>2, <1>3, <2>0, <3>1, <3>2
    <2>2. CASE orders[o].status = "pending" /\ status \in {"released", "stranded"}
      <3>1. /\ QuantityOf(e, k, {"pending"})' = pending - n
            /\ QuantityOf(e, k, {"confirmed", "cancelled"})' = sold
            /\ QuantityOf(e, k, {"cancelled"})' = refunded
        BY <1>4, <2>2
      <3>2. v.reserved = c.reserved - n /\ v.sold = c.sold /\ v.refunded = c.refunded
        BY <2>2, <2>6
      <3> HIDE DEF c, n, pending, sold, refunded
      <3>3. QED
        BY <1>1, <1>2, <1>3, <2>0, <3>1, <3>2
    <2>3. CASE orders[o].status = "stranded" /\ status = "released"
      <3>1. /\ QuantityOf(e, k, {"pending"})' = pending
            /\ QuantityOf(e, k, {"confirmed", "cancelled"})' = sold
            /\ QuantityOf(e, k, {"cancelled"})' = refunded
        BY <1>4, <2>3
      <3>2. v = c
        BY <2>3, <2>6
      <3> HIDE DEF c, n, pending, sold, refunded
      <3>3. QED
        BY <1>1, <1>2, <1>3, <2>0, <3>1, <3>2
    <2>4. CASE orders[o].status = "confirmed" /\ status = "cancelled"
      <3>1. /\ QuantityOf(e, k, {"pending"})' = pending
            /\ QuantityOf(e, k, {"confirmed", "cancelled"})' = sold
            /\ QuantityOf(e, k, {"cancelled"})' = refunded + n
        BY <1>4, <2>4
      <3>2. v.reserved = c.reserved /\ v.sold = c.sold /\ v.refunded = c.refunded + n
        BY <2>4, <2>6
      <3> HIDE DEF c, n, pending, sold, refunded
      <3>3. QED
        BY <1>1, <1>2, <1>3, <2>0, <3>1, <3>2
    <2>5. QED
      BY <2>1, <2>2, <2>3, <2>4, <2>6
  <1>8. Sums'
    <2>1. \A f \in Events, j \in Types : ~(f = e /\ j = k) =>
            \A K \in Kinds : QuantityOf(f, j, K)' = QuantityOf(f, j, K)
      BY <1>4
    <2> HIDE DEF c, n
    <2>2. QED
      BY <1>1, <1>3, <1>6, <1>7, <2>1, SumsPublic DEF Ledger
  <1>9. types[e][k].exists
    BY DEF Ledger, Home
  <1>10. Home'
    <2>1. \A p \in Orders : orders'[p].status # "none" =>
           /\ orders[p].status # "none" /\ orders'[p].event = orders[p].event
           /\ orders'[p].type = orders[p].type /\ orders'[p].quantity = orders[p].quantity
      BY <1>5
    <2>2. QED
      BY <1>1, <1>3, <1>9, <2>1, HomePublic DEF Ledger
  <1>11. OrdersKeepTheirPrice'
    <2>1. \A p \in Orders : orders'[p].status \in Placed /\ p \notin late' =>
           /\ orders[p].status \in Placed /\ orders'[p].event = orders[p].event
           /\ orders'[p].type = orders[p].type /\ orders'[p].price = orders[p].price
      BY <1>5
    <2>2. QED
      BY <1>1, <2>1, PricesPublic DEF Ledger
  <1>12. Bought'
    <2>1. \A p \in Orders : orders'[p].status \in Sales =>
            \/ /\ orders[p].status \in Sales /\ orders'[p].event = orders[p].event
               /\ orders'[p].type = orders[p].type
            \/ orders'[p].event = e /\ orders'[p].type = k /\ v.sold > 0
      BY <1>5
    <2>2. ASSUME NEW p \in late'
          PROVE  /\ orders'[p].status \in Sales
                 /\ events[orders'[p].event].seating # "assigned"
      <3>1. CASE p = o
        BY <1>5, <2>2, <3>1 DEF Seated
      <3>2. CASE p # o
        <4>1. p \in late /\ p \in Orders
          BY <2>2, <3>2 DEF TypeOK
        <4>2. QED
          BY <1>5, <3>2, <4>1 DEF Ledger, Bought, Seated
      <3>3. QED
        BY <3>1, <3>2
    <2>3. v.sold >= types[e][k].units.sold /\ events' = events
      BY <1>1, <1>3
    <2> HIDE DEF c, n
    <2>4. QED
      BY <2>1, <2>2, <2>3, BoughtPublic DEF Ledger
  <1>13. QED
    BY <1>8, <1>10, <1>11, <1>12 DEF Ledger

LEMMA LedgerOrders ==
  ASSUME TypeOK, AllocatedWithinTotal, Ledger, NEW o \in Orders,
         PayOrder(o) \/ EndPending(o) \/ EndStranded(o) \/ CancelFree(o)
  PROVE  Ledger'
  <1> DEFINE c == UnitsOf(o)
             n == orders[o].quantity
             e == orders[o].event
             k == orders[o].type
  <1>1. orders[o].status # "none"
    BY DEF PayOrder, EndPending, EndStranded, CancelFree, StillIs
  <1>2. c \in Counters /\ n \in Int /\ n > 0 /\ e \in Events /\ k \in Types
    BY <1>1, OrderType DEF Ledger, Home
  <1>3. c.sold \in Int /\ c.sold >= 0
    BY <1>2 DEF Ledger, Bought, UnitsOf, Counters
  <1>4. o \in late => orders[o].status \in Sales /\ ~Seated(o)
    BY DEF Ledger, Bought
  <1>5. CASE PayOrder(o)
    <2> DEFINE v == Confirm(c, n)
    <2>1. /\ StillIs(o, "pending") /\ Settle(o, "confirmed") /\ Count(e, k, v)
          /\ late' = IF orders[o].status = "pending" THEN late ELSE late \cup {o}
      BY <1>5 DEF PayOrder, Note
    <2>2. v \in Counters /\ v.reserved = c.reserved - n /\ v.sold = c.sold + n
          /\ v.refunded = c.refunded
      BY <1>2, ConfirmKeepsType, CounterEffects
    <2> HIDE DEF v
    <2>3. v.sold >= c.sold /\ v.sold > 0
      <3> HIDE DEF c, n
      <3>1. QED
        BY <1>2, <1>3, <2>2
    <2>4. o \in late' => ~Seated(o)
      BY <1>4, <2>1 DEF StillIs
    <2>5. o \notin late' => orders[o].status = "pending"
      BY <2>1
    <2>6. "confirmed" \in Sales /\ "pending" \in Placed /\ "confirmed" \in Placed
      BY DEF Sales, Placed
    <2>7. late \subseteq late' /\ late' \subseteq late \cup {o}
      BY <2>1
    <2>8. QED
      BY <1>1, <1>2, <2>1, <2>2, <2>3, <2>4, <2>5, <2>6, <2>7, LedgerSettles
  <1>6. CASE EndPending(o)
    <2> DEFINE v == Release(c, n)
    <2>1. /\ orders[o].status = "pending" /\ Count(e, k, v) /\ late' = late
          /\ \E status \in {"released", "stranded"} : Settle(o, status)
      BY <1>6 DEF EndPending
    <2>2. PICK status \in {"released", "stranded"} : Settle(o, status)
      BY <2>1
    <2>3. v \in Counters /\ v.reserved = c.reserved - n /\ v.sold = c.sold
          /\ v.refunded = c.refunded
      BY <1>2, ReleaseKeepsType, CounterEffects
    <2> HIDE DEF v
    <2>4. o \notin late' /\ status \notin Sales /\ status \notin Placed
      BY <1>4, <2>1, <2>2 DEF Sales, Placed
    <2>5. v.sold >= c.sold
      BY <1>3, <2>3
    <2>6. QED
      BY <1>1, <1>2, <2>1, <2>2, <2>3, <2>4, <2>5, LedgerSettles
  <1>7. CASE EndStranded(o)
    <2>1. orders[o].status = "stranded" /\ Settle(o, "released") /\ types' = types /\ late' = late
      BY <1>7 DEF EndStranded
    <2>2. types[e][k] \in TypeRecord /\ types[e] \in [Types -> TypeRecord]
      BY <1>2 DEF TypeOK
    <2>3. types = [types EXCEPT ![e] = [types[e] EXCEPT ![k] =
                     [types[e][k] EXCEPT !.units = c]]]
      <3>1. [types[e][k] EXCEPT !.units = c] = types[e][k]
        BY <2>2 DEF UnitsOf, TypeRecord
      <3>2. QED
        BY <1>2, <2>2, <3>1 DEF TypeOK
    <2>4. Count(e, k, c)
      BY <1>2, <2>1, <2>3 DEF Count
    <2>5. o \notin late' /\ "released" \notin Sales /\ "released" \notin Placed
      BY <1>4, <2>1 DEF Sales, Placed
    <2>6. c.sold >= c.sold
      BY <1>3
    <2>7. QED
      BY <1>1, <1>2, <2>1, <2>4, <2>5, <2>6, LedgerSettles
  <1>8. CASE CancelFree(o)
    <2> DEFINE v == Refund(c, n)
    <2>1. /\ StillIs(o, "confirmed") /\ Settle(o, "cancelled") /\ Count(e, k, v)
          /\ late' = IF orders[o].status = "confirmed" THEN late ELSE late \cup {o}
          /\ CanRefund(c, n)
      BY <1>8 DEF CancelFree, Note
    <2>2. v \in Counters /\ v.reserved = c.reserved /\ v.sold = c.sold
          /\ v.refunded = c.refunded + n
      BY <1>2, RefundKeepsType, CounterEffects
    <2> HIDE DEF v
    <2>3. v.sold >= c.sold /\ v.sold > 0
      <3>1. ChecksHold(c, types[e][k].total)
        BY <1>2 DEF AllocatedWithinTotal, UnitsOf
      <3> HIDE DEF c, n
      <3>2. /\ c.refunded >= 0 /\ c.checkedIn >= 0
            /\ c.refunded \in Int /\ c.checkedIn \in Int
        BY <1>2, <3>1 DEF ChecksHold, CountersNotNegative, Counters
      <3>3. c.sold - c.refunded - c.checkedIn >= n
        BY <2>1 DEF CanRefund, Refundable
      <3>4. QED
        BY <1>2, <1>3, <2>2, <3>2, <3>3
    <2>4. o \in late' => ~Seated(o)
      BY <1>4, <2>1 DEF StillIs
    <2>5. o \notin late' => orders[o].status = "confirmed"
      BY <2>1
    <2>6. "cancelled" \in Sales /\ "confirmed" \in Placed /\ "cancelled" \in Placed
      BY DEF Sales, Placed
    <2>7. late \subseteq late' /\ late' \subseteq late \cup {o}
      BY <2>1
    <2>8. QED
      BY <1>1, <1>2, <2>1, <2>2, <2>3, <2>4, <2>5, <2>6, <2>7, LedgerSettles
  <1>9. QED
    BY <1>5, <1>6, <1>7, <1>8

LEMMA LedgerManage ==
  ASSUME TypeOK, OrdersOnlyWhilePublished, Ledger, NEW r \in Requests, Manage(r)
  PROVE  Ledger'
  <1>1. /\ UNCHANGED <<orders, held, late>>
        /\ \A e \in Events, k \in Types : types'[e][k].units = types[e][k].units
    BY ManageRows DEF Ledger
  <1>2. \A e, k, K : QuantityOf(e, k, K)' = QuantityOf(e, k, K)
    BY <1>1, QuantityStays
  <1>3. \A e \in Events, k \in Types : Punctual(e, k)' => Punctual(e, k)
    BY <1>1, PunctualBefore
  <1>4. Sums'
    BY <1>1, <1>2, <1>3 DEF Ledger, Sums
  <1>5. Bought'
    <2>1. ASSUME NEW o \in Orders, orders[o].status # "none"
          PROVE  UnitsOf(o)' = UnitsOf(o) /\ Seated(o)' = Seated(o)
      <3>1. orders[o].event \in Events /\ orders[o].type \in Types
        BY <2>1, OrderType
      <3>2. OrdersOf(orders[o].event) # {}
        BY <2>1 DEF OrdersOf
      <3>3. events'[orders[o].event].seating = events[orders[o].event].seating
        BY <3>1, <3>2, ManagePublished
      <3>4. QED
        BY <1>1, <3>1, <3>3 DEF UnitsOf, Seated
    <2>2. \A o \in Orders : orders[o].status \in Sales => orders[o].status # "none"
      BY DEF Sales
    <2>3. \A o \in late : o \in Orders /\ orders[o].status \in Sales
      BY DEF TypeOK, Ledger, Bought
    <2>4. QED
      BY <1>1, <2>1, <2>2, <2>3 DEF Ledger, Bought
  <1>6. QED
    BY <1>4, <1>5, HomeManage, PricesManage DEF Ledger

LEMMA LedgerStep ==
  ASSUME TypeOK, AllocatedWithinTotal, OrdersOnlyWhilePublished, Ledger, [Next]_vars
  PROVE  Ledger'
  <1>1. CASE UNCHANGED vars
    <2>1. orders' = orders /\ UNCHANGED <<events, types, held, reqs, late>>
      BY <1>1 DEF vars
    <2>2. \A e, k, K : QuantityOf(e, k, K)' = QuantityOf(e, k, K)
      BY <2>1, QuantityStays
    <2>3. \A e \in Events, k \in Types : Punctual(e, k)' => Punctual(e, k)
      BY <2>1, PunctualBefore
    <2>4. Bought' /\ OrdersKeepTheirPrice'
      BY <2>1 DEF Ledger, Bought, UnitsOf, Seated, OrdersKeepTheirPrice
    <2>5. Home' /\ Sums'
      BY <2>1, <2>2, <2>3 DEF Ledger, Home, Sums
    <2>6. QED
      BY <2>4, <2>5 DEF Ledger
  <1>2. ASSUME NEW e \in Events, NEW m \in Configurations, CreateEvent(e, m)
        PROVE  Ledger'
    <2>1. orders' = orders /\ UNCHANGED <<types, held, late>>
      BY <1>2 DEF CreateEvent
    <2>2. \A f, k, K : QuantityOf(f, k, K)' = QuantityOf(f, k, K)
      BY <2>1, QuantityStays
    <2>3. \A f \in Events, k \in Types : Punctual(f, k)' => Punctual(f, k)
      BY <2>1, PunctualBefore
    <2>4. Sums' /\ OrdersKeepTheirPrice'
      BY <2>1, <2>2, <2>3 DEF Ledger, Sums, OrdersKeepTheirPrice
    <2>5. Bought'
      <3>1. ASSUME NEW o \in late PROVE Seated(o)' = Seated(o)
        <4>1. o \in Orders /\ orders[o].status # "none"
          BY <3>1 DEF TypeOK, Ledger, Bought, Sales
        <4>2. OrdersOf(orders[o].event) # {} /\ orders[o].event \in Events
          BY <4>1, OrderType DEF OrdersOf
        <4>3. orders[o].event # e
          BY <1>2, <4>2 DEF CreateEvent, OrdersOnlyWhilePublished
        <4>4. events'[orders[o].event] = events[orders[o].event]
          BY <1>2, <4>2, <4>3 DEF CreateEvent, TypeOK
        <4>5. QED
          BY <2>1, <4>4 DEF Seated
      <3>2. QED
        BY <2>1, <3>1 DEF Ledger, Bought, UnitsOf
    <2>6. QED
      BY <1>2, <2>4, <2>5, HomeCreate DEF Ledger
  <1>3. QED
    BY <1>1, <1>2, LedgerManage, LedgerHolds, LedgerPlacing, LedgerOrders DEF Next, Buy

LEMMA LedgerAlways == Spec => []Ledger
  <1>1. Init => Ledger
    <2> SUFFICES ASSUME Init PROVE Ledger
      OBVIOUS
    <2>1. \A o \in Orders : orders[o].status = "none"
      BY DEF Init, NoOrder
    <2>2. \A r \in Requests : reqs[r] = NoRequest
      BY DEF Init
    <2>3. \A e \in Events, k \in Types : types[e][k] = NoType /\ held[e][k] = 0
      BY DEF Init
    <2>4. ~NoType.exists /\ NoType.units = NoUnits /\ NoUnits.sold = 0
      BY DEF NoType, NoUnits
    <2>5. Home
      BY <2>1, <2>2, <2>3, <2>4 DEF Home
    <2>6. ASSUME NEW e, NEW k, NEW K PROVE QuantityOf(e, k, K) = 0
      <3>1. {o \in OrdersOf(e) : orders[o].type = k /\ orders[o].status \in K} = {}
        BY <2>1 DEF OrdersOf
      <3>2. \A f : SumOf(f, {}) = 0
        BY SumZero
      <3>3. QED
        BY <3>1, <3>2 DEF QuantityOf
    <2>7. Sums
      BY <2>3, <2>4, <2>6 DEF Sums, NoUnits
    <2>8. late = {}
      BY DEF Init
    <2>9. Bought
      BY <2>1, <2>3, <2>4, <2>8 DEF Bought, Sales
    <2>10. QED
      BY <2>1, <2>5, <2>7, <2>9 DEF Ledger, OrdersKeepTheirPrice
  <1>2. TypeOK /\ AllocatedWithinTotal /\ OrdersOnlyWhilePublished /\ Ledger /\ [Next]_vars
          => Ledger'
    BY LedgerStep
  <1>3. QED
    BY <1>1, <1>2, CatalogTypeCorrect, ShrinkingKeepsChecks, OrdersKeepEventPublished, PTL
       DEF Spec

(* Whatever is edited, copied, held, bought and given back, by whatever     *)
(* status a payment or a cancellation was judged: with assigned seats, and  *)
(* for every ticket type no outdated act has touched, the counters are      *)
(* those of the holds and orders of its own event.                         *)
THEOREM CountersAreTheEventsOwn == Spec => []CountersBelongToOrders
  <1>1. TypeOK /\ Ledger => CountersBelongToOrders
    BY SumsAreTheProperty DEF Ledger
  <1>2. QED
    BY <1>1, CatalogTypeCorrect, LedgerAlways, PTL

(* An order keeps the price it was placed at as long as it holds, bought or *)
(* returned units: they are in a counter that locks the price, or in that   *)
(* of an outdated payment that took them, so no request, however old what   *)
(* it read, can change it.                                                 *)
THEOREM PricesAreKept == Spec => []OrdersKeepTheirPrice
  <1>1. Ledger => OrdersKeepTheirPrice
    BY DEF Ledger
  <1>2. QED
    BY <1>1, LedgerAlways, PTL

-----------------------------------------------------------------------------
(* Overlapping management requests.  An event that no request wrote after   *)
(* reading an older one was written with the event as it is.               *)

LEMMA WhatWasSeen ==
  ASSUME TypeOK, NEW r \in Requests, NEW e \in Events, Write(r, e), e \notin outdated'
  PROVE  /\ reqs[r].event \in Events /\ reqs[r].event \notin outdated
         /\ reqs[r].seen = events[reqs[r].event]
  BY WriteType DEF Write, Outdated

LEMMA OutdatedGrows ==
  ASSUME NEW r \in Requests, Manage(r)
  PROVE  outdated \subseteq outdated'
  BY DEF Manage, Read, Refuse, PublishEvent, UnpublishEvent, CancelEvent, UpdateEvent,
         DuplicateEvent, CreateTicketType, UpdateTicketType, Write

(* The steps of the public leave events alone, and of a ticket type they    *)
(* write the counters only.                                                *)
LEMMA PublicKeepsTerms ==
  ASSUME TypeOK,
         \/ \E e \in Events, k \in Types, n \in Quantities : HoldSeats(e, k, n) \/ EndHold(e, k, n)
         \/ \E o \in Orders : Buy(o)
  PROVE  /\ UNCHANGED <<events, reqs, outdated>>
         /\ \A f \in Events, j \in Types : /\ types'[f][j].total = types[f][j].total
                                           /\ types'[f][j].price = types[f][j].price
  <1> DEFINE Kept == /\ UNCHANGED <<events, reqs, outdated>>
                     /\ \A f \in Events, j \in Types :
                          /\ types'[f][j].total = types[f][j].total
                          /\ types'[f][j].price = types[f][j].price
  <1>1. ASSUME NEW e \in Events, NEW k \in Types, NEW u \in Counters, Count(e, k, u),
               UNCHANGED <<events, reqs, outdated>>
        PROVE  Kept
    BY <1>1, CountType
  <1>2. ASSUME NEW e \in Events, NEW k \in Types, NEW n \in Quantities,
               HoldSeats(e, k, n) \/ EndHold(e, k, n)
        PROVE  Kept
    <2>1. n \in Nat /\ types[e][k].units \in Counters
      BY CatalogAssumption, RowType
    <2>2. \E u \in Counters : Count(e, k, u)
      BY <1>2, <2>1, ReserveKeepsType, ReleaseKeepsType DEF HoldSeats, EndHold
    <2>3. UNCHANGED <<events, reqs, outdated>>
      BY <1>2 DEF HoldSeats, EndHold
    <2>4. QED
      BY <1>1, <2>2, <2>3
  <1>3. ASSUME NEW o \in Orders, NEW e \in Events, NEW k \in Types, NEW n \in Quantities,
               PlaceGeneralOrder(o, e, k, n) \/ PlaceSeatOrder(o, e, k, n)
        PROVE  Kept
    <2>1. n \in Nat /\ types[e][k].units \in Counters
      BY CatalogAssumption, RowType
    <2>2. \E u \in Counters : Count(e, k, u)
      BY <1>3, <2>1, ReserveKeepsType, SettledType DEF PlaceGeneralOrder, PlaceSeatOrder
    <2>3. UNCHANGED <<events, reqs, outdated>>
      BY <1>3 DEF PlaceGeneralOrder, PlaceSeatOrder, Place
    <2>4. QED
      BY <1>1, <2>2, <2>3
  <1>4. ASSUME NEW o \in Orders, PayOrder(o) \/ EndPending(o) \/ CancelFree(o)
        PROVE  Kept
    <2>1. orders[o].event \in Events /\ orders[o].type \in Types
      BY <1>4, OrderStep, OrderType
    <2>2. UNCHANGED <<events, reqs, outdated>>
      BY <1>4, OrderStep DEF Settle
    <2>3. QED
      BY <1>1, <1>4, <2>1, <2>2, OrderStep
  <1>5. ASSUME NEW o \in Orders, EndStranded(o) PROVE Kept
    BY <1>5 DEF EndStranded, Settle
  <1>6. QED
    BY <1>2, <1>3, <1>4, <1>5 DEF Buy

(* What a request writes is judged by what it saw, which is the event.      *)
LEMMA ManageFinal ==
  ASSUME TypeOK, NEW r \in Requests, Manage(r),
         NEW e \in Events, e \notin outdated', events[e].status = "cancelled"
  PROVE  /\ events'[e] = events[e]
         /\ \A k \in Types : /\ types'[e][k].total = types[e][k].total
                             /\ types'[e][k].price = types[e][k].price
  <1> DEFINE Kept == events'[e] = events[e] /\ types'[e] = types[e]
  <1>1. Write(r, reqs[r].event) /\ reqs[r].event = e => reqs[r].seen = events[e]
    BY WhatWasSeen
  <1>2. ASSUME UNCHANGED <<events, types>> PROVE Kept
    BY <1>2
  <1>3. ASSUME NEW copy \in Events, DuplicateEvent(r, copy) PROVE Kept
    BY <1>3 DEF DuplicateEvent, TypeOK
  <1>4. ASSUME PublishEvent(r) \/ UnpublishEvent(r) \/ CancelEvent(r) PROVE Kept
    <2>1. reqs[r].event # e
      BY <1>1, <1>4 DEF PublishEvent, UnpublishEvent, CancelEvent, NotCancelled
    <2>2. QED
      BY <1>4, <2>1 DEF PublishEvent, UnpublishEvent, CancelEvent, SetStatus, TypeOK
  <1>5. ASSUME NEW m \in Configurations, UpdateEvent(r, m) PROVE Kept
    <2>1. reqs[r].event # e
      BY <1>1, <1>5 DEF UpdateEvent, NotCancelled
    <2>2. QED
      BY <1>5, <2>1 DEF UpdateEvent, TypeOK
  <1>6. ASSUME NEW k \in Types, NEW total \in Quantities, NEW price \in Prices,
               CreateTicketType(r, k, total, price) \/ UpdateTicketType(r, k, total, price)
        PROVE  Kept
    <2>1. reqs[r].event # e
      BY <1>1, <1>6 DEF CreateTicketType, UpdateTicketType, NotCancelled
    <2>2. QED
      BY <1>6, <2>1 DEF CreateTicketType, UpdateTicketType, TypeOK
  <1>7. Kept
    BY <1>2, <1>3, <1>4, <1>5, <1>6 DEF Manage, Read, Refuse
  <1>8. QED
    BY <1>7

(* A cancelled event stays as it was when it was cancelled, its ticket      *)
(* types included, whatever else is in flight, unless a request writes it   *)
(* that had read it before the cancellation (or before another's write).    *)
THEOREM CancelledStaysFinal == Spec => CancelledIsFinal
  <1> DEFINE Fixed == \A e \in Events \ outdated' : events[e].status = "cancelled" =>
                /\ events'[e] = events[e]
                /\ \A k \in Types : /\ types'[e][k].total = types[e][k].total
                                    /\ types'[e][k].price = types[e][k].price
  <1>1. ASSUME TypeOK, [Next]_vars PROVE [Fixed]_vars
    <2>1. CASE UNCHANGED vars
      BY <2>1
    <2>2. ASSUME NEW e \in Events, NEW m \in Configurations, CreateEvent(e, m) PROVE Fixed
      BY <1>1, <2>2 DEF CreateEvent, TypeOK
    <2>3. ASSUME NEW r \in Requests, Manage(r) PROVE Fixed
      BY <1>1, <2>3, ManageFinal
    <2>4. CASE \/ \E e \in Events, k \in Types, n \in Quantities : HoldSeats(e, k, n) \/ EndHold(e, k, n)
               \/ \E o \in Orders : Buy(o)
      BY <1>1, <2>4, PublicKeepsTerms
    <2>5. QED
      BY <1>1, <2>1, <2>2, <2>3, <2>4 DEF Next
  <1>2. TypeOK /\ [Next]_vars =>
          [\A e \in Events \ outdated' : events[e].status = "cancelled" =>
             /\ events'[e] = events[e]
             /\ \A k \in Types : /\ types'[e][k].total = types[e][k].total
                                 /\ types'[e][k].price = types[e][k].price]_vars
    BY <1>1
  <1> HIDE DEF Fixed
  <1>3. QED
    BY <1>2, CatalogTypeCorrect, PTL DEF Spec, CancelledIsFinal

LEMMA ManageSeats ==
  ASSUME TypeOK, AssignedHasLayout, NEW r \in Requests, Manage(r)
  PROVE  AssignedHasLayout'
  <1> DEFINE Sound(x) == x.seating = "assigned" => x.layout # None
  <1>1. outdated \subseteq outdated'
    BY OutdatedGrows
  <1>2. \A e \in Events : events[e] \in EventRecord /\ (e \notin outdated => Sound(events[e]))
    BY DEF TypeOK, AssignedHasLayout
  <1>3. ASSUME UNCHANGED events PROVE AssignedHasLayout'
    BY <1>1, <1>3 DEF AssignedHasLayout
  <1>4. ASSUME NEW e \in Events, NEW x, e \notin outdated' => Sound(x),
               events' = [events EXCEPT ![e] = x]
        PROVE  AssignedHasLayout'
    BY <1>1, <1>2, <1>4 DEF AssignedHasLayout, TypeOK
  <1>5. ASSUME NEW copy \in Events, DuplicateEvent(r, copy) PROVE AssignedHasLayout'
    <2>1. copy \notin outdated' => /\ reqs[r].event \in Events \ outdated
                                  /\ reqs[r].seen = events[reqs[r].event]
      BY <1>5, WhatWasSeen DEF DuplicateEvent
    <2>2. copy \notin outdated' => Sound([reqs[r].seen EXCEPT !.status = "draft"])
      BY <1>2, <2>1 DEF EventRecord
    <2>3. events' = [events EXCEPT ![copy] = [reqs[r].seen EXCEPT !.status = "draft"]]
      BY <1>5 DEF DuplicateEvent
    <2>4. QED
      BY <1>4, <2>2, <2>3
  <1>6. ASSUME NEW status, Write(r, reqs[r].event), SetStatus(reqs[r].event, status)
        PROVE  AssignedHasLayout'
    <2> DEFINE x == [events[reqs[r].event] EXCEPT !.status = status]
    <2>1. reqs[r].event \in Events
      BY <1>6, WrittenEvent
    <2>2. reqs[r].event \notin outdated' => Sound(x)
      BY <1>1, <1>2, <2>1 DEF EventRecord
    <2>3. events' = [events EXCEPT ![reqs[r].event] = x]
      BY <1>6 DEF SetStatus
    <2> HIDE DEF x
    <2>4. QED
      BY <1>4, <2>1, <2>2, <2>3
  <1>7. ASSUME NEW m \in Configurations, UpdateEvent(r, m) PROVE AssignedHasLayout'
    <2> DEFINE now == events[reqs[r].event]
               x == Written(now, reqs[r].seen, m)
    <2>1. /\ reqs[r].event \in Events
          /\ reqs[r].event \notin outdated' => reqs[r].seen = now /\ ValidEvent(now, m)
      BY <1>7, WrittenEvent, WhatWasSeen DEF UpdateEvent
    <2>2. reqs[r].event \notin outdated' => x.seating = m.seating /\ x.layout = m.layout
      BY <1>2, <2>1 DEF Written, EventRecord
    <2>3. reqs[r].event \notin outdated' => Sound(x)
      BY <2>1, <2>2 DEF ValidEvent
    <2>4. events' = [events EXCEPT ![reqs[r].event] = x]
      BY <1>7 DEF UpdateEvent
    <2> HIDE DEF x
    <2>5. QED
      BY <1>4, <2>1, <2>3, <2>4
  <1>8. QED
    BY <1>3, <1>5, <1>6, <1>7
       DEF Manage, Read, Refuse, PublishEvent, UnpublishEvent, CancelEvent,
           CreateTicketType, UpdateTicketType

(* Every PATCH is validated with the event it is merged into: an event with *)
(* assigned seating has its layout, unless a request wrote it after reading *)
(* an older one.                                                           *)
THEOREM SeatedEventsHaveLayout == Spec => []AssignedHasLayout
  <1>1. Init => AssignedHasLayout
    BY DEF Init, AssignedHasLayout, NoEvent
  <1>2. ASSUME TypeOK, AssignedHasLayout, [Next]_vars
        PROVE  AssignedHasLayout'
    <2>1. CASE UNCHANGED vars
      BY <1>2, <2>1 DEF vars, AssignedHasLayout
    <2>2. ASSUME NEW e \in Events, NEW m \in Configurations, CreateEvent(e, m)
          PROVE  AssignedHasLayout'
      BY <1>2, <2>2 DEF CreateEvent, ValidEvent, AssignedHasLayout, TypeOK
    <2>3. CASE \/ \E e \in Events, k \in Types, n \in Quantities : HoldSeats(e, k, n) \/ EndHold(e, k, n)
               \/ \E o \in Orders : Buy(o)
      BY <1>2, <2>3, PublicKeepsTerms DEF AssignedHasLayout
    <2>4. QED
      BY <1>2, <2>1, <2>2, <2>3, ManageSeats DEF Next
  <1>3. TypeOK /\ AssignedHasLayout /\ [Next]_vars => AssignedHasLayout'
    BY <1>2
  <1>4. QED
    BY <1>1, <1>3, CatalogTypeCorrect, PTL DEF Spec

(* Capacity.  The quantity of an event changes with a total of one of its   *)
(* ticket types, or with all of them when it is the copy of another.       *)
LEMMA TotalsAreNat ==
  ASSUME TypeOK, NEW e \in Events, NEW K \in SUBSET Types
  PROVE  TotalOf(e, K) \in Nat
  <1> DEFINE f == [k \in Types |-> types[e][k].total]
  <1>1. IsFiniteSet(K) /\ \A k \in K : f[k] \in Nat
    BY CatalogAssumption, FS_Subset DEF TypeOK, TypeRecord
  <1> HIDE DEF f
  <1>2. SumOf(f, K) \in Nat
    BY <1>1, UnitsAreFinite
  <1>3. QED
    BY <1>2 DEF TotalOf, f

LEMMA NoTypesNoTotal ==
  ASSUME Home, NEW e \in Events, events[e].status = "none"
  PROVE  TicketQuantity(e) = 0
  <1> DEFINE f == [k \in Types |-> types[e][k].total]
  <1>1. \A k \in Types : f[k] = 0
    BY DEF Home, NoType
  <1> HIDE DEF f
  <1>2. SumOf(f, Types) = 0
    BY <1>1, SumZero
  <1>3. QED
    BY <1>2 DEF TicketQuantity, TotalOf, f

LEMMA TotalsStay ==
  ASSUME NEW e \in Events, NEW d \in Events,
         \A k \in Types : types'[e][k].total = types[d][k].total
  PROVE  TicketQuantity(e)' = TicketQuantity(d)
  <1> DEFINE f == [k \in Types |-> types'[e][k].total]
             g == [k \in Types |-> types[d][k].total]
  <1>1. \A k \in Types : f[k] = g[k]
    OBVIOUS
  <1> HIDE DEF f, g
  <1>2. SumOf(f, Types) = SumOf(g, Types)
    BY <1>1, SumSame
  <1>3. QED
    BY <1>2 DEF TicketQuantity, TotalOf, f, g

LEMMA TotalMoves ==
  ASSUME TypeOK, NEW e \in Events, NEW k \in Types, NEW total \in Nat,
         types'[e][k].total = total,
         \A j \in Types \ {k} : types'[e][j].total = types[e][j].total
  PROVE  /\ TicketQuantity(e)' = TotalOther(e, k) + total
         /\ TicketQuantity(e) = TotalOther(e, k) + types[e][k].total
         /\ TotalOther(e, k) \in Nat
  <1> DEFINE f == [j \in Types |-> types'[e][j].total]
             g == [j \in Types |-> types[e][j].total]
  <1>1. /\ f[k] = total /\ g[k] = types[e][k].total
        /\ \A j \in Types \ {k} : f[j] = g[j]
        /\ \A j \in Types : g[j] \in Nat
    BY DEF TypeOK, TypeRecord
  <1>2. \A j \in Types : f[j] \in Nat
    BY <1>1
  <1>3. IsFiniteSet(Types)
    BY CatalogAssumption
  <1>4. /\ TicketQuantity(e)' = SumOf(f, Types) /\ TicketQuantity(e) = SumOf(g, Types)
        /\ TotalOther(e, k) = SumOf(g, Types \ {k})
    BY DEF TicketQuantity, TotalOther, TotalOf
  <1> HIDE DEF f, g
  <1>5. /\ SumOf(f, Types) = SumOf(f, Types \ {k}) + f[k]
        /\ SumOf(g, Types) = SumOf(g, Types \ {k}) + g[k]
        /\ SumOf(g, Types \ {k}) \in Nat
    BY <1>1, <1>2, <1>3, SumAtLeast
  <1>6. SumOf(f, Types \ {k}) = SumOf(g, Types \ {k})
    BY <1>1, SumSame
  <1>7. QED
    BY <1>1, <1>4, <1>5, <1>6

(* One event and its ticket types are written, within its capacity.        *)
LEMMA OneEventFits ==
  ASSUME CapacityCoversTypes, NEW e \in Events, outdated \subseteq outdated',
         e \notin outdated' => TicketQuantity(e)' <= events'[e].capacity,
         \A d \in Events \ {e} : events'[d] = events[d] /\ types'[d] = types[d]
  PROVE  CapacityCoversTypes'
  <1>1. ASSUME NEW d \in Events \ outdated', d # e
        PROVE  TicketQuantity(d)' <= events'[d].capacity
    <2>1. TicketQuantity(d)' = TicketQuantity(d) /\ events'[d] = events[d]
      BY <1>1, TotalsStay
    <2>2. QED
      BY <2>1 DEF CapacityCoversTypes
  <1>2. \A d \in Events \ outdated' : TicketQuantity(d)' <= events'[d].capacity
    BY <1>1
  <1>3. QED
    BY <1>2 DEF CapacityCoversTypes

LEMMA ManageFits ==
  ASSUME TypeOK, Home, CapacityCoversTypes, NEW r \in Requests, Manage(r)
  PROVE  CapacityCoversTypes'
  <1>1. outdated \subseteq outdated'
    BY OutdatedGrows
  <1>2. \A d \in Events : /\ events[d] \in EventRecord
                         /\ d \notin outdated => TicketQuantity(d) <= events[d].capacity
    BY DEF TypeOK, CapacityCoversTypes
  <1>3. ASSUME types' = types, \A d \in Events : events'[d].capacity = events[d].capacity
        PROVE  CapacityCoversTypes'
    <2>1. \A d \in Events : TicketQuantity(d)' = TicketQuantity(d)
      BY <1>3, TotalsStay
    <2>2. QED
      BY <1>1, <1>2, <1>3, <2>1 DEF CapacityCoversTypes
  <1>4. ASSUME NEW status, SetStatus(reqs[r].event, status) PROVE CapacityCoversTypes'
    BY <1>3, <1>4 DEF SetStatus, TypeOK, EventRecord
  <1>5. ASSUME NEW m \in Configurations, UpdateEvent(r, m) PROVE CapacityCoversTypes'
    <2>0. PICK e \in Events : e = reqs[r].event
      BY <1>5, WrittenEvent DEF UpdateEvent
    <2>1. /\ CapacityFits(e, reqs[r].seen, m) /\ Write(r, e)
          /\ types' = types /\ events' = [events EXCEPT ![e] = Written(events[e], reqs[r].seen, m)]
      BY <1>5, <2>0 DEF UpdateEvent
    <2>2. \A d \in Events \ {e} : events'[d] = events[d] /\ types'[d] = types[d]
      BY <2>1 DEF TypeOK
    <2>3. TicketQuantity(e)' = TicketQuantity(e)
      BY <2>1, TotalsStay
    <2>4. ASSUME e \notin outdated'
          PROVE  TicketQuantity(e) <= m.capacity /\ events'[e].capacity = m.capacity
      <3>0. reqs[r].seen = events[e] /\ e \notin outdated
        BY <2>0, <2>1, <2>4, WhatWasSeen
      <3>1. events'[e].capacity = m.capacity
        BY <1>2, <2>1, <3>0 DEF Written, EventRecord, TypeOK
      <3>2. CASE m.capacity = events[e].capacity
        <4>1. TicketQuantity(e) <= events[e].capacity
          BY <3>0 DEF CapacityCoversTypes
        <4>2. QED
          BY <3>1, <3>2, <4>1
      <3>3. CASE m.capacity # events[e].capacity
        <4>1. TicketQuantity(e) \in Nat /\ m.capacity \in Nat
          BY TotalsAreNat, ConfigurationType DEF TicketQuantity
        <4>2. QED
          BY <2>1, <3>0, <3>1, <3>3, <4>1 DEF CapacityFits
      <3>4. QED
        BY <3>2, <3>3
    <2>5. QED
      BY <1>1, <2>2, <2>3, <2>4, OneEventFits
  <1>6. ASSUME NEW copy \in Events, DuplicateEvent(r, copy) PROVE CapacityCoversTypes'
    <2>0. PICK e \in Events : e = reqs[r].event
      BY <1>6, WriteType DEF DuplicateEvent
    <2>1. /\ events' = [events EXCEPT ![copy] = [reqs[r].seen EXCEPT !.status = "draft"]]
          /\ types' = [types EXCEPT ![copy] = [k \in Types |-> CopyOf(types[e][k])]]
          /\ Write(r, copy)
      BY <1>6, <2>0 DEF DuplicateEvent
    <2>2. ASSUME copy \notin outdated'
          PROVE  events'[copy].capacity = events[e].capacity /\ e \notin outdated
      <3>1. reqs[r].seen = events[e] /\ e \notin outdated
        BY <2>0, <2>1, <2>2, WhatWasSeen
      <3>2. QED
        BY <1>2, <2>1, <3>1 DEF EventRecord, TypeOK
    <2>3. \A k \in Types : types'[copy][k].total = types[e][k].total
      BY <2>1 DEF CopyOf, TypeOK, TypeRecord
    <2>4. TicketQuantity(copy)' = TicketQuantity(e)
      BY <2>1, <2>3, TotalsStay
    <2>5. \A d \in Events \ {copy} : events'[d] = events[d] /\ types'[d] = types[d]
      BY <2>1 DEF TypeOK
    <2>6. copy \notin outdated' => TicketQuantity(copy)' <= events'[copy].capacity
      <3>1. SUFFICES ASSUME copy \notin outdated'
                     PROVE  TicketQuantity(copy)' <= events'[copy].capacity
        OBVIOUS
      <3>2. e \notin outdated /\ events'[copy].capacity = events[e].capacity
        BY <2>2, <3>1
      <3>3. TicketQuantity(e) <= events[e].capacity
        BY <3>2 DEF CapacityCoversTypes
      <3>4. QED
        BY <2>4, <3>2, <3>3
    <2>7. QED
      BY <1>1, <1>2, <2>5, <2>6, OneEventFits
  <1>7. ASSUME NEW k \in Types, NEW total \in Quantities, NEW price \in Prices,
               CreateTicketType(r, k, total, price) \/ UpdateTicketType(r, k, total, price)
        PROVE  CapacityCoversTypes'
    <2>0. PICK e \in Events : e = reqs[r].event
      BY <1>7, WrittenEvent DEF CreateTicketType, UpdateTicketType
    <2>1. events' = events /\ total \in Nat /\ Write(r, e)
      BY <1>7, <2>0, CatalogAssumption DEF CreateTicketType, UpdateTicketType
    <2>2. /\ types'[e][k].total = total
          /\ \A j \in Types \ {k} : types'[e][j] = types[e][j]
          /\ \A d \in Events \ {e} : types'[d] = types[d]
      BY <1>7, <2>0, <2>1 DEF CreateTicketType, UpdateTicketType, TypeOK, TypeRecord
    <2>3. /\ TicketQuantity(e)' = TotalOther(e, k) + total
          /\ TicketQuantity(e) = TotalOther(e, k) + types[e][k].total
          /\ TotalOther(e, k) \in Nat
      BY <2>1, <2>2, TotalMoves
    <2>4. ASSUME e \notin outdated' PROVE TotalOther(e, k) + total <= events[e].capacity
      <3>0. reqs[r].seen = events[e]
        BY <2>0, <2>1, <2>4, WhatWasSeen
      <3>1. CASE CreateTicketType(r, k, total, price)
        <4>1. types[e][k].total = 0
          BY <2>0, <2>1, <3>1 DEF CreateTicketType, Home, NoType
        <4>2. TicketQuantity(e) + total <= events[e].capacity
          BY <2>0, <3>0, <3>1 DEF CreateTicketType
        <4>3. QED
          BY <2>1, <2>3, <4>1, <4>2
      <3>2. CASE UpdateTicketType(r, k, total, price)
        <4>1. total + TotalOther(e, k) <= events[e].capacity
          BY <2>0, <3>0, <3>2 DEF UpdateTicketType
        <4>2. QED
          BY <2>1, <2>3, <4>1
      <3>3. QED
        BY <1>7, <3>1, <3>2
    <2>5. QED
      BY <1>1, <2>1, <2>2, <2>3, <2>4, OneEventFits
  <1>8. QED
    BY <1>3, <1>4, <1>5, <1>6, <1>7
       DEF Manage, Read, Refuse, PublishEvent, UnpublishEvent, CancelEvent

(* An event never has ticket types for more places than its capacity: the   *)
(* two locking checks of P2 and P3, capacity against types and types        *)
(* against capacity, agree, unless one of them used an outdated event.      *)
THEOREM CapacityIsKept == Spec => []CapacityCoversTypes
  <1>1. Init => CapacityCoversTypes
    <2> SUFFICES ASSUME Init PROVE CapacityCoversTypes
      OBVIOUS
    <2>1. ASSUME NEW e \in Events PROVE TicketQuantity(e) <= events[e].capacity
      <3> DEFINE f == [k \in Types |-> types[e][k].total]
      <3>1. \A k \in Types : f[k] = 0
        BY DEF Init, NoType
      <3> HIDE DEF f
      <3>2. SumOf(f, Types) = 0
        BY <3>1, SumZero
      <3>3. TicketQuantity(e) = 0 /\ events[e].capacity = 0
        BY <3>2 DEF Init, NoEvent, TicketQuantity, TotalOf, f
      <3>4. QED
        BY <3>3
    <2>2. QED
      BY <2>1 DEF CapacityCoversTypes
  <1>2. ASSUME TypeOK, Home, CapacityCoversTypes, [Next]_vars
        PROVE  CapacityCoversTypes'
    <2>1. ASSUME UNCHANGED <<events, types, outdated>> PROVE CapacityCoversTypes'
      <3>1. \A e \in Events : TicketQuantity(e)' = TicketQuantity(e)
        BY <2>1, TotalsStay
      <3>2. QED
        BY <1>2, <2>1, <3>1 DEF CapacityCoversTypes
    <2>2. ASSUME NEW e \in Events, NEW m \in Configurations, CreateEvent(e, m)
          PROVE  CapacityCoversTypes'
      <3>1. /\ types' = types /\ m.capacity \in Nat /\ outdated' = outdated
            /\ events'[e].capacity = m.capacity
            /\ \A d \in Events \ {e} : events'[d] = events[d]
        BY <1>2, <2>2, ConfigurationType DEF CreateEvent, TypeOK
      <3>2. TicketQuantity(e)' = 0
        <4>1. TicketQuantity(e) = 0
          BY <1>2, <2>2, NoTypesNoTotal DEF CreateEvent
        <4>2. QED
          BY <3>1, <4>1, TotalsStay
      <3>3. QED
        BY <1>2, <3>1, <3>2, OneEventFits
    <2>3. CASE \/ \E e \in Events, k \in Types, n \in Quantities : HoldSeats(e, k, n) \/ EndHold(e, k, n)
               \/ \E o \in Orders : Buy(o)
      <3>1. /\ UNCHANGED <<events, outdated>>
            /\ \A e \in Events, k \in Types : types'[e][k].total = types[e][k].total
        BY <1>2, <2>3, PublicKeepsTerms
      <3>2. \A e \in Events : TicketQuantity(e)' = TicketQuantity(e)
        BY <3>1, TotalsStay
      <3>3. QED
        BY <1>2, <3>1, <3>2 DEF CapacityCoversTypes
    <2>4. QED
      BY <1>2, <2>1, <2>2, <2>3, ManageFits DEF Next, vars
  <1>3. TypeOK /\ Ledger /\ CapacityCoversTypes /\ [Next]_vars
          => CapacityCoversTypes'
    BY <1>2 DEF Ledger
  <1>4. QED
    BY <1>1, <1>3, CatalogTypeCorrect, LedgerAlways, PTL DEF Spec
=============================================================================

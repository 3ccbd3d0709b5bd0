--------------------------- MODULE CheckoutProofs ---------------------------
(***************************************************************************)
(* Theorems about Checkout for every number of users, seats, ticket types, *)
(* hold groups, orders and requests: its types, the CHECK constraints, the *)
(* seat ledger, the ticket ledger, and the ledger of sales that ties the   *)
(* orders to their holds.                                                  *)
(***************************************************************************)
EXTENDS Checkout, TicketCountersProofs, FiniteSetTheorems

-----------------------------------------------------------------------------
(* The shape of what the actions write.                                    *)

LEMMA HeldUnitsIsNat ==
  ASSUME NEW G \in SUBSET Groups, NEW tt
  PROVE  HeldUnits(G, tt) \in Nat
  <1>1. IsFiniteSet(G)
    BY ConstantsAssumption, FS_Subset
  <1>2. IsFiniteSet(G \X Seats)
    BY <1>1, ConstantsAssumption, FS_Product
  <1>3. IsFiniteSet({p \in G \X Seats :
                      rows[p[1]][p[2]] = "held" /\ groups[p[1]].type = tt})
    BY <1>2, FS_Subset
  <1>4. QED
    BY <1>3, FS_CardinalityType DEF HeldUnits

LEMMA HeldOnlyType ==
  ASSUME NEW G \in SUBSET Groups
  PROVE  HeldOnly(G) \in [TicketTypes -> Nat]
  BY HeldUnitsIsNat DEF HeldOnly

LEMMA OwnUnitsType ==
  ASSUME TypeOK, NEW o \in Orders
  PROVE  OwnUnits(o) \in [TicketTypes -> Nat]
  <1>1. GroupsOf(o) \in SUBSET Groups
    BY DEF GroupsOf
  <1>2. \A tt \in TicketTypes : HeldUnits(GroupsOf(o), tt) \in Nat
    BY <1>1, HeldUnitsIsNat
  <1>3. orders[o].units \in [TicketTypes -> Nat]
    BY DEF TypeOK, OrderRecord
  <1>4. QED
    BY <1>2, <1>3 DEF OwnUnits

LEMMA ReleaseAllType ==
  ASSUME TypeOK, NEW q \in [TicketTypes -> Nat]
  PROVE  ReleaseAll(q) \in [TicketTypes -> Counters]
  <1>1. \A tt \in TicketTypes : inv[tt] \in Counters /\ q[tt] \in Int
    BY DEF TypeOK
  <1>2. \A tt \in TicketTypes : Release(inv[tt], q[tt]) \in Counters
    BY <1>1, ReleaseKeepsType
  <1>3. QED
    BY <1>2 DEF ReleaseAll

LEMMA ConfirmAllType ==
  ASSUME TypeOK, NEW q \in [TicketTypes -> Nat]
  PROVE  ConfirmAll(q) \in [TicketTypes -> Counters]
  <1>1. \A tt \in TicketTypes : inv[tt] \in Counters /\ q[tt] \in Int
    BY DEF TypeOK
  <1>2. \A tt \in TicketTypes : Confirm(inv[tt], q[tt]) \in Counters
    BY <1>1, ConfirmKeepsType
  <1>3. QED
    BY <1>2 DEF ConfirmAll

LEMMA MoveRowsType ==
  ASSUME NEW R \in [Groups -> [Seats -> RowStatus]], NEW G, NEW from,
         NEW to \in RowStatus
  PROVE  MoveRows(R, G, from, to) \in [Groups -> [Seats -> RowStatus]]
  BY DEF MoveRows

LEMMA MoveGroupsType ==
  ASSUME NEW H \in [Groups -> GroupRecord], NEW G, NEW from,
         NEW to \in GroupStatus
  PROVE  MoveGroups(H, G, from, to) \in [Groups -> GroupRecord]
  <1>1. \A g \in Groups : [H[g] EXCEPT !.status = to] \in GroupRecord
    BY DEF GroupRecord
  <1>2. QED
    BY <1>1 DEF MoveGroups

LEMMA LinkOrderType ==
  ASSUME NEW H \in [Groups -> GroupRecord], NEW G, NEW o \in Orders
  PROVE  LinkOrder(H, G, o) \in [Groups -> GroupRecord]
  <1>1. \A g \in Groups : [H[g] EXCEPT !.order = o] \in GroupRecord
    BY DEF GroupRecord
  <1>2. QED
    BY <1>1 DEF LinkOrder

LEMMA EntryTimesAreNat ==
  ASSUME TypeOK
  PROVE  EntryTimes \subseteq Nat
  BY DEF TypeOK, EntryTimes

LEMMA OverdueAreGroups == \A t : Overdue(t) \in SUBSET Groups
  BY DEF Overdue

LEMMA GroupsOfAreGroups == \A o : GroupsOf(o) \in SUBSET Groups
  BY DEF GroupsOf

LEMMA NewOrderType ==
  ASSUME NEW u \in Users, NEW status \in OrderStatus, NEW e \in Nat,
         NEW S \in SUBSET Seats, NEW q \in [TicketTypes -> Nat]
  PROVE  NewOrder(u, status, e, S, q) \in OrderRecord
  BY DEF NewOrder, OrderRecord

LEMMA SetStatusType ==
  ASSUME TypeOK, NEW o \in Orders, NEW status \in OrderStatus
  PROVE  [orders EXCEPT ![o].status = status] \in [Orders -> OrderRecord]
  <1>1. orders[o] \in OrderRecord
    BY DEF TypeOK
  <1>2. [orders[o] EXCEPT !.status = status] \in OrderRecord
    BY <1>1 DEF OrderRecord
  <1>3. QED
    BY <1>2 DEF TypeOK

(* The order of a request in flight is an order.                           *)
BusyRequestsHaveOrders ==
  \A r \in Requests : reqs[r].kind # "idle" => reqs[r].order \in Orders

-----------------------------------------------------------------------------
(* Type correctness.  A request between its two steps must be known to      *)
(* refer to an order, so the two facts are proved together.                *)

Typed == TypeOK /\ BusyRequestsHaveOrders

LEMMA TypedInit == Init => Typed
  <1> SUFFICES ASSUME Init PROVE Typed
    OBVIOUS
  <1>1. NoGroup \in GroupRecord
    BY DEF NoGroup, GroupRecord, GroupStatus
  <1>2. NoOrder \in OrderRecord
    BY DEF NoOrder, OrderRecord, OrderStatus
  <1>3. Idle \in RequestRecord /\ Idle.kind = "idle"
    BY DEF Idle, RequestRecord, OrderStatus
  <1>4. \A tt \in TicketTypes : NoUnits \in Counters
    BY NoUnitsAreCounters
  <1>5. clock \in 0..MaxTime
    BY ConstantsAssumption DEF Init
  <1>6. event \in [status : EventStatus, public : BOOLEAN]
    BY DEF Init, EventStatus
  <1>7. inv \in [TicketTypes -> Counters]
    BY <1>4 DEF Init
  <1>8. groups \in [Groups -> GroupRecord]
    BY <1>1 DEF Init
  <1>9. rows \in [Groups -> [Seats -> RowStatus]]
    BY DEF Init, RowStatus
  <1>10. orders \in [Orders -> OrderRecord]
    BY <1>2 DEF Init
  <1>11. tickets \in [Orders -> TicketStatus]
    BY DEF Init, TicketStatus
  <1>12. reqs \in [Requests -> RequestRecord] /\ BusyRequestsHaveOrders
    BY <1>3 DEF Init, BusyRequestsHaveOrders
  <1>13. due \in SUBSET Orders /\ audits \in SUBSET Orders /\ staleActs \in BOOLEAN
    BY DEF Init
  <1>14. QED
    BY <1>5, <1>6, <1>7, <1>8, <1>9, <1>10, <1>11, <1>12, <1>13 DEF TypeOK, Typed

LEMMA TypedEvent ==
  ASSUME Typed, Tick \/ EventStep
  PROVE  Typed'
  <1> USE DEF Typed, BusyRequestsHaveOrders
  <1>1. CASE Tick
    <2>1. clock' \in 0..MaxTime
      BY <1>1, ConstantsAssumption DEF Tick, TypeOK
    <2>2. QED
      BY <1>1, <2>1 DEF Tick, TypeOK
  <1>2. ASSUME NEW status \in EventStatus, NEW public \in BOOLEAN,
               EventEdit(status, public)
        PROVE  Typed'
    <2>1. event' \in [status : EventStatus, public : BOOLEAN]
      BY <1>2 DEF EventEdit
    <2>2. QED
      BY <1>2, <2>1 DEF EventEdit, TypeOK
  <1>3. event.status \in EventStatus /\ event.public \in BOOLEAN
    BY DEF TypeOK
  <1>4. CASE EventStep
    BY <1>2, <1>3, <1>4
    DEF EventStep, PublishEvent, UnpublishEvent, CancelEvent, SetVisibility, EventStatus
  <1>5. QED
    BY <1>1, <1>4

LEMMA TypedCreateHold ==
  ASSUME Typed, NEW t \in EntryTimes, NEW u \in Users, NEW g \in Groups,
         NEW tt \in TicketTypes, NEW S \in SUBSET Seats, CreateHold(u, g, tt, S, t)
  PROVE  Typed'
  <1> DEFINE late == Overdue(t)
             left == ReleaseAll(HeldOnly(late))
  <1>1. left \in [TicketTypes -> Counters]
    BY OverdueAreGroups, HeldOnlyType, ReleaseAllType DEF Typed
  <1>2. t \in Nat /\ t + HoldDuration \in Nat
    BY EntryTimesAreNat, ConstantsAssumption DEF Typed
  <1>3. Cardinality(S) \in Nat
    BY ConstantsAssumption, FS_Subset, FS_CardinalityType
  <1>4. Reserve(left[tt], Cardinality(S)) \in Counters
    BY <1>1, <1>3, ReserveKeepsType
  <1>5. inv' \in [TicketTypes -> Counters]
    <2>1. inv' = [left EXCEPT ![tt] = Reserve(left[tt], Cardinality(S))]
      BY DEF CreateHold
    <2>2. QED
      BY <1>1, <1>4, <2>1
  <1>6. rows' \in [Groups -> [Seats -> RowStatus]]
    <2>1. MoveRows(rows, late, "held", "expired") \in [Groups -> [Seats -> RowStatus]]
      BY MoveRowsType DEF Typed, TypeOK, RowStatus
    <2>2. [s \in Seats |-> IF s \in S THEN "held" ELSE "none"] \in [Seats -> RowStatus]
      BY DEF RowStatus
    <2>3. QED
      BY <2>1, <2>2 DEF CreateHold
  <1>7. groups' \in [Groups -> GroupRecord]
    <2>1. MoveGroups(groups, late, "held", "expired") \in [Groups -> GroupRecord]
      BY MoveGroupsType DEF Typed, TypeOK, GroupStatus
    <2>2. [status |-> "held", user |-> u, type |-> tt,
           expires |-> t + HoldDuration, order |-> None] \in GroupRecord
      BY <1>2 DEF GroupRecord, GroupStatus
    <2>3. QED
      BY <2>1, <2>2 DEF CreateHold
  <1>8. QED
    BY <1>5, <1>6, <1>7 DEF CreateHold, Typed, TypeOK, BusyRequestsHaveOrders

LEMMA TypedReleaseHold ==
  ASSUME Typed, NEW t \in EntryTimes, NEW u \in Users, NEW g \in Groups,
         ReleaseHold(u, g, t)
  PROVE  Typed'
  <1> DEFINE late == Overdue(t)
             own == {h \in {g} : groups[h].status = "held" /\ groups[h].expires > t}
  <1>1. late \cup own \in SUBSET Groups
    BY OverdueAreGroups
  <1>2. inv' \in [TicketTypes -> Counters]
    <2>1. HeldOnly(late \cup own) \in [TicketTypes -> Nat]
      BY <1>1, HeldOnlyType
    <2>2. QED
      BY <2>1, ReleaseAllType DEF ReleaseHold, Typed
  <1>3. rows' \in [Groups -> [Seats -> RowStatus]]
    <2>1. MoveRows(rows, late, "held", "expired") \in [Groups -> [Seats -> RowStatus]]
      BY MoveRowsType DEF Typed, TypeOK, RowStatus
    <2>2. QED
      BY <2>1, MoveRowsType DEF ReleaseHold, RowStatus
  <1>4. groups' \in [Groups -> GroupRecord]
    <2>1. MoveGroups(groups, late, "held", "expired") \in [Groups -> GroupRecord]
      BY MoveGroupsType DEF Typed, TypeOK, GroupStatus
    <2>2. QED
      BY <2>1, MoveGroupsType DEF ReleaseHold, GroupStatus
  <1>5. QED
    BY <1>2, <1>3, <1>4 DEF ReleaseHold, Typed, TypeOK, BusyRequestsHaveOrders

LEMMA TypedExpireHolds ==
  ASSUME Typed, NEW t \in EntryTimes, ExpireHolds(t)
  PROVE  Typed'
  <1>1. PICK late \in SUBSET Overdue(t) :
          /\ inv' = ReleaseAll(HeldOnly(late))
          /\ rows' = MoveRows(rows, late, "held", "expired")
          /\ groups' = MoveGroups(groups, late, "held", "expired")
          /\ UNCHANGED <<clock, event, orders, tickets, reqs, due, audits, staleActs>>
    BY DEF ExpireHolds
  <1>2. late \in SUBSET Groups
    BY OverdueAreGroups
  <1>3. inv' \in [TicketTypes -> Counters]
    BY <1>1, <1>2, HeldOnlyType, ReleaseAllType DEF Typed
  <1>4. rows' \in [Groups -> [Seats -> RowStatus]]
    BY <1>1, MoveRowsType DEF Typed, TypeOK, RowStatus
  <1>5. groups' \in [Groups -> GroupRecord]
    BY <1>1, MoveGroupsType DEF Typed, TypeOK, GroupStatus
  <1>6. QED
    BY <1>1, <1>3, <1>4, <1>5 DEF Typed, TypeOK, BusyRequestsHaveOrders

(* An order of several hold groups expires with the first of them.         *)
LEMMA TypedPlaceSeats ==
  ASSUME Typed, NEW t \in EntryTimes, NEW u \in Users, NEW o \in Orders,
         NEW G \in SUBSET Groups,
         PlacePaidSeatOrder(u, o, G, t) \/ PlaceFreeSeatOrder(u, o, G, t)
  PROVE  Typed'
  <1> USE DEF Typed
  <1>1. HeldOnly(G) \in [TicketTypes -> Nat] /\ CartSeats(G) \in SUBSET Seats
    BY HeldOnlyType DEF CartSeats, RowsOf
  <1>2. LinkOrder(groups, G, o) \in [Groups -> GroupRecord]
    BY LinkOrderType DEF TypeOK
  <1>3. CASE PlacePaidSeatOrder(u, o, G, t)
    <2>1. PICK e \in {groups[g].expires : g \in G} :
            orders' = [orders EXCEPT ![o] =
                         NewOrder(u, "pending", e, CartSeats(G), HeldOnly(G))]
      BY <1>3 DEF PlacePaidSeatOrder
    <2>2. e \in Nat
      BY DEF TypeOK, GroupRecord
    <2>3. NewOrder(u, "pending", e, CartSeats(G), HeldOnly(G)) \in OrderRecord
      BY <1>1, <2>2, NewOrderType DEF OrderStatus
    <2>4. orders' \in [Orders -> OrderRecord]
      BY <2>1, <2>3 DEF TypeOK
    <2>5. QED
      BY <1>2, <1>3, <2>4 DEF PlacePaidSeatOrder, TypeOK, BusyRequestsHaveOrders
  <1>4. CASE PlaceFreeSeatOrder(u, o, G, t)
    <2>1. inv' \in [TicketTypes -> Counters]
      BY <1>1, <1>4, ConfirmAllType DEF PlaceFreeSeatOrder
    <2>2. rows' \in [Groups -> [Seats -> RowStatus]]
      BY <1>4, MoveRowsType DEF PlaceFreeSeatOrder, TypeOK, RowStatus
    <2>3. groups' \in [Groups -> GroupRecord]
      BY <1>2, <1>4, MoveGroupsType DEF PlaceFreeSeatOrder, GroupStatus
    <2>4. NewOrder(u, "free_confirmed", 0, CartSeats(G), HeldOnly(G)) \in OrderRecord
      BY <1>1, NewOrderType DEF OrderStatus
    <2>5. orders' \in [Orders -> OrderRecord]
      BY <1>4, <2>4 DEF PlaceFreeSeatOrder, TypeOK
    <2>6. tickets' \in [Orders -> TicketStatus]
      BY <1>4 DEF PlaceFreeSeatOrder, TypeOK, TicketStatus
    <2>7. QED
      BY <1>4, <2>1, <2>2, <2>3, <2>5, <2>6
      DEF PlaceFreeSeatOrder, TypeOK, BusyRequestsHaveOrders
  <1>5. QED
    BY <1>3, <1>4

LEMMA TypedPlaceGA ==
  ASSUME Typed, NEW t \in EntryTimes, NEW u \in Users, NEW o \in Orders,
         NEW q \in [TicketTypes -> 0..MaxPerOrder],
         PlacePaidGAOrder(u, o, q, t) \/ PlaceFreeGAOrder(u, o, q, t)
  PROVE  Typed'
  <1> USE DEF Typed
  <1>1. q \in [TicketTypes -> Nat] /\ \A tt \in TicketTypes : q[tt] \in Int
    BY ConstantsAssumption
  <1>2. t + HoldDuration \in Nat
    BY EntryTimesAreNat, ConstantsAssumption
  <1>3. \A tt \in TicketTypes : Reserve(inv[tt], q[tt]) \in Counters
    BY <1>1, ReserveKeepsType DEF TypeOK
  <1>4. CASE PlacePaidGAOrder(u, o, q, t)
    <2>1. inv' \in [TicketTypes -> Counters]
      BY <1>3, <1>4 DEF PlacePaidGAOrder
    <2>2. NewOrder(u, "pending", t + HoldDuration, {}, q) \in OrderRecord
      BY <1>1, <1>2, NewOrderType DEF OrderStatus
    <2>3. orders' \in [Orders -> OrderRecord]
      BY <1>4, <2>2 DEF PlacePaidGAOrder, TypeOK
    <2>4. QED
      BY <1>4, <2>1, <2>3 DEF PlacePaidGAOrder, TypeOK, BusyRequestsHaveOrders
  <1>5. CASE PlaceFreeGAOrder(u, o, q, t)
    <2>1. \A tt \in TicketTypes : Confirm(Reserve(inv[tt], q[tt]), q[tt]) \in Counters
      BY <1>1, <1>3, ConfirmKeepsType
    <2>2. inv' \in [TicketTypes -> Counters]
      BY <1>5, <2>1 DEF PlaceFreeGAOrder
    <2>3. NewOrder(u, "free_confirmed", 0, {}, q) \in OrderRecord
      BY <1>1, NewOrderType DEF OrderStatus
    <2>4. orders' \in [Orders -> OrderRecord]
      BY <1>5, <2>3 DEF PlaceFreeGAOrder, TypeOK
    <2>5. tickets' \in [Orders -> TicketStatus]
      BY <1>5 DEF PlaceFreeGAOrder, TypeOK, TicketStatus
    <2>6. QED
      BY <1>5, <2>2, <2>4, <2>5 DEF PlaceFreeGAOrder, TypeOK, BusyRequestsHaveOrders
  <1>6. QED
    BY <1>4, <1>5

(* What giving back the reservation of an order writes.                    *)
LEMMA ReleaseOrderType ==
  ASSUME TypeOK, NEW o \in Orders, NEW status \in OrderStatus,
         ReleaseOrder(o, status)
  PROVE  /\ inv' \in [TicketTypes -> Counters]
         /\ rows' \in [Groups -> [Seats -> RowStatus]]
         /\ groups' \in [Groups -> GroupRecord]
         /\ orders' \in [Orders -> OrderRecord]
  <1>1. inv' \in [TicketTypes -> Counters]
    BY OwnUnitsType, ReleaseAllType DEF ReleaseOrder
  <1>2. rows' \in [Groups -> [Seats -> RowStatus]]
    BY MoveRowsType DEF ReleaseOrder, TypeOK, RowStatus
  <1>3. groups' \in [Groups -> GroupRecord]
    BY MoveGroupsType DEF ReleaseOrder, TypeOK, GroupStatus
  <1>4. orders' \in [Orders -> OrderRecord]
    BY SetStatusType DEF ReleaseOrder
  <1>5. QED
    BY <1>1, <1>2, <1>3, <1>4

LEMMA BeginType ==
  ASSUME Typed, NEW r \in Requests, NEW o \in Orders,
         BeginCancel(r, o) \/ BeginConfirm(r, o)
  PROVE  Typed'
  <1>1. PICK kind \in {"cancel", "confirm"} :
          /\ reqs' = [reqs EXCEPT ![r] = [kind |-> kind, order |-> o,
                                          seen |-> orders[o].status, now |-> clock]]
          /\ UNCHANGED <<clock, event, inv, groups, rows, orders, tickets, due,
                         audits, staleActs>>
    BY DEF BeginCancel, BeginConfirm, Begin
  <1>2. orders[o].status \in OrderStatus /\ clock \in Nat
    BY DEF Typed, TypeOK, OrderRecord
  <1>3. [kind |-> kind, order |-> o, seen |-> orders[o].status, now |-> clock]
          \in RequestRecord
    BY <1>2 DEF RequestRecord
  <1>4. reqs' \in [Requests -> RequestRecord]
    BY <1>1, <1>3 DEF Typed, TypeOK
  <1>5. BusyRequestsHaveOrders'
    BY <1>1 DEF Typed, TypeOK, BusyRequestsHaveOrders
  <1>6. QED
    BY <1>1, <1>4, <1>5 DEF Typed, TypeOK

LEMMA FinishingType ==
  ASSUME Typed, NEW r \in Requests, NEW kind \in {"cancel", "confirm"},
         Finishing(kind, r)
  PROVE  /\ reqs[r].order \in Orders
         /\ reqs' \in [Requests -> RequestRecord]
         /\ BusyRequestsHaveOrders'
  <1>1. Idle \in RequestRecord /\ Idle.kind = "idle"
    BY DEF Idle, RequestRecord, OrderStatus
  <1>2. QED
    BY <1>1 DEF Finishing, Typed, TypeOK, BusyRequestsHaveOrders

LEMMA TypedCancel ==
  ASSUME Typed, NEW r \in Requests,
         \/ CancelPending(r) \/ CancelReleased(r)
         \/ CancelFree(r) \/ CancelWithoutEffect(r)
  PROVE  Typed'
  <1> DEFINE o == reqs[r].order
  <1>1. /\ o \in Orders
        /\ reqs' \in [Requests -> RequestRecord]
        /\ BusyRequestsHaveOrders'
    <2>1. Finishing("cancel", r)
      BY DEF CancelPending, CancelReleased, CancelFree, CancelWithoutEffect
    <2>2. QED
      BY <2>1, FinishingType
  <1>2. CASE CancelPending(r)
    <2>1. ReleaseOrder(o, "cancelled")
      BY <1>2 DEF CancelPending
    <2>2. /\ inv' \in [TicketTypes -> Counters]
          /\ rows' \in [Groups -> [Seats -> RowStatus]]
          /\ groups' \in [Groups -> GroupRecord]
          /\ orders' \in [Orders -> OrderRecord]
      BY <1>1, <2>1, ReleaseOrderType DEF Typed, OrderStatus, Released
    <2>3. QED
      BY <1>1, <1>2, <2>2 DEF CancelPending, Typed, TypeOK
  <1>3. CASE CancelReleased(r)
    BY <1>1, <1>3 DEF CancelReleased, Typed, TypeOK
  <1>4. CASE CancelFree(r)
    <2>1. orders[o].units \in [TicketTypes -> Nat]
      BY <1>1 DEF Typed, TypeOK, OrderRecord
    <2>2. \A tt \in TicketTypes :
            Refund(inv[tt], orders[o].units[tt]) \in Counters
      BY <2>1, RefundKeepsType DEF Typed, TypeOK
    <2>3. inv' \in [TicketTypes -> Counters]
      BY <1>4, <2>2 DEF CancelFree
    <2>4. rows' \in [Groups -> [Seats -> RowStatus]]
      BY <1>4, MoveRowsType DEF CancelFree, Typed, TypeOK, RowStatus
    <2>5. groups' \in [Groups -> GroupRecord]
      BY <1>4, MoveGroupsType DEF CancelFree, Typed, TypeOK, GroupStatus
    <2>6. orders' \in [Orders -> OrderRecord]
      BY <1>1, <1>4, SetStatusType DEF CancelFree, Typed, OrderStatus, Released
    <2>7. tickets' \in [Orders -> TicketStatus]
      BY <1>1, <1>4 DEF CancelFree, RevokeTickets, Typed, TypeOK, TicketStatus
    <2>8. staleActs' \in BOOLEAN
      BY <1>4 DEF CancelFree, Typed, TypeOK
    <2>9. QED
      BY <1>1, <1>4, <2>3, <2>4, <2>5, <2>6, <2>7, <2>8 DEF CancelFree, Typed, TypeOK
  <1>5. CASE CancelWithoutEffect(r)
    BY <1>1, <1>5 DEF CancelWithoutEffect, Typed, TypeOK
  <1>6. QED
    BY <1>2, <1>3, <1>4, <1>5

LEMMA TypedConfirm ==
  ASSUME Typed, NEW r \in Requests, ConfirmPaid(r) \/ ConfirmWithoutEffect(r)
  PROVE  Typed'
  <1> DEFINE o == reqs[r].order
  <1>1. /\ o \in Orders
        /\ reqs' \in [Requests -> RequestRecord]
        /\ BusyRequestsHaveOrders'
    <2>1. Finishing("confirm", r)
      BY DEF ConfirmPaid, ConfirmWithoutEffect
    <2>2. QED
      BY <2>1, FinishingType
  <1>2. CASE ConfirmPaid(r)
    <2>1. inv' \in [TicketTypes -> Counters]
      BY <1>1, <1>2, OwnUnitsType, ConfirmAllType DEF ConfirmPaid, Typed
    <2>2. rows' \in [Groups -> [Seats -> RowStatus]]
      BY <1>2, MoveRowsType DEF ConfirmPaid, Typed, TypeOK, RowStatus
    <2>3. groups' \in [Groups -> GroupRecord]
      BY <1>2, MoveGroupsType DEF ConfirmPaid, Typed, TypeOK, GroupStatus
    <2>4. orders' \in [Orders -> OrderRecord]
      BY <1>1, <1>2, SetStatusType DEF ConfirmPaid, Typed, OrderStatus
    <2>5. tickets' \in [Orders -> TicketStatus]
      BY <1>1, <1>2 DEF ConfirmPaid, Typed, TypeOK, TicketStatus
    <2>6. staleActs' \in BOOLEAN
      BY <1>2 DEF ConfirmPaid, Typed, TypeOK
    <2>7. QED
      BY <1>1, <1>2, <2>1, <2>2, <2>3, <2>4, <2>5, <2>6 DEF ConfirmPaid, Typed, TypeOK
  <1>3. CASE ConfirmWithoutEffect(r)
    BY <1>1, <1>3 DEF ConfirmWithoutEffect, Typed, TypeOK
  <1>4. QED
    BY <1>2, <1>3

LEMMA TypedWorker ==
  ASSUME Typed, WorkerStep \/ \E o \in Orders : FailPending(o)
  PROVE  Typed'
  <1> USE DEF Typed, BusyRequestsHaveOrders
  <1>1. ASSUME NEW o \in Orders, FailPending(o) PROVE Typed'
    <2>1. ReleaseOrder(o, "failed")
      BY <1>1 DEF FailPending
    <2>2. /\ inv' \in [TicketTypes -> Counters]
          /\ rows' \in [Groups -> [Seats -> RowStatus]]
          /\ groups' \in [Groups -> GroupRecord]
          /\ orders' \in [Orders -> OrderRecord]
      BY <2>1, ReleaseOrderType DEF OrderStatus, Released
    <2>3. QED
      BY <1>1, <2>2 DEF FailPending, TypeOK
  <1>2. ASSUME NEW o \in due, ExpireOrder(o) PROVE Typed'
    <2>1. o \in Orders /\ ReleaseOrder(o, "expired")
      BY <1>2 DEF ExpireOrder, TypeOK
    <2>2. /\ inv' \in [TicketTypes -> Counters]
          /\ rows' \in [Groups -> [Seats -> RowStatus]]
          /\ groups' \in [Groups -> GroupRecord]
          /\ orders' \in [Orders -> OrderRecord]
      BY <2>1, ReleaseOrderType DEF OrderStatus, Released
    <2>3. QED
      BY <1>2, <2>2 DEF ExpireOrder, TypeOK
  <1>3. ASSUME NEW o \in due, SkipOrder(o) \/ AbortPass(o) PROVE Typed'
    BY <1>3 DEF SkipOrder, AbortPass, TypeOK
  <1>4. CASE ScanDueOrders
    BY <1>4 DEF ScanDueOrders, DueOrders, TypeOK
  <1>5. CASE WorkerCrash
    BY <1>5 DEF WorkerCrash, TypeOK
  <1>6. QED
    BY <1>1, <1>2, <1>3, <1>4, <1>5 DEF WorkerStep, HandleDueOrder

LEMMA TypedStep == Typed /\ [Next]_vars => Typed'
  <1> SUFFICES ASSUME Typed, [Next]_vars PROVE Typed'
    OBVIOUS
  <1>1. CASE Tick \/ EventStep
    BY <1>1, TypedEvent
  <1>2. CASE HoldStep
    BY <1>2, TypedCreateHold, TypedReleaseHold DEF HoldStep
  <1>3. CASE HoldExpiry
    BY <1>3, TypedExpireHolds DEF HoldExpiry
  <1>4. CASE PlaceStep
    BY <1>4, TypedPlaceSeats, TypedPlaceGA DEF PlaceStep
  <1>5. CASE RequestStep
    BY <1>5, BeginType, TypedCancel, TypedConfirm DEF RequestStep
  <1>6. CASE WorkerStep \/ \E o \in Orders : FailPending(o)
    BY <1>6, TypedWorker
  <1>7. CASE UNCHANGED vars
    BY <1>7 DEF vars, Typed, TypeOK, BusyRequestsHaveOrders
  <1>8. QED
    BY <1>1, <1>2, <1>3, <1>4, <1>5, <1>6, <1>7 DEF Next

(* Every reachable state of the checkout is well typed: in particular no    *)
(* handler leaves a counter, a status or a link that is not a value of the  *)
(* column it is stored in.                                                 *)
THEOREM TypeCorrect == Spec => []TypeOK
  <1>1. Typed => TypeOK
    BY DEF Typed
  <1>2. QED
    BY <1>1, TypedInit, TypedStep, PTL DEF Spec

-----------------------------------------------------------------------------
(* The CHECK constraints of ticket_types.  Inductive together with the      *)
(* types: each handler guards every counter it moves.                      *)

LEMMA ReleaseAllChecks ==
  ASSUME TypeOK, CountersWithinChecks, NEW q \in [TicketTypes -> Nat],
         CanReleaseAll(q)
  PROVE  \A tt \in TicketTypes : ChecksHold(ReleaseAll(q)[tt], Total[tt])
  <1> SUFFICES ASSUME NEW tt \in TicketTypes
               PROVE  ChecksHold(ReleaseAll(q)[tt], Total[tt])
    OBVIOUS
  <1>1. /\ inv[tt] \in Counters /\ q[tt] \in Nat /\ Total[tt] \in Nat
        /\ ChecksHold(inv[tt], Total[tt]) /\ CanRelease(inv[tt], q[tt])
    BY ConstantsAssumption DEF TypeOK, CountersWithinChecks, CanReleaseAll
  <1>2. ChecksHold(Release(inv[tt], q[tt]), Total[tt])
    BY <1>1, ReleaseKeepsChecks
  <1>3. QED
    BY <1>2 DEF ReleaseAll

LEMMA ConfirmAllChecks ==
  ASSUME TypeOK, CountersWithinChecks, NEW q \in [TicketTypes -> Nat],
         CanConfirmAll(q)
  PROVE  \A tt \in TicketTypes : ChecksHold(ConfirmAll(q)[tt], Total[tt])
  <1> SUFFICES ASSUME NEW tt \in TicketTypes
               PROVE  ChecksHold(ConfirmAll(q)[tt], Total[tt])
    OBVIOUS
  <1>1. /\ inv[tt] \in Counters /\ q[tt] \in Nat /\ Total[tt] \in Nat
        /\ ChecksHold(inv[tt], Total[tt]) /\ CanConfirm(inv[tt], q[tt])
    BY ConstantsAssumption DEF TypeOK, CountersWithinChecks, CanConfirmAll
  <1>2. ChecksHold(Confirm(inv[tt], q[tt]), Total[tt])
    BY <1>1, ConfirmKeepsChecks
  <1>3. QED
    BY <1>2 DEF ConfirmAll

LEMMA ChecksAfterHold ==
  ASSUME TypeOK, CountersWithinChecks, HoldStep \/ HoldExpiry
  PROVE  CountersWithinChecks'
  <1>1. ASSUME NEW t \in EntryTimes, NEW u \in Users, NEW g \in Groups,
               NEW tt \in TicketTypes, NEW S \in SUBSET Seats,
               CreateHold(u, g, tt, S, t)
        PROVE  CountersWithinChecks'
    <2> DEFINE left == ReleaseAll(HeldOnly(Overdue(t)))
               n == Cardinality(S)
    <2>1. HeldOnly(Overdue(t)) \in [TicketTypes -> Nat]
      BY OverdueAreGroups, HeldOnlyType
    <2>2. /\ left \in [TicketTypes -> Counters]
          /\ \A x \in TicketTypes : ChecksHold(left[x], Total[x])
      BY <1>1, <2>1, ReleaseAllType, ReleaseAllChecks DEF CreateHold
    <2>3. n \in Nat /\ Total[tt] \in Nat
      BY ConstantsAssumption, FS_Subset, FS_CardinalityType
    <2>4. CanReserve(left[tt], n, Total[tt])
      BY <1>1 DEF CreateHold
    <2>5. ChecksHold(Reserve(left[tt], n), Total[tt])
      BY <2>2, <2>3, <2>4, ReserveKeepsChecks
    <2>6. inv' = [left EXCEPT ![tt] = Reserve(left[tt], n)]
      BY <1>1 DEF CreateHold
    <2> HIDE DEF left, n
    <2>7. QED
      BY <2>2, <2>5, <2>6 DEF CountersWithinChecks
  <1>2. ASSUME NEW t \in EntryTimes, NEW u \in Users, NEW g \in Groups,
               ReleaseHold(u, g, t)
        PROVE  CountersWithinChecks'
    <2> DEFINE own == {h \in {g} : groups[h].status = "held" /\ groups[h].expires > t}
    <2>1. Overdue(t) \cup own \in SUBSET Groups
      BY OverdueAreGroups
    <2>2. HeldOnly(Overdue(t) \cup own) \in [TicketTypes -> Nat]
      BY <2>1, HeldOnlyType
    <2>3. /\ CanReleaseAll(HeldOnly(Overdue(t) \cup own))
          /\ inv' = ReleaseAll(HeldOnly(Overdue(t) \cup own))
      BY <1>2 DEF ReleaseHold
    <2>4. QED
      BY <2>2, <2>3, ReleaseAllChecks DEF CountersWithinChecks
  <1>3. ASSUME NEW t \in EntryTimes, ExpireHolds(t)
        PROVE  CountersWithinChecks'
    <2>1. PICK late \in SUBSET Overdue(t) :
            CanReleaseAll(HeldOnly(late)) /\ inv' = ReleaseAll(HeldOnly(late))
      BY <1>3 DEF ExpireHolds
    <2>2. HeldOnly(late) \in [TicketTypes -> Nat]
      BY OverdueAreGroups, HeldOnlyType
    <2>3. QED
      BY <2>1, <2>2, ReleaseAllChecks DEF CountersWithinChecks
  <1>4. QED
    BY <1>1, <1>2, <1>3 DEF HoldStep, HoldExpiry

LEMMA ChecksAfterPlace ==
  ASSUME TypeOK, CountersWithinChecks, PlaceStep
  PROVE  CountersWithinChecks'
  <1>1. ASSUME NEW u \in Users, NEW o \in Orders, NEW t \in EntryTimes,
               NEW G \in SUBSET Groups, PlaceFreeSeatOrder(u, o, G, t)
        PROVE  CountersWithinChecks'
    BY <1>1, HeldOnlyType, ConfirmAllChecks
    DEF PlaceFreeSeatOrder, CountersWithinChecks
  <1>2. ASSUME NEW u \in Users, NEW o \in Orders, NEW t \in EntryTimes,
               NEW G \in SUBSET Groups, PlacePaidSeatOrder(u, o, G, t)
        PROVE  CountersWithinChecks'
    BY <1>2 DEF PlacePaidSeatOrder, CountersWithinChecks
  <1>3. ASSUME NEW u \in Users, NEW o \in Orders, NEW t \in EntryTimes,
               NEW q \in [TicketTypes -> 0..MaxPerOrder],
               PlacePaidGAOrder(u, o, q, t) \/ PlaceFreeGAOrder(u, o, q, t)
        PROVE  CountersWithinChecks'
    <2>1. ASSUME NEW tt \in TicketTypes
          PROVE  /\ ChecksHold(Reserve(inv[tt], q[tt]), Total[tt])
                 /\ ChecksHold(Confirm(Reserve(inv[tt], q[tt]), q[tt]), Total[tt])
      <3>1. /\ inv[tt] \in Counters /\ q[tt] \in Nat /\ Total[tt] \in Nat
            /\ ChecksHold(inv[tt], Total[tt])
        BY ConstantsAssumption DEF TypeOK, CountersWithinChecks
      <3>2. CanReserve(inv[tt], q[tt], Total[tt])
        BY <1>3 DEF PlacePaidGAOrder, PlaceFreeGAOrder, GACart
      <3>3. QED
        BY <3>1, <3>2, ReserveKeepsChecks, ReserveThenConfirmKeepsChecks
    <2>2. QED
      BY <1>3, <2>1 DEF PlacePaidGAOrder, PlaceFreeGAOrder, CountersWithinChecks
  <1>4. QED
    BY <1>1, <1>2, <1>3 DEF PlaceStep

LEMMA ChecksAfterRelease ==
  ASSUME TypeOK, CountersWithinChecks, NEW o \in Orders, NEW status,
         ReleaseOrder(o, status)
  PROVE  CountersWithinChecks'
  BY OwnUnitsType, ReleaseAllChecks DEF ReleaseOrder, Releasable, CountersWithinChecks

LEMMA ChecksAfterRequest ==
  ASSUME Typed, CountersWithinChecks, RequestStep
  PROVE  CountersWithinChecks'
  <1> USE DEF Typed
  <1>1. ASSUME NEW r \in Requests, CancelPending(r)
        PROVE  CountersWithinChecks'
    BY <1>1, FinishingType, ChecksAfterRelease DEF CancelPending
  <1>2. ASSUME NEW r \in Requests, CancelFree(r)
        PROVE  CountersWithinChecks'
    <2> DEFINE o == reqs[r].order
    <2>1. o \in Orders
      BY <1>2, FinishingType DEF CancelFree
    <2>2. ASSUME NEW tt \in TicketTypes
          PROVE  ChecksHold(Refund(inv[tt], orders[o].units[tt]), Total[tt])
      <3>1. /\ inv[tt] \in Counters /\ orders[o].units[tt] \in Nat
            /\ Total[tt] \in Nat /\ ChecksHold(inv[tt], Total[tt])
        BY <2>1, ConstantsAssumption DEF TypeOK, OrderRecord, CountersWithinChecks
      <3>2. CanRefund(inv[tt], orders[o].units[tt])
        BY <1>2 DEF CancelFree, Refundables
      <3>3. QED
        BY <3>1, <3>2, RefundKeepsChecks
    <2>3. inv' = [tt \in TicketTypes |-> Refund(inv[tt], orders[o].units[tt])]
      BY <1>2 DEF CancelFree
    <2>4. QED
      BY <2>2, <2>3 DEF CountersWithinChecks
  <1>3. ASSUME NEW r \in Requests, ConfirmPaid(r)
        PROVE  CountersWithinChecks'
    <2>1. reqs[r].order \in Orders
      BY <1>3, FinishingType DEF ConfirmPaid
    <2>2. QED
      BY <1>3, <2>1, OwnUnitsType, ConfirmAllChecks
      DEF ConfirmPaid, Confirmable, CountersWithinChecks
  <1>4. ASSUME NEW r \in Requests,
               \/ \E o \in Orders : BeginCancel(r, o) \/ BeginConfirm(r, o)
               \/ CancelReleased(r) \/ CancelWithoutEffect(r)
               \/ ConfirmWithoutEffect(r)
        PROVE  CountersWithinChecks'
    BY <1>4 DEF BeginCancel, BeginConfirm, Begin, CancelReleased,
       CancelWithoutEffect, ConfirmWithoutEffect, CountersWithinChecks
  <1>5. QED
    BY <1>1, <1>2, <1>3, <1>4 DEF RequestStep

LEMMA ChecksStep == Typed /\ CountersWithinChecks /\ [Next]_vars => CountersWithinChecks'
  <1> SUFFICES ASSUME Typed, CountersWithinChecks, [Next]_vars
               PROVE  CountersWithinChecks'
    OBVIOUS
  <1> USE DEF Typed
  <1>1. CASE Tick \/ EventStep
    BY <1>1 DEF Tick, EventStep, PublishEvent, UnpublishEvent, CancelEvent,
       SetVisibility, EventEdit, CountersWithinChecks
  <1>2. CASE HoldStep \/ HoldExpiry
    BY <1>2, ChecksAfterHold
  <1>3. CASE PlaceStep
    BY <1>3, ChecksAfterPlace
  <1>4. CASE RequestStep
    BY <1>4, ChecksAfterRequest
  <1>5. ASSUME NEW o \in Orders, FailPending(o) PROVE CountersWithinChecks'
    BY <1>5, ChecksAfterRelease DEF FailPending
  <1>6. ASSUME NEW o \in due, ExpireOrder(o) PROVE CountersWithinChecks'
    <2>1. o \in Orders
      BY DEF TypeOK
    <2>2. QED
      BY <1>6, <2>1, ChecksAfterRelease DEF ExpireOrder
  <1>7. ASSUME \/ ScanDueOrders \/ WorkerCrash
               \/ \E o \in due : SkipOrder(o) \/ AbortPass(o)
        PROVE  CountersWithinChecks'
    BY <1>7 DEF ScanDueOrders, WorkerCrash, SkipOrder, AbortPass, CountersWithinChecks
  <1>8. CASE UNCHANGED vars
    BY <1>8 DEF vars, CountersWithinChecks
  <1>9. QED
    BY <1>1, <1>2, <1>3, <1>4, <1>5, <1>6, <1>7, <1>8
    DEF Next, WorkerStep, HandleDueOrder

(* No handler ever runs into a CHECK constraint of ticket_types, whatever   *)
(* the number of buyers and however stale the status a request acts on:     *)
(* never oversold by the counters, no counter negative, refunds and scans   *)
(* never above sales.                                                      *)
THEOREM CountersNeverBreakChecks == Spec => []CountersWithinChecks
  <1>1. Init => CountersWithinChecks
    BY NoUnitsPassChecks, ConstantsAssumption DEF Init, CountersWithinChecks
  <1>2. QED
    BY <1>1, TypedInit, TypedStep, ChecksStep, PTL DEF Spec

-----------------------------------------------------------------------------
(* The seat ledger.  A held row that does not occupy its seat belongs to a  *)
(* group that is overdue, because rows follow their group; create_hold      *)
(* expires such groups before it inserts, so a seat never gets two active   *)
(* rows.  The two facts are inductive together.                            *)

Active == {"held", "converted"}

Follows(R, H) ==
  \A g \in Groups, s \in Seats :
    R[g][s] # "none" => R[g][s] = RowStatusOf(H[g].status)

Exclusive(R) ==
  \A g, h \in Groups, s \in Seats :
    R[g][s] \in Active /\ R[h][s] \in Active => g = h

Ledger == Follows(rows, groups) /\ Exclusive(rows)

LEMMA LedgerIsTheProperties ==
  Ledger <=> RowsFollowGroup /\ OneActiveRowPerSeat
  BY DEF Ledger, Follows, Exclusive, Active, RowsFollowGroup, RowsOf,
     OneActiveRowPerSeat, ActiveRow

(* Moving the rows and the groups of a set together keeps them together.   *)
LEMMA MovesFollow ==
  ASSUME NEW R \in [Groups -> [Seats -> RowStatus]],
         NEW H \in [Groups -> GroupRecord], NEW G, Follows(R, H),
         NEW from \in {"held", "sold"}, NEW to \in {"released", "expired", "sold"}
  PROVE  Follows(MoveRows(R, G, RowStatusOf(from), RowStatusOf(to)),
                 MoveGroups(H, G, from, to))
  <1> SUFFICES ASSUME NEW g \in Groups, NEW s \in Seats,
                      MoveRows(R, G, RowStatusOf(from), RowStatusOf(to))[g][s] # "none"
               PROVE  MoveRows(R, G, RowStatusOf(from), RowStatusOf(to))[g][s]
                        = RowStatusOf(MoveGroups(H, G, from, to)[g].status)
    BY DEF Follows
  <1>1. /\ H[g] \in GroupRecord /\ R[g][s] \in RowStatus
        /\ R[g][s] # "none" => R[g][s] = RowStatusOf(H[g].status)
    BY DEF Follows
  <1>2. MoveRows(R, G, RowStatusOf(from), RowStatusOf(to))[g][s]
          = IF g \in G /\ R[g][s] = RowStatusOf(from) THEN RowStatusOf(to) ELSE R[g][s]
    BY DEF MoveRows
  <1>3. MoveGroups(H, G, from, to)[g].status
          = IF g \in G /\ H[g].status = from THEN to ELSE H[g].status
    <2>1. H[g].status \in GroupStatus /\ [H[g] EXCEPT !.status = to].status = to
      BY <1>1 DEF GroupRecord
    <2>2. QED
      BY <2>1 DEF MoveGroups
  <1>4. R[g][s] # "none"
    BY <1>2 DEF RowStatusOf
  <1>5. H[g].status \in GroupStatus
    BY <1>1 DEF GroupRecord
  <1>6. R[g][s] = RowStatusOf(from) <=> H[g].status = from
    BY <1>1, <1>4, <1>5 DEF RowStatusOf, GroupStatus
  <1>7. QED
    BY <1>1, <1>2, <1>3, <1>4, <1>6

LEMMA MovesStayExclusive ==
  ASSUME NEW R \in [Groups -> [Seats -> RowStatus]], Exclusive(R),
         NEW G, NEW from \in Active, NEW to
  PROVE  Exclusive(MoveRows(R, G, from, to))
  <1>1. \A g \in Groups, s \in Seats :
          MoveRows(R, G, from, to)[g][s] \in Active => R[g][s] \in Active
    BY DEF MoveRows
  <1>2. QED
    BY <1>1 DEF Exclusive

LEMMA LinksFollow ==
  ASSUME NEW R, NEW H \in [Groups -> GroupRecord], NEW G, NEW o, Follows(R, H)
  PROVE  Follows(R, LinkOrder(H, G, o))
  <1>1. \A g \in Groups : LinkOrder(H, G, o)[g].status = H[g].status
    <2> SUFFICES ASSUME NEW g \in Groups
                 PROVE  LinkOrder(H, G, o)[g].status = H[g].status
      OBVIOUS
    <2>1. H[g] \in GroupRecord
      OBVIOUS
    <2>2. [H[g] EXCEPT !.order = o].status = H[g].status
      BY <2>1 DEF GroupRecord
    <2>3. QED
      BY <2>2 DEF LinkOrder
  <1>2. QED
    BY <1>1 DEF Follows

LEMMA LedgerMove ==
  ASSUME TypeOK, Ledger, NEW G, NEW from \in {"held", "sold"},
         NEW to \in {"released", "expired", "sold"},
         rows' = MoveRows(rows, G, RowStatusOf(from), RowStatusOf(to)),
         groups' = MoveGroups(groups, G, from, to)
  PROVE  Ledger'
  <1>1. /\ rows \in [Groups -> [Seats -> RowStatus]]
        /\ groups \in [Groups -> GroupRecord]
    BY DEF TypeOK
  <1>2. RowStatusOf(from) \in Active
    BY DEF RowStatusOf, Active
  <1>3. Follows(rows', groups')
    BY <1>1, MovesFollow DEF Ledger
  <1>4. Exclusive(rows')
    BY <1>1, <1>2, MovesStayExclusive DEF Ledger
  <1>5. QED
    BY <1>3, <1>4 DEF Ledger, Follows, Exclusive

LEMMA LedgerCreateHold ==
  ASSUME TypeOK, Ledger, NEW t \in EntryTimes, NEW u \in Users, NEW g \in Groups,
         NEW tt \in TicketTypes, NEW S \in SUBSET Seats, CreateHold(u, g, tt, S, t)
  PROVE  Ledger'
  <1> DEFINE late == Overdue(t)
             R == MoveRows(rows, late, "held", "expired")
             H == MoveGroups(groups, late, "held", "expired")
             row == [s \in Seats |-> IF s \in S THEN "held" ELSE "none"]
             group == [status |-> "held", user |-> u, type |-> tt,
                       expires |-> t + HoldDuration, order |-> None]
  <1>1. /\ rows \in [Groups -> [Seats -> RowStatus]]
        /\ groups \in [Groups -> GroupRecord]
    BY DEF TypeOK
  <1>2. /\ R \in [Groups -> [Seats -> RowStatus]]
        /\ H \in [Groups -> GroupRecord]
    BY <1>1, MoveRowsType, MoveGroupsType DEF RowStatus, GroupStatus
  <1>3. Follows(R, H)
    <2>1. RowStatusOf("held") = "held" /\ RowStatusOf("expired") = "expired"
      BY DEF RowStatusOf
    <2>2. QED
      BY <1>1, <2>1, MovesFollow DEF Ledger
  <1>4. Exclusive(R)
    BY <1>1, MovesStayExclusive DEF Ledger, Active
  <1>5. rows' = [R EXCEPT ![g] = row] /\ groups' = [H EXCEPT ![g] = group]
    BY DEF CreateHold
  <1>6. ASSUME NEW h \in Groups, NEW s \in S
        PROVE  R[h][s] \notin Active
    <2>1. s \in Seats /\ s \notin Occupied(t)
      BY <1>6 DEF CreateHold
    <2>2. /\ rows[h][s] # "converted"
          /\ ~(/\ rows[h][s] = "held"
               /\ groups[h].status = "held" /\ groups[h].expires > t)
      BY <2>1 DEF Occupied
    <2>3. rows[h][s] = "held" => groups[h].status = "held"
      <3>1. groups[h].status \in GroupStatus
        BY <1>1 DEF GroupRecord
      <3>2. rows[h][s] = "held" => RowStatusOf(groups[h].status) = "held"
        BY <2>1 DEF Ledger, Follows
      <3>3. QED
        BY <3>1, <3>2 DEF RowStatusOf, GroupStatus
    <2>4. groups[h].expires \in Nat /\ t \in Nat
      BY <1>1, EntryTimesAreNat DEF GroupRecord
    <2>5. rows[h][s] = "held" => h \in late
      BY <2>2, <2>3, <2>4 DEF Overdue
    <2>6. R[h][s] = IF h \in late /\ rows[h][s] = "held" THEN "expired" ELSE rows[h][s]
      BY <2>1 DEF MoveRows
    <2>7. QED
      BY <2>2, <2>5, <2>6 DEF Active
  <1>7. RowStatusOf("held") = "held" /\ group.status = "held"
    BY DEF RowStatusOf
  <1> HIDE DEF R, H, late, group
  <1>8. Follows(rows', groups')
    BY <1>2, <1>3, <1>5, <1>7 DEF Follows
  <1>9. Exclusive(rows')
    <2> SUFFICES ASSUME NEW h \in Groups, NEW k \in Groups, NEW s \in Seats,
                        rows'[h][s] \in Active, rows'[k][s] \in Active
                 PROVE  h = k
      BY DEF Exclusive
    <2>1. CASE s \in S
      BY <1>2, <1>5, <1>6, <2>1
    <2>2. CASE s \notin S
      <3>1. h # g /\ k # g
        BY <1>2, <1>5, <2>2 DEF Active
      <3>2. QED
        BY <1>2, <1>4, <1>5, <3>1 DEF Exclusive
    <2>3. QED
      BY <2>1, <2>2
  <1>10. QED
    BY <1>8, <1>9 DEF Ledger, Follows, Exclusive

LEMMA LedgerReleaseHold ==
  ASSUME TypeOK, Ledger, NEW u \in Users, NEW g \in Groups, NEW t,
         ReleaseHold(u, g, t)
  PROVE  Ledger'
  <1> DEFINE late == Overdue(t)
             own == {h \in {g} : groups[h].status = "held" /\ groups[h].expires > t}
             R == MoveRows(rows, late, "held", "expired")
             H == MoveGroups(groups, late, "held", "expired")
  <1>1. /\ rows \in [Groups -> [Seats -> RowStatus]]
        /\ groups \in [Groups -> GroupRecord]
    BY DEF TypeOK
  <1>2. /\ RowStatusOf("held") = "held" /\ RowStatusOf("expired") = "expired"
        /\ RowStatusOf("released") = "released"
    BY DEF RowStatusOf
  <1>3. /\ R \in [Groups -> [Seats -> RowStatus]]
        /\ H \in [Groups -> GroupRecord]
    BY <1>1, MoveRowsType, MoveGroupsType DEF RowStatus, GroupStatus
  <1>4. Follows(R, H)
    BY <1>1, <1>2, MovesFollow DEF Ledger
  <1>5. Exclusive(R)
    BY <1>1, MovesStayExclusive DEF Ledger, Active
  <1>6. /\ rows' = MoveRows(R, own, "held", "released")
        /\ groups' = MoveGroups(H, own, "held", "released")
    BY DEF ReleaseHold
  <1> HIDE DEF R, H, own, late
  <1>7. Follows(rows', groups')
    BY <1>2, <1>3, <1>4, <1>6, MovesFollow
  <1>8. Exclusive(rows')
    BY <1>3, <1>5, <1>6, MovesStayExclusive DEF Active
  <1>9. QED
    BY <1>7, <1>8 DEF Ledger, Follows, Exclusive

LEMMA LedgerExpireHolds ==
  ASSUME TypeOK, Ledger, NEW t, ExpireHolds(t)
  PROVE  Ledger'
  <1>1. PICK late \in SUBSET Overdue(t) :
          /\ rows' = MoveRows(rows, late, "held", "expired")
          /\ groups' = MoveGroups(groups, late, "held", "expired")
    BY DEF ExpireHolds
  <1>2. RowStatusOf("held") = "held" /\ RowStatusOf("expired") = "expired"
    BY DEF RowStatusOf
  <1>3. QED
    BY <1>1, <1>2, LedgerMove

LEMMA LedgerPlaceSeats ==
  ASSUME TypeOK, Ledger, NEW u \in Users, NEW o \in Orders, NEW t,
         NEW G \in SUBSET Groups,
         PlacePaidSeatOrder(u, o, G, t) \/ PlaceFreeSeatOrder(u, o, G, t)
  PROVE  Ledger'
  <1> DEFINE H == LinkOrder(groups, G, o)
  <1>1. /\ rows \in [Groups -> [Seats -> RowStatus]]
        /\ groups \in [Groups -> GroupRecord]
    BY DEF TypeOK
  <1>2. H \in [Groups -> GroupRecord]
    BY <1>1, LinkOrderType
  <1>3. Follows(rows, H)
    BY <1>1, LinksFollow DEF Ledger
  <1>4. CASE PlacePaidSeatOrder(u, o, G, t)
    <2>1. rows' = rows /\ groups' = H
      BY <1>4 DEF PlacePaidSeatOrder
    <2>2. QED
      BY <1>3, <2>1 DEF Ledger, Follows, Exclusive
  <1>5. CASE PlaceFreeSeatOrder(u, o, G, t)
    <2>1. /\ rows' = MoveRows(rows, G, "held", "converted")
          /\ groups' = MoveGroups(H, G, "held", "sold")
      BY <1>5 DEF PlaceFreeSeatOrder
    <2>2. RowStatusOf("held") = "held" /\ RowStatusOf("sold") = "converted"
      BY DEF RowStatusOf
    <2> HIDE DEF H
    <2>3. Follows(rows', groups')
      BY <1>1, <1>2, <1>3, <2>1, <2>2, MovesFollow
    <2>4. Exclusive(rows')
      BY <1>1, <2>1, MovesStayExclusive DEF Ledger, Active
    <2>5. QED
      BY <2>3, <2>4 DEF Ledger, Follows, Exclusive
  <1>6. QED
    BY <1>4, <1>5

LEMMA LedgerReleaseOrder ==
  ASSUME TypeOK, Ledger, NEW o, NEW status, ReleaseOrder(o, status)
  PROVE  Ledger'
  <1>1. RowStatusOf("held") = "held" /\ RowStatusOf("released") = "released"
    BY DEF RowStatusOf
  <1>2. QED
    BY <1>1, LedgerMove DEF ReleaseOrder

LEMMA LedgerRequest ==
  ASSUME TypeOK, Ledger, RequestStep
  PROVE  Ledger'
  <1>1. ASSUME NEW r \in Requests, CancelPending(r)
        PROVE  Ledger'
    BY <1>1, LedgerReleaseOrder DEF CancelPending
  <1>2. ASSUME NEW r \in Requests, CancelFree(r)
        PROVE  Ledger'
    <2>1. RowStatusOf("sold") = "converted" /\ RowStatusOf("released") = "released"
      BY DEF RowStatusOf
    <2>2. QED
      BY <1>2, <2>1, LedgerMove DEF CancelFree
  <1>3. ASSUME NEW r \in Requests, ConfirmPaid(r)
        PROVE  Ledger'
    <2>1. RowStatusOf("held") = "held" /\ RowStatusOf("sold") = "converted"
      BY DEF RowStatusOf
    <2>2. QED
      BY <1>3, <2>1, LedgerMove DEF ConfirmPaid
  <1>4. ASSUME NEW r \in Requests,
               \/ \E o \in Orders : BeginCancel(r, o) \/ BeginConfirm(r, o)
               \/ CancelReleased(r) \/ CancelWithoutEffect(r)
               \/ ConfirmWithoutEffect(r)
        PROVE  Ledger'
    BY <1>4 DEF BeginCancel, BeginConfirm, Begin, CancelReleased,
       CancelWithoutEffect, ConfirmWithoutEffect, Ledger, Follows, Exclusive
  <1>5. QED
    BY <1>1, <1>2, <1>3, <1>4 DEF RequestStep

LEMMA LedgerStep == TypeOK /\ Ledger /\ [Next]_vars => Ledger'
  <1> SUFFICES ASSUME TypeOK, Ledger, [Next]_vars
               PROVE  Ledger'
    OBVIOUS
  <1>1. CASE Tick \/ EventStep \/ UNCHANGED vars
    BY <1>1 DEF Tick, EventStep, PublishEvent, UnpublishEvent, CancelEvent,
       SetVisibility, EventEdit, vars, Ledger, Follows, Exclusive
  <1>2. CASE HoldStep \/ HoldExpiry
    BY <1>2, LedgerCreateHold, LedgerReleaseHold, LedgerExpireHolds
    DEF HoldStep, HoldExpiry
  <1>3. CASE PlaceStep
    <2>1. ASSUME NEW u \in Users, NEW o \in Orders, NEW t,
                 \E q \in [TicketTypes -> 0..MaxPerOrder] :
                   PlacePaidGAOrder(u, o, q, t) \/ PlaceFreeGAOrder(u, o, q, t)
          PROVE  Ledger'
      BY <2>1 DEF PlacePaidGAOrder, PlaceFreeGAOrder, Ledger, Follows, Exclusive
    <2>2. QED
      BY <1>3, <2>1, LedgerPlaceSeats DEF PlaceStep
  <1>4. CASE RequestStep
    BY <1>4, LedgerRequest
  <1>5. ASSUME NEW o, FailPending(o) \/ ExpireOrder(o)
        PROVE  Ledger'
    BY <1>5, LedgerReleaseOrder DEF FailPending, ExpireOrder
  <1>6. ASSUME \/ ScanDueOrders \/ WorkerCrash
               \/ \E o \in due : SkipOrder(o) \/ AbortPass(o)
        PROVE  Ledger'
    BY <1>6 DEF ScanDueOrders, WorkerCrash, SkipOrder, AbortPass,
       Ledger, Follows, Exclusive
  <1>7. QED
    BY <1>1, <1>2, <1>3, <1>4, <1>5, <1>6 DEF Next, WorkerStep, HandleDueOrder

LEMMA LedgerAlways == Spec => []Ledger
  <1>1. Init => Ledger
    BY DEF Init, Ledger, Follows, Exclusive, Active
  <1>2. QED
    BY <1>1, TypeCorrect, LedgerStep, PTL DEF Spec

(* No double booking, for any number of seats, groups and buyers, with `now`*)
(* taken any time before the lock: the unique index on active rows is the   *)
(* last line of defence and never the one that is needed.                  *)
THEOREM NoDoubleBooking == Spec => []OneActiveRowPerSeat
  BY LedgerAlways, LedgerIsTheProperties, PTL

(* A group and its rows always tell the same story, whichever of the three  *)
(* services that move them moved them last.                                *)
THEOREM RowsNeverPart == Spec => []RowsFollowGroup
  BY LedgerAlways, LedgerIsTheProperties, PTL

-----------------------------------------------------------------------------
(* A hold and its order.                                                   *)

NewGroupsAreUnlinked ==
  \A g \in Groups : groups[g].status = "none" => groups[g].order = None

(* H2 follows H1: links stay, and only new groups are without a status.    *)
KeepsLinks(H1, H2) ==
  \A g \in Groups :
    /\ H1[g].order # None => H2[g].order = H1[g].order
    /\ H2[g].status = "none" => H1[g].status = "none" /\ H2[g].order = H1[g].order

LEMMA MovesKeepLinks ==
  ASSUME NEW H \in [Groups -> GroupRecord], NEW G, NEW from,
         NEW to \in {"released", "expired", "sold"}
  PROVE  KeepsLinks(H, MoveGroups(H, G, from, to))
  <1> SUFFICES ASSUME NEW g \in Groups
               PROVE  LET h == MoveGroups(H, G, from, to)[g]
                      IN /\ h.order = H[g].order
                         /\ h.status = "none" => H[g].status = "none"
    BY DEF KeepsLinks
  <1>1. H[g] \in GroupRecord
    OBVIOUS
  <1>2. /\ [H[g] EXCEPT !.status = to].order = H[g].order
        /\ [H[g] EXCEPT !.status = to].status = to
    BY <1>1 DEF GroupRecord
  <1>3. QED
    BY <1>2 DEF MoveGroups

LEMMA LinksKeepLinks ==
  ASSUME NEW H \in [Groups -> GroupRecord], NEW G, NEW o,
         \A g \in G : H[g].order = None /\ H[g].status # "none"
  PROVE  KeepsLinks(H, LinkOrder(H, G, o))
  <1>1. \A g \in Groups : [H[g] EXCEPT !.order = o].status = H[g].status
    BY DEF GroupRecord
  <1>2. QED
    BY <1>1 DEF KeepsLinks, LinkOrder

LEMMA LinksTransitive ==
  ASSUME NEW H1, NEW H2, NEW H3, KeepsLinks(H1, H2), KeepsLinks(H2, H3)
  PROVE  KeepsLinks(H1, H3)
  BY DEF KeepsLinks

LEMMA NewGroupKeepsLinks ==
  ASSUME TypeOK, NewGroupsAreUnlinked, NEW t, NEW u, NEW g \in Groups, NEW tt,
         NEW S, CreateHold(u, g, tt, S, t)
  PROVE  KeepsLinks(groups, groups')
  <1> DEFINE H == MoveGroups(groups, Overdue(t), "held", "expired")
             group == [status |-> "held", user |-> u, type |-> tt,
                       expires |-> t + HoldDuration, order |-> None]
  <1>1. groups \in [Groups -> GroupRecord]
    BY DEF TypeOK
  <1>2. KeepsLinks(groups, H) /\ H \in [Groups -> GroupRecord]
    BY <1>1, MovesKeepLinks, MoveGroupsType DEF GroupStatus
  <1>3. groups' = [H EXCEPT ![g] = group] /\ groups[g].order = None
    BY DEF CreateHold, NewGroupsAreUnlinked
  <1>4. group.status # "none"
    OBVIOUS
  <1> HIDE DEF H, group
  <1>5. QED
    BY <1>2, <1>3, <1>4 DEF KeepsLinks

LEMMA GroupsKeepLinks ==
  ASSUME TypeOK, NewGroupsAreUnlinked, [Next]_vars
  PROVE  KeepsLinks(groups, groups')
  <1>1. groups \in [Groups -> GroupRecord]
    BY DEF TypeOK
  <1>2. ASSUME UNCHANGED groups PROVE KeepsLinks(groups, groups')
    BY <1>2 DEF KeepsLinks
  <1>3. ASSUME NEW G, NEW from, NEW to \in {"released", "expired", "sold"},
               groups' = MoveGroups(groups, G, from, to)
        PROVE  KeepsLinks(groups, groups')
    BY <1>1, <1>3, MovesKeepLinks
  <1>4. CASE HoldStep \/ HoldExpiry
    <2>1. ASSUME NEW t, NEW u, NEW g \in Groups, ReleaseHold(u, g, t)
          PROVE  KeepsLinks(groups, groups')
      <3> DEFINE H == MoveGroups(groups, Overdue(t), "held", "expired")
                 own == {h \in {g} : groups[h].status = "held" /\ groups[h].expires > t}
      <3>1. H \in [Groups -> GroupRecord] /\ KeepsLinks(groups, H)
        BY <1>1, MoveGroupsType, MovesKeepLinks DEF GroupStatus
      <3>2. groups' = MoveGroups(H, own, "held", "released")
        BY <2>1 DEF ReleaseHold
      <3> HIDE DEF H, own
      <3>3. KeepsLinks(H, groups')
        BY <3>1, <3>2, MovesKeepLinks
      <3>4. QED
        BY <3>1, <3>3, LinksTransitive
    <2>2. ASSUME NEW t, ExpireHolds(t)
          PROVE  KeepsLinks(groups, groups')
      BY <2>2, <1>3 DEF ExpireHolds
    <2>3. QED
      BY <1>4, <2>1, <2>2, NewGroupKeepsLinks DEF HoldStep, HoldExpiry
  <1>5. CASE PlaceStep
    <2>1. ASSUME NEW u \in Users, NEW o \in Orders, NEW t, NEW G \in SUBSET Groups,
                 PlacePaidSeatOrder(u, o, G, t) \/ PlaceFreeSeatOrder(u, o, G, t)
          PROVE  KeepsLinks(groups, groups')
      <3> DEFINE H == LinkOrder(groups, G, o)
      <3>1. \A g \in G : groups[g].order = None /\ groups[g].status # "none"
        BY <2>1 DEF PlacePaidSeatOrder, PlaceFreeSeatOrder, SeatCart
      <3>2. H \in [Groups -> GroupRecord] /\ KeepsLinks(groups, H)
        BY <1>1, <3>1, LinkOrderType, LinksKeepLinks
      <3>3. groups' = H \/ groups' = MoveGroups(H, G, "held", "sold")
        BY <2>1 DEF PlacePaidSeatOrder, PlaceFreeSeatOrder
      <3> HIDE DEF H
      <3>4. QED
        BY <3>2, <3>3, MovesKeepLinks, LinksTransitive
    <2>2. ASSUME NEW u, NEW o, NEW t,
                 \E q \in [TicketTypes -> 0..MaxPerOrder] :
                   PlacePaidGAOrder(u, o, q, t) \/ PlaceFreeGAOrder(u, o, q, t)
          PROVE  KeepsLinks(groups, groups')
      BY <1>2, <2>2 DEF PlacePaidGAOrder, PlaceFreeGAOrder
    <2>3. QED
      BY <1>5, <2>1, <2>2 DEF PlaceStep
  <1>6. CASE RequestStep
    <2>1. ASSUME NEW r, CancelPending(r) \/ CancelFree(r) \/ ConfirmPaid(r)
          PROVE  KeepsLinks(groups, groups')
      BY <1>3, <2>1 DEF CancelPending, ReleaseOrder, CancelFree, ConfirmPaid
    <2>2. ASSUME NEW r, \/ \E o \in Orders : BeginCancel(r, o) \/ BeginConfirm(r, o)
                        \/ CancelReleased(r) \/ CancelWithoutEffect(r)
                        \/ ConfirmWithoutEffect(r)
          PROVE  KeepsLinks(groups, groups')
      BY <1>2, <2>2 DEF BeginCancel, BeginConfirm, Begin, CancelReleased,
         CancelWithoutEffect, ConfirmWithoutEffect
    <2>3. QED
      BY <1>6, <2>1, <2>2 DEF RequestStep
  <1>7. ASSUME NEW o, FailPending(o) \/ ExpireOrder(o)
        PROVE  KeepsLinks(groups, groups')
    BY <1>3, <1>7 DEF FailPending, ExpireOrder, ReleaseOrder
  <1>8. ASSUME \/ Tick \/ EventStep \/ ScanDueOrders \/ WorkerCrash
               \/ \E o \in due : SkipOrder(o) \/ AbortPass(o)
               \/ UNCHANGED vars
        PROVE  KeepsLinks(groups, groups')
    BY <1>2, <1>8 DEF Tick, EventStep, PublishEvent, UnpublishEvent, CancelEvent,
       SetVisibility, EventEdit, ScanDueOrders, WorkerCrash, SkipOrder, AbortPass, vars
  <1>9. QED
    BY <1>4, <1>5, <1>6, <1>7, <1>8 DEF Next, WorkerStep, HandleDueOrder

(* No step takes a hold from the order it was attached to: neither a second *)
(* order of the same buyer nor any worker, request or release.             *)
THEOREM HoldsKeepTheirOrder == Spec => HoldKeepsItsOrder
  <1> DEFINE Keep == \A g \in Groups : groups[g].order # None
                                        => groups'[g].order = groups[g].order
  <1>1. Init => NewGroupsAreUnlinked
    BY DEF Init, NoGroup, NewGroupsAreUnlinked
  <1>2. TypeOK /\ NewGroupsAreUnlinked /\ [Next]_vars => NewGroupsAreUnlinked' /\ Keep
    BY GroupsKeepLinks DEF KeepsLinks, NewGroupsAreUnlinked
  <1>3. QED
    BY <1>1, <1>2, TypeCorrect, PTL DEF Spec, HoldKeepsItsOrder

-----------------------------------------------------------------------------
(* Orders, their tickets and the requests in flight.  A confirmation may    *)
(* act on an order that was released after it read it, and a cancellation  *)
(* on one that was cancelled meanwhile: the tickets follow the status all  *)
(* the same, because the two kinds of stale request can never meet on one  *)
(* order.                                                                  *)

(* An order without tickets so far has not been confirmed, ...             *)
UnconfirmedHaveNoTickets ==
  \A o \in Orders : orders[o].status \in {"none", "pending"} => tickets[o] = "none"

(* ... one that a payment may confirm has never lost its tickets, ...      *)
ConfirmsMeetNoRevoked ==
  \A r \in Requests : reqs[r].kind = "confirm" =>
    /\ orders[reqs[r].order].status \in {"pending", "paid"} \cup Released
    /\ tickets[reqs[r].order] # "cancelled"

(* ... and one that was seen free is free still, or lost them.             *)
FreeStaysFree ==
  \A r \in Requests :
    (reqs[r].kind = "cancel" /\ reqs[r].seen = "free_confirmed") =>
      \/ orders[reqs[r].order].status = "free_confirmed"
      \/ /\ orders[reqs[r].order].status = "cancelled"
         /\ tickets[reqs[r].order] = "cancelled"

TicketLedger ==
  /\ TicketsFollowOrder
  /\ UnconfirmedHaveNoTickets
  /\ ConfirmsMeetNoRevoked
  /\ FreeStaysFree

(* A step that leaves orders, tickets and requests alone.                  *)
LEMMA TicketLedgerUntouched ==
  ASSUME TicketLedger, UNCHANGED <<orders, tickets, reqs>>
  PROVE  TicketLedger'
  BY DEF TicketLedger, TicketsFollowOrder, UnconfirmedHaveNoTickets,
     ConfirmsMeetNoRevoked, FreeStaysFree

(* Setting the status of one order.                                        *)
LEMMA SetStatus ==
  ASSUME TypeOK, NEW o \in Orders, NEW status,
         orders' = [orders EXCEPT ![o].status = status]
  PROVE  \A p \in Orders :
           orders'[p].status = IF p = o THEN status ELSE orders[p].status
  <1>1. orders[o] \in OrderRecord
    BY DEF TypeOK
  <1>2. [orders[o] EXCEPT !.status = status].status = status
    BY <1>1 DEF OrderRecord
  <1>3. QED
    BY <1>2 DEF TypeOK

LEMMA TicketLedgerPlace ==
  ASSUME Typed, TicketLedger, NEW o \in Orders, NEW rec,
         orders[o].status = "none",
         orders' = [orders EXCEPT ![o] = rec],
         UNCHANGED reqs,
         \/ rec.status = "pending" /\ UNCHANGED tickets
         \/ rec.status = "free_confirmed" /\ tickets' = [tickets EXCEPT ![o] = "valid"]
  PROVE  TicketLedger'
  <1>1. \A p \in Orders :
          orders'[p].status = IF p = o THEN rec.status ELSE orders[p].status
    BY DEF Typed, TypeOK
  <1>2. \A p \in Orders : p # o => tickets'[p] = tickets[p]
    BY DEF Typed, TypeOK
  <1>3. tickets[o] = "none"
    BY DEF TicketLedger, UnconfirmedHaveNoTickets
  <1>4. tickets'[o] = IF rec.status = "pending" THEN "none" ELSE "valid"
    BY <1>3 DEF Typed, TypeOK
  <1>5. TicketsFollowOrder'
    BY <1>1, <1>2, <1>4 DEF TicketLedger, TicketsFollowOrder
  <1>6. UnconfirmedHaveNoTickets'
    BY <1>1, <1>2, <1>4 DEF TicketLedger, UnconfirmedHaveNoTickets
  <1>7. ASSUME NEW r \in Requests,
               \/ reqs[r].kind = "confirm"
               \/ reqs[r].kind = "cancel" /\ reqs[r].seen = "free_confirmed"
        PROVE  reqs[r].order \in Orders /\ reqs[r].order # o
    BY <1>7 DEF Typed, BusyRequestsHaveOrders, TicketLedger, ConfirmsMeetNoRevoked,
       FreeStaysFree, Released
  <1>8. ConfirmsMeetNoRevoked' /\ FreeStaysFree'
    BY <1>1, <1>2, <1>7 DEF TicketLedger, ConfirmsMeetNoRevoked, FreeStaysFree
  <1>9. QED
    BY <1>5, <1>6, <1>8 DEF TicketLedger

(* No request starts on another order; one of them may end.                *)
RequestsEndOnly ==
  \A r \in Requests : reqs'[r] = reqs[r] \/ reqs'[r] = Idle

LEMMA FinishingEndsOnly ==
  ASSUME Typed, NEW kind, NEW r \in Requests, Finishing(kind, r)
  PROVE  RequestsEndOnly
  BY DEF Finishing, RequestsEndOnly, Typed, TypeOK

LEMMA TicketLedgerRelease ==
  ASSUME Typed, TicketLedger, NEW o \in Orders, NEW status \in Released,
         ReleaseOrder(o, status), UNCHANGED tickets, RequestsEndOnly
  PROVE  TicketLedger'
  <1>1. orders[o].status = "pending" /\ tickets[o] = "none"
    BY DEF ReleaseOrder, Releasable, TicketLedger, UnconfirmedHaveNoTickets
  <1>2. \A p \in Orders :
          orders'[p].status = IF p = o THEN status ELSE orders[p].status
    BY SetStatus DEF ReleaseOrder, Typed
  <1>3. TicketsFollowOrder' /\ UnconfirmedHaveNoTickets'
    BY <1>1, <1>2 DEF TicketLedger, TicketsFollowOrder, UnconfirmedHaveNoTickets, Released
  <1>4. ConfirmsMeetNoRevoked'
    BY <1>2 DEF RequestsEndOnly, Idle, Typed, BusyRequestsHaveOrders,
       TicketLedger, ConfirmsMeetNoRevoked
  <1>5. FreeStaysFree'
    BY <1>1, <1>2 DEF RequestsEndOnly, Idle, Typed, BusyRequestsHaveOrders,
       TicketLedger, FreeStaysFree
  <1>6. QED
    BY <1>3, <1>4, <1>5 DEF TicketLedger

LEMMA TicketLedgerCancelFree ==
  ASSUME Typed, TicketLedger, NEW r \in Requests, CancelFree(r)
  PROVE  TicketLedger'
  <1> DEFINE o == reqs[r].order
  <1>1. /\ o \in Orders
        /\ reqs[r].kind = "cancel" /\ reqs[r].seen = "free_confirmed"
    BY FinishingType DEF CancelFree, Finishing, Typed
  <1>2. RequestsEndOnly
    BY FinishingEndsOnly DEF CancelFree
  <1>3. orders' = [orders EXCEPT ![o].status = "cancelled"]
    BY DEF CancelFree
  <1>4. \A p \in Orders :
          orders'[p].status = IF p = o THEN "cancelled" ELSE orders[p].status
    <2> HIDE DEF o
    <2>1. TypeOK /\ o \in Orders
      BY <1>1 DEF Typed
    <2>2. QED
      BY <1>3, <2>1, SetStatus
  <1>5. \A p \in Orders :
          tickets'[p] = IF p = o THEN "cancelled" ELSE tickets[p]
    BY <1>1 DEF CancelFree, RevokeTickets, Typed, TypeOK
  <1>6. TicketsFollowOrder' /\ UnconfirmedHaveNoTickets'
    BY <1>4, <1>5 DEF TicketLedger, TicketsFollowOrder, UnconfirmedHaveNoTickets
  <1>7. \A x \in Requests : reqs[x].kind = "confirm" => reqs[x].order # o
    BY <1>1 DEF TicketLedger, ConfirmsMeetNoRevoked, FreeStaysFree, Released
  <1>8. \A x \in Requests : reqs[x].kind # "idle" => reqs[x].order \in Orders
    BY DEF Typed, BusyRequestsHaveOrders
  <1> HIDE DEF o
  <1>9. ConfirmsMeetNoRevoked'
    BY <1>2, <1>4, <1>5, <1>7, <1>8
    DEF RequestsEndOnly, Idle, TicketLedger, ConfirmsMeetNoRevoked
  <1>10. FreeStaysFree'
    BY <1>2, <1>4, <1>5, <1>8
    DEF RequestsEndOnly, Idle, TicketLedger, FreeStaysFree
  <1>11. QED
    BY <1>6, <1>9, <1>10 DEF TicketLedger

LEMMA TicketLedgerConfirm ==
  ASSUME Typed, TicketLedger, NEW r \in Requests, ConfirmPaid(r)
  PROVE  TicketLedger'
  <1> DEFINE o == reqs[r].order
  <1>1. o \in Orders /\ reqs[r].kind = "confirm"
    BY FinishingType DEF ConfirmPaid, Finishing, Typed
  <1>2. RequestsEndOnly
    BY FinishingEndsOnly DEF ConfirmPaid
  <1>3. orders' = [orders EXCEPT ![o].status = "paid"]
    BY DEF ConfirmPaid
  <1>4. \A p \in Orders :
          orders'[p].status = IF p = o THEN "paid" ELSE orders[p].status
    <2> HIDE DEF o
    <2>1. TypeOK /\ o \in Orders
      BY <1>1 DEF Typed
    <2>2. QED
      BY <1>3, <2>1, SetStatus
  <1>5. tickets[o] # "cancelled" /\ tickets[o] \in TicketStatus
    BY <1>1 DEF TicketLedger, ConfirmsMeetNoRevoked, Typed, TypeOK
  <1>6. \A p \in Orders : tickets'[p] = IF p = o THEN "valid" ELSE tickets[p]
    <2>1. tickets' = [tickets EXCEPT ![o] = IF @ = "none" THEN "valid" ELSE @]
      BY DEF ConfirmPaid
    <2>2. (IF tickets[o] = "none" THEN "valid" ELSE tickets[o]) = "valid"
      BY <1>5 DEF TicketStatus
    <2> HIDE DEF o
    <2>3. QED
      BY <1>1, <2>1, <2>2 DEF Typed, TypeOK
  <1>7. TicketsFollowOrder' /\ UnconfirmedHaveNoTickets'
    BY <1>4, <1>6 DEF TicketLedger, TicketsFollowOrder, UnconfirmedHaveNoTickets
  <1>8. \A x \in Requests :
          (reqs[x].kind = "cancel" /\ reqs[x].seen = "free_confirmed")
            => reqs[x].order # o
    BY <1>1 DEF TicketLedger, ConfirmsMeetNoRevoked, FreeStaysFree, Released
  <1>9. \A x \in Requests : reqs[x].kind # "idle" => reqs[x].order \in Orders
    BY DEF Typed, BusyRequestsHaveOrders
  <1> HIDE DEF o
  <1>10. ConfirmsMeetNoRevoked'
    BY <1>2, <1>4, <1>6, <1>9
    DEF RequestsEndOnly, Idle, TicketLedger, ConfirmsMeetNoRevoked
  <1>11. FreeStaysFree'
    BY <1>2, <1>4, <1>6, <1>8, <1>9
    DEF RequestsEndOnly, Idle, TicketLedger, FreeStaysFree
  <1>12. QED
    BY <1>7, <1>10, <1>11 DEF TicketLedger

LEMMA TicketLedgerBegin ==
  ASSUME Typed, TicketLedger, NEW r \in Requests, NEW o \in Orders,
         BeginCancel(r, o) \/ BeginConfirm(r, o)
  PROVE  TicketLedger'
  <1>1. UNCHANGED <<orders, tickets>>
    BY DEF BeginCancel, BeginConfirm, Begin
  <1>2. \A x \in Requests : x # r => reqs'[x] = reqs[x]
    BY DEF BeginCancel, BeginConfirm, Begin, Typed, TypeOK
  <1>3. /\ reqs'[r].order = o /\ reqs'[r].seen = orders[o].status
        /\ \/ reqs'[r].kind = "cancel"
           \/ reqs'[r].kind = "confirm" /\ orders[o].status = "pending"
    BY DEF BeginCancel, BeginConfirm, Begin, Typed, TypeOK
  <1>4. orders[o].status = "pending" => tickets[o] = "none"
    BY DEF TicketLedger, UnconfirmedHaveNoTickets
  <1>5. TicketsFollowOrder' /\ UnconfirmedHaveNoTickets'
    BY <1>1 DEF TicketLedger, TicketsFollowOrder, UnconfirmedHaveNoTickets
  <1>6. ConfirmsMeetNoRevoked'
    BY <1>1, <1>2, <1>3, <1>4 DEF TicketLedger, ConfirmsMeetNoRevoked
  <1>7. FreeStaysFree'
    BY <1>1, <1>2, <1>3 DEF TicketLedger, FreeStaysFree
  <1>8. QED
    BY <1>5, <1>6, <1>7 DEF TicketLedger

LEMMA TicketLedgerRequest ==
  ASSUME Typed, TicketLedger, RequestStep
  PROVE  TicketLedger'
  <1>1. ASSUME NEW r \in Requests, CancelPending(r)
        PROVE  TicketLedger'
    <2>1. reqs[r].order \in Orders
      BY <1>1, FinishingType DEF CancelPending, Typed
    <2>2. RequestsEndOnly
      BY <1>1, FinishingEndsOnly DEF CancelPending
    <2>3. "cancelled" \in Released
      BY DEF Released
    <2>4. ReleaseOrder(reqs[r].order, "cancelled") /\ UNCHANGED tickets
      BY <1>1 DEF CancelPending
    <2>5. QED
      BY <2>1, <2>2, <2>3, <2>4, TicketLedgerRelease
  <1>2. ASSUME NEW r \in Requests,
               CancelReleased(r) \/ CancelWithoutEffect(r) \/ ConfirmWithoutEffect(r)
        PROVE  TicketLedger'
    <2>1. RequestsEndOnly /\ UNCHANGED <<orders, tickets>>
      BY <1>2, FinishingEndsOnly
      DEF CancelReleased, CancelWithoutEffect, ConfirmWithoutEffect
    <2>2. QED
      BY <2>1 DEF RequestsEndOnly, Idle, TicketLedger, TicketsFollowOrder,
         UnconfirmedHaveNoTickets, ConfirmsMeetNoRevoked, FreeStaysFree
  <1>3. QED
    BY <1>1, <1>2, TicketLedgerBegin, TicketLedgerCancelFree, TicketLedgerConfirm
    DEF RequestStep

LEMMA TicketLedgerPlaceStep ==
  ASSUME Typed, TicketLedger, PlaceStep
  PROVE  TicketLedger'
  <1> SUFFICES ASSUME NEW u \in Users, NEW o \in Orders, NEW t \in EntryTimes,
                      \/ \E G \in SUBSET Groups :
                           \/ PlacePaidSeatOrder(u, o, G, t)
                           \/ PlaceFreeSeatOrder(u, o, G, t)
                      \/ \E q \in [TicketTypes -> 0..MaxPerOrder] :
                           \/ PlacePaidGAOrder(u, o, q, t)
                           \/ PlaceFreeGAOrder(u, o, q, t)
               PROVE  TicketLedger'
    BY DEF PlaceStep
  <1>1. PICK e, S, q, status :
          /\ orders[o].status = "none"
          /\ orders' = [orders EXCEPT ![o] = NewOrder(u, status, e, S, q)]
          /\ UNCHANGED reqs
          /\ \/ status = "pending" /\ UNCHANGED tickets
             \/ status = "free_confirmed" /\ tickets' = [tickets EXCEPT ![o] = "valid"]
    <2>1. ASSUME NEW G \in SUBSET Groups, PlacePaidSeatOrder(u, o, G, t)
          PROVE  \E e : /\ orders[o].status = "none" /\ UNCHANGED <<reqs, tickets>>
                        /\ orders' = [orders EXCEPT ![o] =
                             NewOrder(u, "pending", e, CartSeats(G), HeldOnly(G))]
      BY <2>1 DEF PlacePaidSeatOrder, SeatCart
    <2>2. ASSUME NEW G \in SUBSET Groups, PlaceFreeSeatOrder(u, o, G, t)
          PROVE  /\ orders[o].status = "none" /\ UNCHANGED reqs
                 /\ tickets' = [tickets EXCEPT ![o] = "valid"]
                 /\ orders' = [orders EXCEPT ![o] =
                      NewOrder(u, "free_confirmed", 0, CartSeats(G), HeldOnly(G))]
      BY <2>2 DEF PlaceFreeSeatOrder, SeatCart
    <2>3. ASSUME NEW q \in [TicketTypes -> 0..MaxPerOrder], PlacePaidGAOrder(u, o, q, t)
          PROVE  /\ orders[o].status = "none" /\ UNCHANGED <<reqs, tickets>>
                 /\ orders' = [orders EXCEPT ![o] =
                      NewOrder(u, "pending", t + HoldDuration, {}, q)]
      BY <2>3 DEF PlacePaidGAOrder, GACart
    <2>4. ASSUME NEW q \in [TicketTypes -> 0..MaxPerOrder], PlaceFreeGAOrder(u, o, q, t)
          PROVE  /\ orders[o].status = "none" /\ UNCHANGED reqs
                 /\ tickets' = [tickets EXCEPT ![o] = "valid"]
                 /\ orders' = [orders EXCEPT ![o] =
                      NewOrder(u, "free_confirmed", 0, {}, q)]
      BY <2>4 DEF PlaceFreeGAOrder, GACart
    <2>5. QED
      BY <2>1, <2>2, <2>3, <2>4
  <1>2. NewOrder(u, status, e, S, q).status = status
    BY DEF NewOrder
  <1>3. QED
    BY <1>1, <1>2, TicketLedgerPlace

LEMMA TicketLedgerStep == Typed /\ TicketLedger /\ [Next]_vars => TicketLedger'
  <1> SUFFICES ASSUME Typed, TicketLedger, [Next]_vars
               PROVE  TicketLedger'
    OBVIOUS
  <1>1. CASE Tick \/ EventStep \/ HoldStep \/ HoldExpiry \/ UNCHANGED vars
    <2>1. ASSUME NEW t, NEW u, NEW g, NEW tt, NEW S, CreateHold(u, g, tt, S, t)
          PROVE  UNCHANGED <<orders, tickets, reqs>>
      BY <2>1 DEF CreateHold
    <2>2. ASSUME NEW t, NEW u, NEW g, ReleaseHold(u, g, t)
          PROVE  UNCHANGED <<orders, tickets, reqs>>
      BY <2>2 DEF ReleaseHold
    <2>3. ASSUME NEW t, ExpireHolds(t)
          PROVE  UNCHANGED <<orders, tickets, reqs>>
      BY <2>3 DEF ExpireHolds
    <2>4. UNCHANGED <<orders, tickets, reqs>>
      BY <1>1, <2>1, <2>2, <2>3
      DEF Tick, EventStep, PublishEvent, UnpublishEvent, CancelEvent,
          SetVisibility, EventEdit, HoldStep, HoldExpiry, vars
    <2>5. QED
      BY <2>4, TicketLedgerUntouched
  <1>2. CASE PlaceStep
    BY <1>2, TicketLedgerPlaceStep
  <1>3. CASE RequestStep
    BY <1>3, TicketLedgerRequest
  <1>4. ASSUME NEW o \in Orders, FailPending(o) \/ ExpireOrder(o)
        PROVE  TicketLedger'
    <2>1. RequestsEndOnly /\ UNCHANGED tickets
      BY <1>4 DEF FailPending, ExpireOrder, RequestsEndOnly
    <2>2. PICK status \in Released : ReleaseOrder(o, status)
      BY <1>4 DEF FailPending, ExpireOrder, Released
    <2>3. QED
      BY <2>1, <2>2, TicketLedgerRelease
  <1>5. ASSUME \/ ScanDueOrders \/ WorkerCrash
               \/ \E o \in due : SkipOrder(o) \/ AbortPass(o)
        PROVE  TicketLedger'
    BY <1>5, TicketLedgerUntouched DEF ScanDueOrders, WorkerCrash, SkipOrder, AbortPass
  <1>6. due \subseteq Orders
    BY DEF Typed, TypeOK
  <1>7. QED
    BY <1>1, <1>2, <1>3, <1>4, <1>5, <1>6 DEF Next, WorkerStep, HandleDueOrder

(* Live tickets exactly for confirmed orders, for any number of stale       *)
(* confirmations, cancellations and expiries of one order, and for both     *)
(* seating modes: also where a release and a payment cross each other.     *)
THEOREM TicketsAlwaysFollow == Spec => []TicketsFollowOrder
  <1>1. Init => TicketLedger
    BY DEF Init, Idle, NoOrder, TicketLedger, TicketsFollowOrder,
       UnconfirmedHaveNoTickets, ConfirmsMeetNoRevoked, FreeStaysFree
  <1>2. TicketLedger => TicketsFollowOrder
    BY DEF TicketLedger
  <1>3. QED
    BY <1>1, <1>2, TypedInit, TypedStep, TicketLedgerStep, PTL DEF Spec

-----------------------------------------------------------------------------
(* What the steps of the handlers have in common: groups of one status get  *)
(* another one together with their rows, and their orders stay.            *)

Dropped == {"released", "expired"}

Kept(g) ==
  /\ groups'[g].user = groups[g].user
  /\ groups'[g].type = groups[g].type
  /\ groups'[g].expires = groups[g].expires

Moves(G, from, to) ==
  /\ G \subseteq Groups
  /\ \A g \in G : groups[g].status = from /\ groups'[g].status \in to
  /\ \A g \in Groups \ G : groups'[g].status = groups[g].status
  /\ \A g \in Groups : Kept(g)
  /\ \A g \in Groups, s \in Seats :
       rows'[g][s] = IF g \in G /\ rows[g][s] # "none"
                     THEN RowStatusOf(groups'[g].status) ELSE rows[g][s]

SameLinks == \A g \in Groups : groups'[g].order = groups[g].order

(* Nothing but the status of o.                                            *)
OnlyStatus(o, status) ==
  \A p \in Orders :
    /\ orders'[p].user = orders[p].user
    /\ orders'[p].seats = orders[p].seats
    /\ orders'[p].units = orders[p].units
    /\ orders'[p].status = IF p = o THEN status ELSE orders[p].status

GroupsIn(G, status) == {g \in G : groups[g].status = status}

LEMMA MovedGroup ==
  ASSUME NEW H \in [Groups -> GroupRecord], NEW G, NEW from, NEW to, NEW g \in Groups
  PROVE  LET h == MoveGroups(H, G, from, to)[g]
         IN /\ h.status = IF g \in G /\ H[g].status = from THEN to ELSE H[g].status
            /\ h.user = H[g].user /\ h.type = H[g].type
            /\ h.expires = H[g].expires /\ h.order = H[g].order
  <1>1. H[g] \in GroupRecord
    OBVIOUS
  <1>2. LET h == [H[g] EXCEPT !.status = to]
        IN /\ h.status = to /\ h.user = H[g].user /\ h.type = H[g].type
           /\ h.expires = H[g].expires /\ h.order = H[g].order
    BY <1>1 DEF GroupRecord
  <1>3. MoveGroups(H, G, from, to)[g]
          = IF g \in G /\ H[g].status = from THEN [H[g] EXCEPT !.status = to] ELSE H[g]
    BY DEF MoveGroups
  <1>4. QED
    BY <1>2, <1>3

(* The status of a group decides that of its rows.                         *)
LEMMA RowOfGroup ==
  ASSUME TypeOK, Ledger, NEW g \in Groups, NEW s \in Seats, rows[g][s] # "none"
  PROVE  /\ rows[g][s] = RowStatusOf(groups[g].status)
         /\ groups[g].status \in GroupStatus \ {"none"}
         /\ rows[g][s] = "held" <=> groups[g].status = "held"
         /\ rows[g][s] = "converted" <=> groups[g].status = "sold"
  <1>1. groups[g].status \in GroupStatus
    BY DEF TypeOK, GroupRecord
  <1>2. rows[g][s] = RowStatusOf(groups[g].status)
    BY DEF Ledger, Follows
  <1>3. QED
    BY <1>1, <1>2 DEF RowStatusOf, GroupStatus

LEMMA MoveIsMoves ==
  ASSUME TypeOK, Ledger, NEW G \in SUBSET Groups, NEW from \in {"held", "sold"},
         NEW to \in {"released", "expired", "sold"},
         rows' = MoveRows(rows, G, RowStatusOf(from), RowStatusOf(to)),
         groups' = MoveGroups(groups, G, from, to)
  PROVE  Moves(GroupsIn(G, from), from, {to}) /\ SameLinks
  <1>1. groups \in [Groups -> GroupRecord]
    BY DEF TypeOK
  <1>2. \A g \in Groups :
          /\ groups'[g].status = IF g \in GroupsIn(G, from) THEN to ELSE groups[g].status
          /\ Kept(g) /\ groups'[g].order = groups[g].order
    BY <1>1, MovedGroup DEF GroupsIn, Kept
  <1>3. ASSUME NEW g \in Groups, NEW s \in Seats
        PROVE  rows'[g][s] = IF g \in GroupsIn(G, from) /\ rows[g][s] # "none"
                             THEN RowStatusOf(groups'[g].status) ELSE rows[g][s]
    <2>1. rows'[g][s] = IF g \in G /\ rows[g][s] = RowStatusOf(from)
                        THEN RowStatusOf(to) ELSE rows[g][s]
      BY DEF MoveRows
    <2>2. RowStatusOf(from) # "none"
      BY DEF RowStatusOf
    <2>3. rows[g][s] # "none" => (rows[g][s] = RowStatusOf(from) <=> groups[g].status = from)
      BY RowOfGroup DEF RowStatusOf
    <2>4. g \in GroupsIn(G, from) => groups'[g].status = to
      BY <1>2
    <2>5. QED
      BY <2>1, <2>2, <2>3, <2>4 DEF GroupsIn
  <1>4. QED
    BY <1>2, <1>3 DEF Moves, SameLinks, GroupsIn

LEMMA StatusOnly ==
  ASSUME TypeOK, NEW o \in Orders, NEW status,
         orders' = [orders EXCEPT ![o].status = status]
  PROVE  OnlyStatus(o, status)
  <1>1. orders[o] \in OrderRecord
    BY DEF TypeOK
  <1>2. LET p == [orders[o] EXCEPT !.status = status]
        IN p.status = status /\ p.user = orders[o].user
           /\ p.seats = orders[o].seats /\ p.units = orders[o].units
    BY <1>1 DEF OrderRecord
  <1>3. QED
    BY <1>2 DEF TypeOK, OnlyStatus

(* Held seats are counted by the groups that are held.                     *)
LEMMA HeldOnlyHeld ==
  ASSUME TypeOK, Ledger, NEW G \in SUBSET Groups
  PROVE  HeldOnly(G) = HeldOnly(GroupsIn(G, "held"))
  <1>1. ASSUME NEW tt \in TicketTypes
        PROVE  HeldUnits(G, tt) = HeldUnits(GroupsIn(G, "held"), tt)
    <2>1. \A g \in G, s \in Seats : rows[g][s] = "held" => g \in GroupsIn(G, "held")
      BY RowOfGroup DEF GroupsIn
    <2>2. {p \in G \X Seats : rows[p[1]][p[2]] = "held" /\ groups[p[1]].type = tt}
            = {p \in GroupsIn(G, "held") \X Seats :
                 rows[p[1]][p[2]] = "held" /\ groups[p[1]].type = tt}
      BY <2>1 DEF GroupsIn
    <2>3. QED
      BY <2>2 DEF HeldUnits
  <1>2. QED
    BY <1>1 DEF HeldOnly

(* A hold that is given up, and a pass of the hold worker.                 *)
LEMMA ReleaseHoldMoves ==
  ASSUME TypeOK, Ledger, NEW t \in EntryTimes, NEW u, NEW g \in Groups, ReleaseHold(u, g, t)
  PROVE  \E G \in SUBSET Groups :
           Moves(G, "held", Dropped) /\ SameLinks /\ inv' = ReleaseAll(HeldOnly(G))
  <1> DEFINE late == Overdue(t)
             own == {h \in {g} : groups[h].status = "held" /\ groups[h].expires > t}
             R == MoveRows(rows, late, "held", "expired")
             H == MoveGroups(groups, late, "held", "expired")
             G == late \cup own
  <1>1. groups \in [Groups -> GroupRecord] /\ G \in SUBSET Groups
    BY DEF TypeOK, Overdue
  <1>2. H \in [Groups -> GroupRecord]
    BY <1>1, MoveGroupsType DEF GroupStatus
  <1>3. /\ inv' = ReleaseAll(HeldOnly(G))
        /\ rows' = MoveRows(R, own, "held", "released")
        /\ groups' = MoveGroups(H, own, "held", "released")
    BY DEF ReleaseHold
  <1>4. late \cap own = {}
    <2>1. g \in late => groups[g].expires \in Nat /\ t \in Nat
      BY <1>1, EntryTimesAreNat DEF GroupRecord
    <2>2. QED
      BY <2>1 DEF Overdue
  <1>5. \A h \in G : groups[h].status = "held"
    BY DEF Overdue
  <1> HIDE DEF late, own, H
  <1>6. ASSUME NEW h \in Groups
        PROVE  /\ H[h].status = IF h \in late THEN "expired" ELSE groups[h].status
               /\ groups'[h].status = IF h \in late THEN "expired" ELSE
                                      IF h \in own THEN "released" ELSE groups[h].status
               /\ Kept(h) /\ groups'[h].order = groups[h].order
    <2>1. LET x == MoveGroups(groups, late, "held", "expired")[h]
          IN /\ x.status = IF h \in late /\ groups[h].status = "held"
                           THEN "expired" ELSE groups[h].status
             /\ x.user = groups[h].user /\ x.type = groups[h].type
             /\ x.expires = groups[h].expires /\ x.order = groups[h].order
      BY <1>1, MovedGroup
    <2>2. LET x == MoveGroups(H, own, "held", "released")[h]
          IN /\ x.status = IF h \in own /\ H[h].status = "held" THEN "released" ELSE H[h].status
             /\ x.user = H[h].user /\ x.type = H[h].type
             /\ x.expires = H[h].expires /\ x.order = H[h].order
      BY <1>2, MovedGroup
    <2>3. H[h].status = IF h \in late THEN "expired" ELSE groups[h].status
      BY <1>5, <2>1 DEF H
    <2>4. h \in own => h \notin late /\ groups[h].status = "held"
      BY <1>4, <1>5
    <2>5. /\ H[h].user = groups[h].user /\ H[h].type = groups[h].type
          /\ H[h].expires = groups[h].expires /\ H[h].order = groups[h].order
      BY <2>1 DEF H
    <2>6. QED
      BY <1>3, <2>2, <2>3, <2>4, <2>5 DEF Kept
  <1>7. ASSUME NEW h \in Groups, NEW s \in Seats
        PROVE  rows'[h][s] = IF h \in G /\ rows[h][s] # "none"
                             THEN RowStatusOf(groups'[h].status) ELSE rows[h][s]
    <2>1. rows'[h][s] = IF h \in own /\ R[h][s] = "held" THEN "released" ELSE R[h][s]
      BY <1>3 DEF MoveRows
    <2>2. R[h][s] = IF h \in late /\ rows[h][s] = "held" THEN "expired" ELSE rows[h][s]
      BY DEF MoveRows
    <2>3. h \in G /\ rows[h][s] # "none" => rows[h][s] = "held"
      BY <1>5, RowOfGroup
    <2>4. h \in G => RowStatusOf(groups'[h].status) = IF h \in late THEN "expired" ELSE "released"
      BY <1>6 DEF RowStatusOf
    <2>5. h \in G /\ rows[h][s] = "none" => rows'[h][s] = "none"
      BY <2>1, <2>2
    <2>6. QED
      BY <1>4, <2>1, <2>2, <2>3, <2>4, <2>5
  <1>8. Moves(G, "held", Dropped)
    BY <1>1, <1>5, <1>6, <1>7 DEF Moves, Dropped
  <1>9. SameLinks
    BY <1>6 DEF SameLinks
  <1>10. QED
    BY <1>1, <1>3, <1>8, <1>9

LEMMA ExpireHoldsMoves ==
  ASSUME TypeOK, Ledger, NEW t, ExpireHolds(t)
  PROVE  \E G \in SUBSET Groups :
           Moves(G, "held", Dropped) /\ SameLinks /\ inv' = ReleaseAll(HeldOnly(G))
  <1>1. PICK late \in SUBSET Overdue(t) :
          /\ inv' = ReleaseAll(HeldOnly(late))
          /\ rows' = MoveRows(rows, late, "held", "expired")
          /\ groups' = MoveGroups(groups, late, "held", "expired")
    BY DEF ExpireHolds
  <1>2. late \in SUBSET Groups /\ GroupsIn(late, "held") = late
    BY DEF Overdue, GroupsIn
  <1>3. RowStatusOf("held") = "held" /\ RowStatusOf("expired") = "expired"
    BY DEF RowStatusOf
  <1>4. Moves(GroupsIn(late, "held"), "held", {"expired"}) /\ SameLinks
    BY <1>1, <1>2, <1>3, MoveIsMoves
  <1>5. Moves(late, "held", Dropped)
    BY <1>2, <1>4 DEF Moves, Dropped
  <1>6. QED
    BY <1>1, <1>2, <1>4, <1>5

(* What giving back, paying and cancelling an order do to its seats.       *)
LEMMA ReleaseOrderMoves ==
  ASSUME TypeOK, Ledger, NEW o \in Orders, NEW status, ReleaseOrder(o, status)
  PROVE  /\ orders[o].status = "pending"
         /\ Moves(GroupsIn(GroupsOf(o), "held"), "held", Dropped) /\ SameLinks
         /\ OnlyStatus(o, status)
  <1>1. RowStatusOf("held") = "held" /\ RowStatusOf("released") = "released"
    BY DEF RowStatusOf
  <1>2. Moves(GroupsIn(GroupsOf(o), "held"), "held", {"released"}) /\ SameLinks
    BY <1>1, GroupsOfAreGroups, MoveIsMoves DEF ReleaseOrder
  <1>3. Moves(GroupsIn(GroupsOf(o), "held"), "held", Dropped)
    BY <1>2 DEF Moves, Dropped
  <1>4. QED
    BY <1>2, <1>3, StatusOnly DEF ReleaseOrder, Releasable

LEMMA ConfirmMoves ==
  ASSUME Typed, Ledger, NEW r \in Requests, ConfirmPaid(r)
  PROVE  LET o == reqs[r].order
         IN /\ o \in Orders /\ reqs[r].kind = "confirm"
            /\ \A g \in GroupsOf(o) : groups[g].status = "held"
            /\ \A g \in GroupsOf(o) : groups[g].user = orders[o].user
            /\ Moves(GroupsOf(o), "held", {"sold"}) /\ SameLinks
            /\ OnlyStatus(o, "paid")
            /\ inv' = ConfirmAll(OwnUnits(o))
  <1> DEFINE o == reqs[r].order
  <1>1. o \in Orders /\ reqs[r].kind = "confirm" /\ TypeOK
    BY FinishingType DEF ConfirmPaid, Finishing, Typed
  <1>2. /\ inv' = ConfirmAll(OwnUnits(o))
        /\ rows' = MoveRows(rows, GroupsOf(o), "held", "converted")
        /\ groups' = MoveGroups(groups, GroupsOf(o), "held", "sold")
        /\ orders' = [orders EXCEPT ![o].status = "paid"]
        /\ \A g \in GroupsOf(o) : groups[g].status = "held" /\ groups[g].user = orders[o].user
    BY DEF ConfirmPaid, Confirmable
  <1> HIDE DEF o
  <1>3. RowStatusOf("held") = "held" /\ RowStatusOf("sold") = "converted"
    BY DEF RowStatusOf
  <1>4. GroupsIn(GroupsOf(o), "held") = GroupsOf(o)
    BY <1>2 DEF GroupsIn
  <1>5. Moves(GroupsIn(GroupsOf(o), "held"), "held", {"sold"}) /\ SameLinks
    BY <1>1, <1>2, <1>3, GroupsOfAreGroups, MoveIsMoves
  <1>6. OnlyStatus(o, "paid")
    BY <1>1, <1>2, StatusOnly
  <1>7. QED
    BY <1>1, <1>2, <1>4, <1>5, <1>6 DEF o

LEMMA CancelFreeMoves ==
  ASSUME Typed, Ledger, NEW r \in Requests, CancelFree(r)
  PROVE  LET o == reqs[r].order
         IN /\ o \in Orders /\ reqs[r].kind = "cancel" /\ reqs[r].seen = "free_confirmed"
            /\ Moves(GroupsIn(GroupsOf(o), "sold"), "sold", Dropped) /\ SameLinks
            /\ OnlyStatus(o, "cancelled")
            /\ inv' = [tt \in TicketTypes |-> Refund(inv[tt], orders[o].units[tt])]
            /\ \A g \in GroupsOf(o), s \in Seats : rows[g][s] # "none" => rows[g][s] = "converted"
  <1> DEFINE o == reqs[r].order
  <1>1. /\ o \in Orders /\ reqs[r].kind = "cancel" /\ reqs[r].seen = "free_confirmed"
        /\ TypeOK
    BY FinishingType DEF CancelFree, Finishing, Typed
  <1>2. /\ inv' = [tt \in TicketTypes |-> Refund(inv[tt], orders[o].units[tt])]
        /\ rows' = MoveRows(rows, GroupsOf(o), "converted", "released")
        /\ groups' = MoveGroups(groups, GroupsOf(o), "sold", "released")
        /\ orders' = [orders EXCEPT ![o].status = "cancelled"]
        /\ Refundables(o)
    BY DEF CancelFree
  <1> HIDE DEF o
  <1>3. RowStatusOf("sold") = "converted" /\ RowStatusOf("released") = "released"
    BY DEF RowStatusOf
  <1>4. Moves(GroupsIn(GroupsOf(o), "sold"), "sold", {"released"}) /\ SameLinks
    BY <1>1, <1>2, <1>3, GroupsOfAreGroups, MoveIsMoves
  <1>5. Moves(GroupsIn(GroupsOf(o), "sold"), "sold", Dropped)
    BY <1>4 DEF Moves, Dropped
  <1>6. OnlyStatus(o, "cancelled")
    BY <1>1, <1>2, StatusOnly
  <1>7. \A g \in GroupsOf(o), s \in Seats : rows[g][s] # "none" => rows[g][s] = "converted"
    BY <1>2 DEF Refundables, RowsOf
  <1>8. QED
    BY <1>1, <1>2, <1>4, <1>5, <1>6, <1>7 DEF o

(* A new hold: the groups that have run out go first.                      *)
LEMMA CreateHoldMoves ==
  ASSUME TypeOK, Ledger, NEW t \in EntryTimes, NEW u \in Users, NEW g \in Groups,
         NEW tt \in TicketTypes, NEW S \in SUBSET Seats, CreateHold(u, g, tt, S, t)
  PROVE  /\ groups[g].status = "none" /\ g \notin Overdue(t)
         /\ \A s \in Seats : rows[g][s] = "none"
         /\ groups'[g] = [status |-> "held", user |-> u, type |-> tt,
                          expires |-> t + HoldDuration, order |-> None]
         /\ \A s \in Seats : rows'[g][s] = IF s \in S THEN "held" ELSE "none"
         /\ \A h \in Groups \ {g} :
              /\ Kept(h) /\ groups'[h].order = groups[h].order
              /\ groups'[h].status = IF h \in Overdue(t) THEN "expired" ELSE groups[h].status
              /\ \A s \in Seats :
                   rows'[h][s] = IF h \in Overdue(t) /\ rows[h][s] # "none"
                                 THEN "expired" ELSE rows[h][s]
  <1> DEFINE late == Overdue(t)
             R == MoveRows(rows, late, "held", "expired")
             H == MoveGroups(groups, late, "held", "expired")
             row == [s \in Seats |-> IF s \in S THEN "held" ELSE "none"]
             group == [status |-> "held", user |-> u, type |-> tt,
                       expires |-> t + HoldDuration, order |-> None]
  <1>1. /\ rows' = [R EXCEPT ![g] = row] /\ groups' = [H EXCEPT ![g] = group]
        /\ groups[g].status = "none"
    BY DEF CreateHold
  <1>2. DOMAIN R = Groups /\ DOMAIN H = Groups /\ groups \in [Groups -> GroupRecord]
    BY DEF MoveRows, MoveGroups, TypeOK
  <1>3. \A h \in late : h \in Groups /\ groups[h].status = "held"
    BY DEF Overdue
  <1>4. ASSUME NEW s \in Seats
        PROVE  rows[g][s] = "none"
    BY <1>1, RowOfGroup
  <1>5. ASSUME NEW h \in Groups \ {g}
        PROVE  /\ Kept(h) /\ groups'[h].order = groups[h].order
               /\ groups'[h].status = IF h \in late THEN "expired" ELSE groups[h].status
               /\ \A s \in Seats :
                    rows'[h][s] = IF h \in late /\ rows[h][s] # "none"
                                  THEN "expired" ELSE rows[h][s]
    <2>1. groups'[h] = H[h] /\ rows'[h] = R[h]
      BY <1>1, <1>2
    <2>2. /\ H[h].status = IF h \in late /\ groups[h].status = "held"
                           THEN "expired" ELSE groups[h].status
          /\ H[h].user = groups[h].user /\ H[h].type = groups[h].type
          /\ H[h].expires = groups[h].expires /\ H[h].order = groups[h].order
      BY <1>2, MovedGroup
    <2>3. \A s \in Seats : R[h][s] = IF h \in late /\ rows[h][s] = "held"
                                     THEN "expired" ELSE rows[h][s]
      BY DEF MoveRows
    <2>4. \A s \in Seats : h \in late /\ rows[h][s] # "none" => rows[h][s] = "held"
      BY <1>3, RowOfGroup
    <2> HIDE DEF H, R
    <2>5. QED
      BY <1>3, <2>1, <2>2, <2>3, <2>4 DEF Kept
  <1>6. groups'[g] = group /\ rows'[g] = row
    BY <1>1, <1>2
  <1>7. QED
    BY <1>1, <1>3, <1>4, <1>5, <1>6

LEMMA LinkedGroup ==
  ASSUME NEW H \in [Groups -> GroupRecord], NEW G, NEW o, NEW g \in Groups
  PROVE  LET h == LinkOrder(H, G, o)[g]
         IN /\ h.order = IF g \in G THEN o ELSE H[g].order
            /\ h.user = H[g].user /\ h.type = H[g].type
            /\ h.expires = H[g].expires /\ h.status = H[g].status
  <1>1. H[g] \in GroupRecord
    OBVIOUS
  <1>2. LET h == [H[g] EXCEPT !.order = o]
        IN /\ h.order = o /\ h.user = H[g].user /\ h.type = H[g].type
           /\ h.expires = H[g].expires /\ h.status = H[g].status
    BY <1>1 DEF GroupRecord
  <1>3. LinkOrder(H, G, o)[g] = IF g \in G THEN [H[g] EXCEPT !.order = o] ELSE H[g]
    BY DEF LinkOrder
  <1>4. QED
    BY <1>2, <1>3

NewLinks(G, o) ==
  \A g \in Groups : groups'[g].order = IF g \in G THEN o ELSE groups[g].order

PlacesOrder(o, u, status, S, q) ==
  /\ orders[o].status = "none"
  /\ \A p \in Orders \ {o} : orders'[p] = orders[p]
  /\ orders'[o].user = u /\ orders'[o].status = status
  /\ orders'[o].seats = S /\ orders'[o].units = q

LEMMA PaidSeatsMove ==
  ASSUME TypeOK, Ledger, NEW u \in Users, NEW o \in Orders, NEW t,
         NEW G \in SUBSET Groups, PlacePaidSeatOrder(u, o, G, t)
  PROVE  /\ SeatCart(u, o, G, t)
         /\ PlacesOrder(o, u, "pending", CartSeats(G), HeldOnly(G))
         /\ Moves({}, "held", {}) /\ NewLinks(G, o)
         /\ UNCHANGED <<clock, inv, tickets, reqs>>
  <1>1. PICK e : orders' = [orders EXCEPT ![o] =
                              NewOrder(u, "pending", e, CartSeats(G), HeldOnly(G))]
    BY DEF PlacePaidSeatOrder
  <1>2. PlacesOrder(o, u, "pending", CartSeats(G), HeldOnly(G))
    BY <1>1 DEF PlacePaidSeatOrder, SeatCart, PlacesOrder, NewOrder, TypeOK
  <1>3. groups' = LinkOrder(groups, G, o) /\ rows' = rows /\ groups \in [Groups -> GroupRecord]
    BY DEF PlacePaidSeatOrder, TypeOK
  <1>4. \A g \in Groups :
          /\ groups'[g].order = IF g \in G THEN o ELSE groups[g].order
          /\ groups'[g].status = groups[g].status /\ Kept(g)
    BY <1>3, LinkedGroup DEF Kept
  <1>5. Moves({}, "held", {}) /\ NewLinks(G, o)
    BY <1>3, <1>4 DEF Moves, NewLinks
  <1>6. QED
    BY <1>2, <1>5 DEF PlacePaidSeatOrder

LEMMA FreeSeatsMove ==
  ASSUME TypeOK, Ledger, NEW u \in Users, NEW o \in Orders, NEW t,
         NEW G \in SUBSET Groups, PlaceFreeSeatOrder(u, o, G, t)
  PROVE  /\ SeatCart(u, o, G, t)
         /\ PlacesOrder(o, u, "free_confirmed", CartSeats(G), HeldOnly(G))
         /\ Moves(G, "held", {"sold"}) /\ NewLinks(G, o)
         /\ inv' = ConfirmAll(HeldOnly(G))
         /\ UNCHANGED <<clock, reqs>>
  <1> DEFINE H == LinkOrder(groups, G, o)
  <1>1. PlacesOrder(o, u, "free_confirmed", CartSeats(G), HeldOnly(G))
    BY DEF PlaceFreeSeatOrder, SeatCart, PlacesOrder, NewOrder, TypeOK
  <1>2. /\ rows' = MoveRows(rows, G, "held", "converted")
        /\ groups' = MoveGroups(H, G, "held", "sold")
        /\ \A g \in G : groups[g].status = "held"
    BY DEF PlaceFreeSeatOrder, SeatCart
  <1>3. groups \in [Groups -> GroupRecord] /\ H \in [Groups -> GroupRecord]
    BY LinkOrderType DEF TypeOK
  <1>4. ASSUME NEW g \in Groups
        PROVE  /\ groups'[g].status = IF g \in G THEN "sold" ELSE groups[g].status
               /\ Kept(g) /\ groups'[g].order = IF g \in G THEN o ELSE groups[g].order
    <2>1. /\ H[g].order = IF g \in G THEN o ELSE groups[g].order
          /\ H[g].user = groups[g].user /\ H[g].type = groups[g].type
          /\ H[g].expires = groups[g].expires /\ H[g].status = groups[g].status
      BY <1>3, LinkedGroup
    <2> HIDE DEF H
    <2>2. LET h == MoveGroups(H, G, "held", "sold")[g]
          IN /\ h.status = IF g \in G /\ H[g].status = "held" THEN "sold" ELSE H[g].status
             /\ h.user = H[g].user /\ h.type = H[g].type
             /\ h.expires = H[g].expires /\ h.order = H[g].order
      BY <1>3, MovedGroup
    <2>3. QED
      BY <1>2, <2>1, <2>2 DEF Kept
  <1>5. ASSUME NEW g \in Groups, NEW s \in Seats
        PROVE  rows'[g][s] = IF g \in G /\ rows[g][s] # "none"
                             THEN RowStatusOf(groups'[g].status) ELSE rows[g][s]
    <2>1. rows'[g][s] = IF g \in G /\ rows[g][s] = "held" THEN "converted" ELSE rows[g][s]
      BY <1>2 DEF MoveRows
    <2>2. g \in G /\ rows[g][s] # "none" => rows[g][s] = "held"
      BY <1>2, RowOfGroup
    <2>3. g \in G => RowStatusOf(groups'[g].status) = "converted"
      BY <1>4 DEF RowStatusOf
    <2>4. QED
      BY <2>1, <2>2, <2>3
  <1>6. Moves(G, "held", {"sold"}) /\ NewLinks(G, o)
    BY <1>2, <1>4, <1>5 DEF Moves, NewLinks
  <1>7. QED
    BY <1>1, <1>6 DEF PlaceFreeSeatOrder

-----------------------------------------------------------------------------
(* Orders and their hold groups.  A group of an order is held only while    *)
(* the order is pending and sold exactly while it is paid or free_confirmed,*)
(* and the items of an order are the rows of its groups.                   *)

Confirmed == {"paid", "free_confirmed"}

LinkOK(g) ==
  /\ groups[g].status = "none" => groups[g].order = None
  /\ groups[g].status # "none" => groups[g].user \in Users /\ groups[g].type \in TicketTypes
  /\ groups[g].order = None => groups[g].status # "sold"
  /\ groups[g].order # None =>
       LET o == orders[groups[g].order] IN
       /\ o.status # "none" /\ groups[g].user = o.user
       /\ groups[g].status = "held" => o.status = "pending"
       /\ groups[g].status = "sold" <=> o.status \in Confirmed

ItemsOK(o) ==
  /\ \A s \in Seats : s \in orders[o].seats
                        <=> \E g \in Groups : groups[g].order = o /\ rows[g][s] # "none"
  /\ Assigned /\ orders[o].status # "none" => orders[o].seats # {}

Sales == (\A g \in Groups : LinkOK(g)) /\ (\A o \in Orders : ItemsOK(o))

LEMMA GroupFacts ==
  ASSUME TypeOK, NEW g \in Groups
  PROVE  /\ groups[g].status \in GroupStatus /\ groups[g].order \in Orders \cup {None}
         /\ groups[g].expires \in Nat
  BY DEF TypeOK, GroupRecord

(* Groups that are moved, of orders that stay or move with them.           *)
LEMMA SalesMove ==
  ASSUME TypeOK, Ledger, Sales, NEW G, NEW from, NEW to \in SUBSET (Dropped \cup {"sold"}),
         from \in {"held", "sold"},
         Moves(G, from, to), SameLinks,
         \A o \in Orders : /\ orders'[o].user = orders[o].user
                           /\ orders'[o].seats = orders[o].seats
                           /\ (orders'[o].status = "none") = (orders[o].status = "none"),
         \A g \in Groups : groups[g].order # None =>
           /\ groups'[g].status = "held" => orders'[groups[g].order].status = "pending"
           /\ groups'[g].status = "sold" <=> orders'[groups[g].order].status \in Confirmed,
         \A g \in G : groups[g].order = None => groups'[g].status # "sold"
  PROVE  Sales'
  <1>1. ASSUME NEW g \in Groups
        PROVE  LinkOK(g)'
    <2>1. /\ Kept(g) /\ groups'[g].order = groups[g].order /\ LinkOK(g)
          /\ groups[g].order \in Orders \cup {None}
      BY GroupFacts DEF Moves, SameLinks, Sales
    <2>2. /\ g \in G => groups[g].status = from /\ groups'[g].status \in to
          /\ g \notin G => groups'[g].status = groups[g].status
      BY DEF Moves
    <2>3. (groups'[g].status = "none") = (groups[g].status = "none")
      BY <2>2 DEF Dropped
    <2>4. groups'[g].order = None => groups'[g].status # "sold"
      BY <2>1, <2>2 DEF LinkOK
    <2>5. groups[g].order # None => groups[g].order \in Orders
      BY <2>1
    <2>6. groups[g].order # None =>
            /\ orders'[groups[g].order].status # "none"
            /\ orders'[groups[g].order].user = orders[groups[g].order].user
      BY <2>1, <2>5 DEF LinkOK
    <2>7. QED
      BY <2>1, <2>3, <2>4, <2>5, <2>6 DEF LinkOK, Kept
  <1>2. ASSUME NEW o \in Orders
        PROVE  ItemsOK(o)'
    <2>1. ASSUME NEW g \in Groups, NEW s \in Seats
          PROVE  (rows'[g][s] = "none") = (rows[g][s] = "none")
      <3>1. g \in G => groups'[g].status \in Dropped \cup {"sold"}
        BY DEF Moves
      <3>2. g \in G => RowStatusOf(groups'[g].status) # "none"
        BY <3>1 DEF Dropped, RowStatusOf
      <3>3. QED
        BY <3>2 DEF Moves
    <2>2. \A g \in Groups : groups'[g].order = groups[g].order
      BY DEF SameLinks
    <2>3. ItemsOK(o)
      BY DEF Sales
    <2>4. QED
      BY <2>1, <2>2, <2>3 DEF ItemsOK
  <1>3. QED
    BY <1>1, <1>2 DEF Sales

LEMMA SalesUntouched ==
  ASSUME Sales, UNCHANGED <<groups, rows, orders>>
  PROVE  Sales'
  BY DEF Sales, LinkOK, ItemsOK

LEMMA SalesHoldsEnd ==
  ASSUME TypeOK, Ledger, Sales, NEW G, Moves(G, "held", Dropped), SameLinks, UNCHANGED orders
  PROVE  Sales'
  <1>1. ASSUME NEW g \in Groups, groups[g].order # None
        PROVE  /\ groups'[g].status = "held" => orders'[groups[g].order].status = "pending"
               /\ groups'[g].status = "sold" <=> orders'[groups[g].order].status \in Confirmed
    <2>1. LinkOK(g)
      BY DEF Sales
    <2>2. /\ g \in G => groups[g].status = "held" /\ groups'[g].status \in Dropped
          /\ g \notin G => groups'[g].status = groups[g].status
      BY DEF Moves
    <2>3. QED
      BY <1>1, <2>1, <2>2 DEF LinkOK, Dropped
  <1>2. \A g \in G : groups'[g].status # "sold"
    BY DEF Moves, Dropped
  <1>3. QED
    BY <1>1, <1>2, SalesMove

LEMMA SalesRelease ==
  ASSUME TypeOK, Ledger, Sales, NEW o \in Orders, NEW status \in Released,
         ReleaseOrder(o, status)
  PROVE  Sales'
  <1> DEFINE G == GroupsIn(GroupsOf(o), "held")
  <1>1. /\ orders[o].status = "pending" /\ Moves(G, "held", Dropped) /\ SameLinks
        /\ OnlyStatus(o, status)
    BY ReleaseOrderMoves
  <1>2. ASSUME NEW g \in Groups, groups[g].order # None
        PROVE  /\ groups'[g].status = "held" => orders'[groups[g].order].status = "pending"
               /\ groups'[g].status = "sold" <=> orders'[groups[g].order].status \in Confirmed
    <2>1. LinkOK(g) /\ groups[g].order \in Orders
      BY <1>2, GroupFacts DEF Sales
    <2>2. /\ g \in G => groups[g].status = "held" /\ groups'[g].status \in Dropped
          /\ g \notin G => groups'[g].status = groups[g].status
      BY <1>1 DEF Moves
    <2>3. groups[g].order = o => groups'[g].status \notin {"held", "sold"}
      BY <1>1, <1>2, <2>1, <2>2 DEF GroupsIn, GroupsOf, LinkOK, Confirmed, Dropped
    <2>4. groups[g].order # o => g \notin G
      BY DEF GroupsIn, GroupsOf
    <2>5. QED
      BY <1>1, <1>2, <2>1, <2>2, <2>3, <2>4 DEF OnlyStatus, LinkOK, Confirmed, Released
  <1>3. \A g \in G : groups'[g].status # "sold"
    BY <1>1 DEF Moves, Dropped
  <1> HIDE DEF G
  <1>4. \A p \in Orders : /\ orders'[p].user = orders[p].user
                          /\ orders'[p].seats = orders[p].seats
                          /\ (orders'[p].status = "none") = (orders[p].status = "none")
    BY <1>1 DEF OnlyStatus, Released
  <1>5. QED
    BY <1>1, <1>2, <1>3, <1>4, SalesMove

(* A confirmation that finds its holds finds its order pending, however     *)
(* long ago it read it.                                                    *)
LEMMA ConfirmsPendingSeats ==
  ASSUME Typed, Sales, TicketLedger, NEW r \in Requests, ConfirmPaid(r), Ledger
  PROVE  LET o == reqs[r].order
         IN /\ \A g \in GroupsOf(o) : groups[g].order = o /\ o # None
            /\ GroupsOf(o) # {} \/ Assigned => orders[o].status = "pending"
            /\ orders[o].status \in {"pending", "paid"} \cup Released
  <1> DEFINE o == reqs[r].order
  <1>1. o \in Orders /\ reqs[r].kind = "confirm" /\ \A g \in GroupsOf(o) : groups[g].status = "held"
    BY ConfirmMoves
  <1>2. orders[o].status \in {"pending", "paid"} \cup Released
    BY <1>1 DEF TicketLedger, ConfirmsMeetNoRevoked
  <1> HIDE DEF o
  <1>3. o # None
    BY <1>1, ConstantsAssumption
  <1>4. \A g \in GroupsOf(o) : g \in Groups /\ groups[g].order = o /\ LinkOK(g)
    BY DEF GroupsOf, Sales
  <1>5. GroupsOf(o) # {} => orders[o].status = "pending"
    BY <1>1, <1>3, <1>4 DEF LinkOK
  <1>6. Assigned => GroupsOf(o) # {}
    <2>1. SUFFICES ASSUME Assigned PROVE GroupsOf(o) # {}
      OBVIOUS
    <2>2. ItemsOK(o) /\ orders[o].status # "none" /\ orders[o].seats \subseteq Seats
      BY <1>1, <1>2 DEF Sales, Released, Typed, TypeOK, OrderRecord
    <2>3. PICK s \in Seats : s \in orders[o].seats
      BY <2>1, <2>2 DEF ItemsOK
    <2>4. QED
      BY <2>2, <2>3 DEF ItemsOK, GroupsOf
  <1>7. QED
    BY <1>2, <1>3, <1>4, <1>5, <1>6 DEF o

LEMMA SalesConfirm ==
  ASSUME Typed, Ledger, Sales, TicketLedger, NEW r \in Requests, ConfirmPaid(r)
  PROVE  Sales'
  <1> DEFINE o == reqs[r].order
  <1>1. /\ o \in Orders /\ Moves(GroupsOf(o), "held", {"sold"}) /\ SameLinks
        /\ OnlyStatus(o, "paid") /\ \A g \in GroupsOf(o) : groups[g].status = "held"
    BY ConfirmMoves
  <1>2. /\ \A g \in GroupsOf(o) : groups[g].order = o /\ o # None
        /\ orders[o].status \in {"pending", "paid"} \cup Released
    BY ConfirmsPendingSeats
  <1> HIDE DEF o
  <1>3. ASSUME NEW g \in Groups, groups[g].order # None
        PROVE  /\ groups'[g].status = "held" => orders'[groups[g].order].status = "pending"
               /\ groups'[g].status = "sold" <=> orders'[groups[g].order].status \in Confirmed
    <2>1. LinkOK(g) /\ groups[g].order \in Orders
      BY <1>3, GroupFacts DEF Sales, Typed
    <2>2. CASE groups[g].order = o
      <3>1. groups'[g].status = "sold"
        BY <1>1, <2>2 DEF Moves, GroupsOf
      <3>2. QED
        BY <1>1, <2>2, <3>1 DEF OnlyStatus, Confirmed
    <2>3. CASE groups[g].order # o
      <3>1. groups'[g].status = groups[g].status
        BY <1>1, <2>3 DEF Moves, GroupsOf
      <3>2. QED
        BY <1>1, <1>3, <2>1, <2>3, <3>1 DEF OnlyStatus, LinkOK
    <2>4. QED
      BY <2>2, <2>3
  <1>4. \A g \in GroupsOf(o) : groups[g].order # None
    BY <1>2
  <1>5. \A p \in Orders : /\ orders'[p].user = orders[p].user
                          /\ orders'[p].seats = orders[p].seats
                          /\ (orders'[p].status = "none") = (orders[p].status = "none")
    BY <1>1, <1>2 DEF OnlyStatus, Released
  <1>6. QED
    BY <1>1, <1>3, <1>4, <1>5, SalesMove DEF Typed

LEMMA SalesCancelFree ==
  ASSUME Typed, Ledger, Sales, TicketLedger, NEW r \in Requests, CancelFree(r)
  PROVE  Sales'
  <1> DEFINE o == reqs[r].order
             G == GroupsIn(GroupsOf(o), "sold")
  <1>1. /\ o \in Orders /\ reqs[r].kind = "cancel" /\ reqs[r].seen = "free_confirmed"
        /\ Moves(G, "sold", Dropped) /\ SameLinks /\ OnlyStatus(o, "cancelled")
    BY CancelFreeMoves
  <1>2. orders[o].status \in {"free_confirmed", "cancelled"}
    BY <1>1 DEF TicketLedger, FreeStaysFree
  <1>3. G = GroupsIn(GroupsOf(o), "sold")
    OBVIOUS
  <1> HIDE DEF o, G
  <1>4. ASSUME NEW g \in Groups, groups[g].order # None
        PROVE  /\ groups'[g].status = "held" => orders'[groups[g].order].status = "pending"
               /\ groups'[g].status = "sold" <=> orders'[groups[g].order].status \in Confirmed
    <2>1. LinkOK(g) /\ groups[g].order \in Orders
      BY <1>4, GroupFacts DEF Sales, Typed
    <2>2. /\ g \in G => groups'[g].status \in Dropped
          /\ g \notin G => groups'[g].status = groups[g].status
      BY <1>1 DEF Moves
    <2>3. CASE groups[g].order = o
      <3>1. groups'[g].status \notin {"held", "sold"}
        BY <1>2, <1>3, <1>4, <2>1, <2>2, <2>3 DEF GroupsIn, GroupsOf, LinkOK, Confirmed, Dropped
      <3>2. QED
        BY <1>1, <2>3, <3>1 DEF OnlyStatus, Confirmed
    <2>4. CASE groups[g].order # o
      <3>1. groups'[g].status = groups[g].status
        BY <1>3, <2>2, <2>4 DEF GroupsIn, GroupsOf
      <3>2. QED
        BY <1>1, <1>4, <2>1, <2>4, <3>1 DEF OnlyStatus, LinkOK
    <2>5. QED
      BY <2>3, <2>4
  <1>5. \A g \in G : groups'[g].status # "sold"
    BY <1>1 DEF Moves, Dropped
  <1>6. \A p \in Orders : /\ orders'[p].user = orders[p].user
                          /\ orders'[p].seats = orders[p].seats
                          /\ (orders'[p].status = "none") = (orders[p].status = "none")
    BY <1>1, <1>2 DEF OnlyStatus
  <1>7. QED
    BY <1>1, <1>4, <1>5, <1>6, SalesMove DEF Typed

LEMMA SalesCreateHold ==
  ASSUME TypeOK, Ledger, Sales, NEW t \in EntryTimes, NEW u \in Users, NEW g \in Groups,
         NEW tt \in TicketTypes, NEW S \in SUBSET Seats, CreateHold(u, g, tt, S, t)
  PROVE  Sales'
  <1>1. /\ groups[g].status = "none"
        /\ \A s \in Seats : rows[g][s] = "none"
        /\ groups'[g] = [status |-> "held", user |-> u, type |-> tt,
                         expires |-> t + HoldDuration, order |-> None]
        /\ \A h \in Groups \ {g} :
             /\ Kept(h) /\ groups'[h].order = groups[h].order
             /\ groups'[h].status = IF h \in Overdue(t) THEN "expired" ELSE groups[h].status
             /\ \A s \in Seats :
                  rows'[h][s] = IF h \in Overdue(t) /\ rows[h][s] # "none"
                                THEN "expired" ELSE rows[h][s]
    BY CreateHoldMoves
  <1>2. UNCHANGED orders
    BY DEF CreateHold
  <1>3. \A h \in Overdue(t) : groups[h].status = "held"
    BY DEF Overdue
  <1>4. groups'[g].order = None /\ groups[g].order = None
    BY <1>1 DEF Sales, LinkOK
  <1>5. LinkOK(g)'
    BY <1>1 DEF LinkOK
  <1>6. ASSUME NEW h \in Groups \ {g}
        PROVE  LinkOK(h)'
    BY <1>1, <1>2, <1>3 DEF Sales, LinkOK, Kept
  <1>7. ASSUME NEW o \in Orders
        PROVE  ItemsOK(o)'
    <2>1. o # None /\ ItemsOK(o)
      BY ConstantsAssumption DEF Sales
    <2>2. \A h \in Groups, s \in Seats :
            (groups'[h].order = o /\ rows'[h][s] # "none")
              <=> (groups[h].order = o /\ rows[h][s] # "none")
      BY <1>1, <1>4, <2>1
    <2>3. QED
      BY <1>2, <2>1, <2>2 DEF ItemsOK
  <1>8. QED
    BY <1>5, <1>6, <1>7 DEF Sales

LEMMA SalesPlaceSeats ==
  ASSUME TypeOK, Ledger, Sales, NEW u \in Users, NEW o \in Orders, NEW t,
         NEW G \in SUBSET Groups, NEW status, NEW to,
         SeatCart(u, o, G, t), NewLinks(G, o),
         PlacesOrder(o, u, status, CartSeats(G), HeldOnly(G)),
         \/ status = "pending" /\ Moves({}, "held", {})
         \/ status = "free_confirmed" /\ Moves(G, "held", {"sold"})
  PROVE  Sales'
  <1>1. /\ orders[o].status = "none" /\ orders'[o].status = status /\ orders'[o].user = u
        /\ orders'[o].seats = CartSeats(G) /\ \A p \in Orders \ {o} : orders'[p] = orders[p]
    BY DEF PlacesOrder
  <1>2. \A g \in G : /\ groups[g].user = u /\ groups[g].status = "held"
                     /\ groups[g].order = None /\ RowsOf(g) # {}
    BY DEF SeatCart
  <1>3. \A g \in Groups : groups[g].order # o
    BY <1>1, ConstantsAssumption DEF Sales, LinkOK
  <1>4. ASSUME NEW g \in Groups
        PROVE  /\ Kept(g) /\ groups'[g].order = IF g \in G THEN o ELSE groups[g].order
               /\ groups'[g].status = IF g \in G /\ status = "free_confirmed"
                                      THEN "sold" ELSE groups[g].status
               /\ \A s \in Seats : (rows'[g][s] = "none") = (rows[g][s] = "none")
    <2>1. /\ Kept(g) /\ groups'[g].order = IF g \in G THEN o ELSE groups[g].order
          /\ groups'[g].status = IF g \in G /\ status = "free_confirmed"
                                 THEN "sold" ELSE groups[g].status
      BY DEF Moves, NewLinks
    <2>2. RowStatusOf("sold") # "none"
      BY DEF RowStatusOf
    <2>3. QED
      BY <2>1, <2>2 DEF Moves
  <1>5. ASSUME NEW g \in G
        PROVE  LinkOK(g)'
    <2>1. g \in Groups /\ LinkOK(g) /\ o # None
      BY ConstantsAssumption DEF Sales
    <2>2. /\ groups'[g].order = o /\ groups'[g].user = u /\ groups'[g].type = groups[g].type
          /\ groups'[g].status = IF status = "free_confirmed" THEN "sold" ELSE "held"
      BY <1>2, <1>4, <2>1 DEF Kept
    <2>3. groups[g].type \in TicketTypes
      BY <1>2, <2>1 DEF LinkOK
    <2>4. QED
      BY <1>1, <2>1, <2>2, <2>3 DEF LinkOK, Confirmed
  <1>6. ASSUME NEW g \in Groups \ G
        PROVE  LinkOK(g)'
    <2>1. /\ LinkOK(g) /\ groups[g].order \in Orders \cup {None} /\ groups[g].order # o
          /\ groups'[g].order = groups[g].order /\ groups'[g].status = groups[g].status
          /\ Kept(g)
      BY <1>3, <1>4, GroupFacts DEF Sales
    <2>2. groups[g].order # None => orders'[groups[g].order] = orders[groups[g].order]
      BY <1>1, <2>1
    <2>3. QED
      BY <2>1, <2>2 DEF LinkOK, Kept
  <1>7. ItemsOK(o)'
    <2>1. \A s \in Seats : s \in CartSeats(G) <=> \E g \in G : rows[g][s] # "none"
      BY DEF CartSeats, RowsOf
    <2>2. \A g \in Groups : groups'[g].order = o <=> g \in G
      BY <1>3, <1>4
    <2>3. G # {} /\ CartSeats(G) # {}
      BY <1>2 DEF SeatCart, CartSeats
    <2>4. QED
      BY <1>1, <1>4, <2>1, <2>2, <2>3 DEF ItemsOK
  <1>8. ASSUME NEW p \in Orders \ {o}
        PROVE  ItemsOK(p)'
    <2>1. ItemsOK(p) /\ p # None /\ orders'[p] = orders[p]
      BY <1>1, ConstantsAssumption DEF Sales
    <2>2. \A g \in Groups : groups'[g].order = p <=> groups[g].order = p
      BY <1>2, <1>4, <2>1
    <2>3. QED
      BY <1>4, <2>1, <2>2 DEF ItemsOK
  <1>9. QED
    BY <1>5, <1>6, <1>7, <1>8 DEF Sales

LEMMA GAPlaces ==
  ASSUME TypeOK, NEW u \in Users, NEW o \in Orders, NEW t,
         NEW q \in [TicketTypes -> 0..MaxPerOrder],
         PlacePaidGAOrder(u, o, q, t) \/ PlaceFreeGAOrder(u, o, q, t)
  PROVE  /\ ~Assigned /\ UNCHANGED <<clock, groups, rows, reqs>>
         /\ \E status \in {"pending", "free_confirmed"} : PlacesOrder(o, u, status, {}, q)
  BY DEF PlacePaidGAOrder, PlaceFreeGAOrder, GACart, PlacesOrder, NewOrder, TypeOK

LEMMA SalesPlaceGA ==
  ASSUME TypeOK, Sales, NEW u, NEW o \in Orders, NEW status, NEW q,
         ~Assigned, UNCHANGED <<groups, rows>>, PlacesOrder(o, u, status, {}, q)
  PROVE  Sales'
  <1>1. /\ orders[o].status = "none" /\ orders'[o].seats = {}
        /\ \A p \in Orders \ {o} : orders'[p] = orders[p]
    BY DEF PlacesOrder
  <1>2. \A g \in Groups : groups[g].order # o
    BY <1>1, ConstantsAssumption DEF Sales, LinkOK
  <1>3. ASSUME NEW g \in Groups
        PROVE  LinkOK(g)'
    <2>1. LinkOK(g) /\ groups[g].order \in Orders \cup {None}
      BY GroupFacts DEF Sales
    <2>2. groups[g].order # None => orders'[groups[g].order] = orders[groups[g].order]
      BY <1>1, <1>2, <2>1
    <2>3. QED
      BY <2>1, <2>2 DEF LinkOK
  <1>4. ASSUME NEW p \in Orders
        PROVE  ItemsOK(p)'
    BY <1>1, <1>2 DEF Sales, ItemsOK
  <1>5. QED
    BY <1>3, <1>4 DEF Sales

LEMMA SalesStep ==
  ASSUME Typed, Ledger, TicketLedger, Sales, [Next]_vars
  PROVE  Sales'
  <1>1. TypeOK /\ due \subseteq Orders
    BY DEF Typed, TypeOK
  <1>2. CASE HoldStep
    <2>1. ASSUME NEW t \in EntryTimes, NEW u \in Users, NEW g \in Groups, ReleaseHold(u, g, t)
          PROVE  Sales'
      <3>1. PICK G \in SUBSET Groups : Moves(G, "held", Dropped) /\ SameLinks
        BY <1>1, <2>1, ReleaseHoldMoves
      <3>2. UNCHANGED orders
        BY <2>1 DEF ReleaseHold
      <3>3. QED
        BY <1>1, <3>1, <3>2, SalesHoldsEnd
    <2>2. QED
      BY <1>1, <1>2, <2>1, SalesCreateHold DEF HoldStep
  <1>3. CASE HoldExpiry
    <2>1. PICK t \in EntryTimes : ExpireHolds(t)
      BY <1>3 DEF HoldExpiry
    <2>2. PICK G \in SUBSET Groups : Moves(G, "held", Dropped) /\ SameLinks
      BY <1>1, <2>1, ExpireHoldsMoves
    <2>3. UNCHANGED orders
      BY <2>1 DEF ExpireHolds
    <2>4. QED
      BY <1>1, <2>2, <2>3, SalesHoldsEnd
  <1>4. CASE PlaceStep
    <2>1. ASSUME NEW u \in Users, NEW o \in Orders, NEW t, NEW G \in SUBSET Groups,
                 PlacePaidSeatOrder(u, o, G, t)
          PROVE  Sales'
      <3>1. /\ SeatCart(u, o, G, t) /\ Moves({}, "held", {}) /\ NewLinks(G, o)
            /\ PlacesOrder(o, u, "pending", CartSeats(G), HeldOnly(G))
        BY <1>1, <2>1, PaidSeatsMove
      <3>2. QED
        BY <1>1, <3>1, SalesPlaceSeats
    <2>2. ASSUME NEW u \in Users, NEW o \in Orders, NEW t, NEW G \in SUBSET Groups,
                 PlaceFreeSeatOrder(u, o, G, t)
          PROVE  Sales'
      <3>1. /\ SeatCart(u, o, G, t) /\ Moves(G, "held", {"sold"}) /\ NewLinks(G, o)
            /\ PlacesOrder(o, u, "free_confirmed", CartSeats(G), HeldOnly(G))
        BY <1>1, <2>2, FreeSeatsMove
      <3>2. QED
        BY <1>1, <3>1, SalesPlaceSeats
    <2>3. QED
      BY <1>1, <1>4, <2>1, <2>2, GAPlaces, SalesPlaceGA DEF PlaceStep
  <1>5. CASE RequestStep
    <2>1. ASSUME NEW r \in Requests, CancelPending(r)
          PROVE  Sales'
      <3>1. reqs[r].order \in Orders /\ ReleaseOrder(reqs[r].order, "cancelled")
        BY <2>1, FinishingType DEF CancelPending
      <3>2. "cancelled" \in Released
        BY DEF Released
      <3>3. QED
        BY <1>1, <3>1, <3>2, SalesRelease
    <2>2. ASSUME NEW r \in Requests,
                 \/ \E o \in Orders : BeginCancel(r, o) \/ BeginConfirm(r, o)
                 \/ CancelReleased(r) \/ CancelWithoutEffect(r) \/ ConfirmWithoutEffect(r)
          PROVE  Sales'
      BY <2>2, SalesUntouched DEF BeginCancel, BeginConfirm, Begin, CancelReleased,
         CancelWithoutEffect, ConfirmWithoutEffect
    <2>3. QED
      BY <1>5, <2>1, <2>2, SalesConfirm, SalesCancelFree DEF RequestStep
  <1>6. ASSUME NEW o \in Orders, FailPending(o) \/ ExpireOrder(o)
        PROVE  Sales'
    <2>1. PICK status \in Released : ReleaseOrder(o, status)
      BY <1>6 DEF FailPending, ExpireOrder, Released
    <2>2. QED
      BY <1>1, <2>1, SalesRelease
  <1>7. ASSUME \/ Tick \/ EventStep \/ ScanDueOrders \/ WorkerCrash
               \/ \E o \in due : SkipOrder(o) \/ AbortPass(o)
               \/ UNCHANGED vars
        PROVE  Sales'
    BY <1>7, SalesUntouched DEF Tick, EventStep, PublishEvent, UnpublishEvent, CancelEvent,
       SetVisibility, EventEdit, ScanDueOrders, WorkerCrash, SkipOrder, AbortPass, vars
  <1>8. QED
    BY <1>1, <1>2, <1>3, <1>4, <1>5, <1>6, <1>7 DEF Next, WorkerStep, HandleDueOrder

(* The ledgers together: types, seats, tickets, and orders with their holds.*)
Books == Typed /\ Ledger /\ TicketLedger /\ Sales

LEMMA BooksStep == Books /\ [Next]_vars => Books'
  BY TypedStep, LedgerStep, TicketLedgerStep, SalesStep DEF Books, Typed

LEMMA BooksInit == Init => Books
  <1> SUFFICES ASSUME Init PROVE Books
    OBVIOUS
  <1>1. Ledger
    BY DEF Init, Ledger, Follows, Exclusive, Active
  <1>2. TicketLedger
    BY DEF Init, Idle, NoOrder, TicketLedger, TicketsFollowOrder,
       UnconfirmedHaveNoTickets, ConfirmsMeetNoRevoked, FreeStaysFree
  <1>3. Sales
    BY DEF Init, NoGroup, NoOrder, Sales, LinkOK, ItemsOK
  <1>4. QED
    BY <1>1, <1>2, <1>3, TypedInit DEF Books

LEMMA BooksAlways == Spec => []Books
  BY BooksInit, BooksStep, PTL DEF Spec

-----------------------------------------------------------------------------
(* Sold seats are exactly the seats of live tickets: items, rows and        *)
(* tickets of an order agree in every state, whichever requests crossed.   *)
THEOREM SoldSeatsAreTicketed == Spec => []SoldSeatsHaveTickets
  <1>1. Books => SoldSeatsHaveTickets
    <2> SUFFICES ASSUME Books, NEW s \in Seats, NEW o \in Orders
                 PROVE  (tickets[o] = "valid" /\ s \in orders[o].seats)
                          <=> \E g \in GroupsOf(o) : rows[g][s] = "converted"
      BY DEF SoldSeatsHaveTickets
    <2>1. /\ TypeOK /\ Ledger /\ o # None
          /\ tickets[o] = "valid" <=> orders[o].status \in Confirmed
          /\ s \in orders[o].seats
               <=> \E g \in Groups : groups[g].order = o /\ rows[g][s] # "none"
      BY ConstantsAssumption DEF Books, Typed, TicketLedger, TicketsFollowOrder,
         Confirmed, Sales, ItemsOK
    <2>2. ASSUME NEW g \in Groups, groups[g].order = o
          PROVE  groups[g].status = "sold" <=> orders[o].status \in Confirmed
      BY <2>1, <2>2 DEF Books, Sales, LinkOK
    <2>3. \A g \in Groups : rows[g][s] # "none" =>
            (rows[g][s] = "converted" <=> groups[g].status = "sold")
      BY <2>1, RowOfGroup
    <2>4. QED
      BY <2>1, <2>2, <2>3 DEF GroupsOf
  <1>2. QED
    BY <1>1, BooksAlways, PTL

(* What a step does to the statuses of the orders.                         *)
OrderMove(o) ==
  \/ orders'[o].status = orders[o].status
  \/ orders[o].status = "none"
  \/ orders[o].status = "pending" /\ orders'[o].status # "free_confirmed"
  \/ orders[o].status = "free_confirmed" /\ orders'[o].status = "cancelled"

LEMMA OrderMoveStep ==
  ASSUME Assigned, Books, [Next]_vars, NEW o \in Orders
  PROVE  OrderMove(o)
  <1>1. Typed /\ TypeOK /\ Ledger /\ Sales /\ TicketLedger /\ due \subseteq Orders
    BY DEF Books, Typed, TypeOK
  <1>2. ASSUME NEW p \in Orders, NEW status \in Released, ReleaseOrder(p, status)
        PROVE  OrderMove(o)
    <2>1. orders[p].status = "pending" /\ OnlyStatus(p, status)
      BY <1>1, <1>2, ReleaseOrderMoves
    <2>2. QED
      BY <2>1 DEF OnlyStatus, OrderMove, Released
  <1>3. ASSUME NEW r \in Requests, ConfirmPaid(r)
        PROVE  OrderMove(o)
    <2>1. /\ OnlyStatus(reqs[r].order, "paid") /\ orders[reqs[r].order].status = "pending"
      BY <1>1, <1>3, ConfirmMoves, ConfirmsPendingSeats
    <2>2. QED
      BY <2>1 DEF OnlyStatus, OrderMove
  <1>4. ASSUME NEW r \in Requests, CancelFree(r)
        PROVE  OrderMove(o)
    <2>1. /\ reqs[r].kind = "cancel" /\ reqs[r].seen = "free_confirmed"
          /\ OnlyStatus(reqs[r].order, "cancelled")
      BY <1>1, <1>4, CancelFreeMoves
    <2>2. orders[reqs[r].order].status \in {"free_confirmed", "cancelled"}
      BY <1>1, <2>1 DEF TicketLedger, FreeStaysFree
    <2>3. QED
      BY <2>1, <2>2 DEF OnlyStatus, OrderMove
  <1>5. ASSUME PlaceStep
        PROVE  OrderMove(o)
    <2>1. PICK p \in Orders : orders[p].status = "none" /\ \A x \in Orders \ {p} : orders'[x] = orders[x]
      <3>1. ASSUME NEW u, NEW p \in Orders, NEW t, NEW G \in SUBSET Groups,
                   PlacePaidSeatOrder(u, p, G, t) \/ PlaceFreeSeatOrder(u, p, G, t)
            PROVE  orders[p].status = "none" /\ \A x \in Orders \ {p} : orders'[x] = orders[x]
        BY <1>1, <3>1 DEF PlacePaidSeatOrder, PlaceFreeSeatOrder, SeatCart, TypeOK
      <3>2. ASSUME NEW u, NEW p \in Orders, NEW t, NEW q,
                   PlacePaidGAOrder(u, p, q, t) \/ PlaceFreeGAOrder(u, p, q, t)
            PROVE  orders[p].status = "none" /\ \A x \in Orders \ {p} : orders'[x] = orders[x]
        BY <1>1, <3>2 DEF PlacePaidGAOrder, PlaceFreeGAOrder, GACart, TypeOK
      <3>3. QED
        BY <1>5, <3>1, <3>2 DEF PlaceStep
    <2>2. QED
      BY <2>1 DEF OrderMove
  <1>6. ASSUME RequestStep
        PROVE  OrderMove(o)
    <2>1. ASSUME NEW r \in Requests, CancelPending(r)
          PROVE  OrderMove(o)
      <3>1. reqs[r].order \in Orders /\ ReleaseOrder(reqs[r].order, "cancelled")
        BY <1>1, <2>1, FinishingType DEF CancelPending
      <3>2. "cancelled" \in Released
        BY DEF Released
      <3>3. QED
        BY <1>2, <3>1, <3>2
    <2>2. ASSUME NEW r \in Requests,
                 \/ \E p \in Orders : BeginCancel(r, p) \/ BeginConfirm(r, p)
                 \/ CancelReleased(r) \/ CancelWithoutEffect(r) \/ ConfirmWithoutEffect(r)
          PROVE  OrderMove(o)
      BY <2>2 DEF OrderMove, BeginCancel, BeginConfirm, Begin, CancelReleased,
         CancelWithoutEffect, ConfirmWithoutEffect
    <2>3. QED
      BY <1>3, <1>4, <1>6, <2>1, <2>2 DEF RequestStep
  <1>7. ASSUME NEW p \in Orders, FailPending(p) \/ ExpireOrder(p)
        PROVE  OrderMove(o)
    <2>1. PICK status \in Released : ReleaseOrder(p, status)
      BY <1>7 DEF FailPending, ExpireOrder, Released
    <2>2. QED
      BY <1>2, <2>1
  <1>8. ASSUME HoldStep \/ HoldExpiry
        PROVE  UNCHANGED orders
    <2>1. ASSUME NEW t, NEW u, NEW g, NEW tt, NEW S, CreateHold(u, g, tt, S, t)
          PROVE  UNCHANGED orders
      BY <2>1 DEF CreateHold
    <2>2. ASSUME NEW t, NEW u, NEW g, ReleaseHold(u, g, t)
          PROVE  UNCHANGED orders
      BY <2>2 DEF ReleaseHold
    <2>3. ASSUME NEW t, ExpireHolds(t)
          PROVE  UNCHANGED orders
      BY <2>3 DEF ExpireHolds
    <2>4. QED
      BY <1>8, <2>1, <2>2, <2>3 DEF HoldStep, HoldExpiry
  <1>9. ASSUME \/ Tick \/ EventStep \/ ScanDueOrders \/ WorkerCrash
               \/ \E p \in due : SkipOrder(p) \/ AbortPass(p)
               \/ UNCHANGED vars
        PROVE  UNCHANGED orders
    BY <1>9 DEF Tick, EventStep, PublishEvent, UnpublishEvent, CancelEvent, SetVisibility,
       EventEdit, ScanDueOrders, WorkerCrash, SkipOrder, AbortPass, vars
  <1>10. UNCHANGED orders => OrderMove(o)
    BY DEF OrderMove
  <1>11. CASE PlaceStep \/ RequestStep \/ HoldStep \/ HoldExpiry
    BY <1>5, <1>6, <1>8, <1>10, <1>11
  <1>12. CASE \/ Tick \/ EventStep \/ WorkerStep \/ UNCHANGED vars
              \/ \E p \in Orders : FailPending(p)
    BY <1>1, <1>7, <1>9, <1>10, <1>12 DEF WorkerStep, HandleDueOrder
  <1>13. QED
    BY <1>11, <1>12 DEF Next

(* With assigned seats an order leaves pending once and a paid one is       *)
(* final, although payments and cancellations act on what they read before *)
(* the lock: the holds they need are gone with the status they read.       *)
THEOREM SeatOrdersMoveOnce ==
  ASSUME Assigned
  PROVE  Spec => OrderMoves
  <1> DEFINE Move == \A o \in Orders :
                       \/ orders'[o].status = orders[o].status
                       \/ orders[o].status = "none"
                       \/ orders[o].status = "pending" /\ orders'[o].status # "free_confirmed"
                       \/ orders[o].status = "free_confirmed" /\ orders'[o].status = "cancelled"
  <1>1. Books /\ [Next]_vars => Move
    BY OrderMoveStep DEF OrderMove
  <1>2. QED
    BY <1>1, BooksAlways, PTL DEF Spec, OrderMoves
=============================================================================

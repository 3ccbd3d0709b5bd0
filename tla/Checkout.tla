------------------------------ MODULE Checkout ------------------------------
(***************************************************************************)
(* Seat holds (P4), orders (P5), the inventory they consume (P3), the      *)
(* tickets they issue (P8) and the expiry workers, for ONE event.          *)
(*                                                                         *)
(* Every handler locks the event row before it reads or writes anything    *)
(* below, and keeps it until COMMIT, so what a handler does from the lock  *)
(* on is one action.  What it read BEFORE the lock is not protected:       *)
(*   - `now` is taken on entry; an action uses a t that may be behind the  *)
(*     clock by at most MaxWait;                                           *)
(*   - cancel_order and confirm_paid_order load the order first; the       *)
(*     second, locking SELECT finds the object in the session's identity   *)
(*     map and keeps its attributes (only populate_existing, in            *)
(*     inventory_service.release_inventory, replaces them).  They are      *)
(*     two actions, and `seen` is the status the second one acts on.       *)
(* A handler that raises rolls everything back: no step.                   *)
(***************************************************************************)
EXTENDS TicketCounters, FiniteSets

CONSTANTS
  Users, Seats, TicketTypes,
  Groups, Orders,       \* identities for rows still to be inserted
  Requests,             \* concurrent cancel/confirm requests
  FreeTypes,            \* ticket types of price 0; sales of the others are active
  SeatsOf,              \* SeatsOf[tt]: seats whose price category matches tt
  Total, MaxPerOrder,   \* quantity_total of each type, max_per_order
  Assigned,             \* seating_mode: assigned seats or general admission
  HoldDuration, SalesClose,
  MaxTime, MaxWait,     \* bounds: the clock, and how old `now` may be
  OrderBatch, HoldBatch,\* the LIMITs of the two expiry workers
  None                  \* SQL NULL

ASSUME ConstantsAssumption ==
  /\ IsFiniteSet(Groups) /\ IsFiniteSet(Seats)
  /\ FreeTypes \subseteq TicketTypes
  /\ SeatsOf \in [TicketTypes -> SUBSET Seats]
  /\ Total \in [TicketTypes -> Nat] /\ MaxPerOrder \in Nat
  /\ Assigned \in BOOLEAN
  /\ HoldDuration \in Nat /\ SalesClose \in Nat /\ MaxTime \in Nat
  /\ MaxWait \in Nat /\ OrderBatch \in Nat \ {0} /\ HoldBatch \in Nat \ {0}
  /\ None \notin Users \cup TicketTypes \cup Orders

(* Every hold the sales window admits runs out before the clock stops.     *)
ASSUME WindowAssumption == SalesClose + HoldDuration <= MaxTime + 1

VARIABLES
  clock,
  event,     \* [status, public]
  inv,       \* the counters of each ticket type
  groups,    \* seat_hold_groups; type and order are those of its rows
  rows,      \* rows[g][s]: status of the seat_holds row of g for seat s
  orders,    \* orders with their items: units per type, or seats
  tickets,   \* the common status of the tickets of an order
  reqs,      \* requests between their unlocked read and the event lock
  due,       \* orders the expiry pass has discovered and not yet handled
  audits,    \* orders with an "order.cancelled" audit entry
  staleActs  \* history: some handler changed rows on a status out of date

vars == <<clock, event, inv, groups, rows, orders, tickets, reqs, due,
          audits, staleActs>>

EventStatus == {"draft", "published", "cancelled"}
GroupStatus == {"none", "held", "released", "expired", "sold"}
RowStatus == {"none", "held", "converted", "released", "expired"}
Released == {"expired", "cancelled", "failed"}
OrderStatus == {"none", "pending", "paid", "free_confirmed"} \cup Released
TicketStatus == {"none", "valid", "cancelled"}

NoGroup == [status |-> "none", user |-> None, type |-> None,
            expires |-> 0, order |-> None]
NoOrder == [status |-> "none", user |-> None, expires |-> 0, seats |-> {},
            units |-> [tt \in TicketTypes |-> 0]]
Idle == [kind |-> "idle", order |-> None, seen |-> "none", now |-> 0]

Init ==
  /\ clock = 0
  /\ event = [status |-> "draft", public |-> TRUE]
  /\ inv = [tt \in TicketTypes |-> NoUnits]
  /\ groups = [g \in Groups |-> NoGroup]
  /\ rows = [g \in Groups |-> [s \in Seats |-> "none"]]
  /\ orders = [o \in Orders |-> NoOrder]
  /\ tickets = [o \in Orders |-> "none"]
  /\ reqs = [r \in Requests |-> Idle]
  /\ due = {}
  /\ audits = {}
  /\ staleActs = FALSE

-----------------------------------------------------------------------------
(* What the handlers read.                                                 *)

(* A `now` taken on entry, used after the wait for the event lock.         *)
EntryTimes == {t \in 0..clock : t + MaxWait >= clock}

RegistrationOpen(t) == event.status = "published" /\ t < SalesClose

PublicEvent == event.status = "published" /\ event.public

RowsOf(g) == {s \in Seats : rows[g][s] # "none"}

HeldUnits(G, tt) ==
  Cardinality({p \in G \X Seats :
                 rows[p[1]][p[2]] = "held" /\ groups[p[1]].type = tt})

(* Mutants: a hold lapses one tick early; cleanup only for public events.   *)
EarlyOverdue(t) ==
  {g \in Groups : groups[g].status = "held" /\ groups[g].expires <= t + 1}
PublicOverdue(t) ==
  {g \in Groups : PublicEvent /\ groups[g].status = "held" /\ groups[g].expires <= t}

Overdue(t) == {g \in Groups : groups[g].status = "held" /\ groups[g].expires <= t}

(* Mutant: a sold seat stops counting when its hold would have run out.     *)
LapsingOccupied(t) ==
  {s \in Seats : \E g \in Groups :
     rows[g][s] \in {"held", "converted"} /\ groups[g].expires > t}

(* seat_map's sold and held seats: a held row counts while it is live.     *)
Occupied(t) ==
  {s \in Seats : \E g \in Groups :
     \/ rows[g][s] = "converted"
     \/ /\ rows[g][s] = "held"
        /\ groups[g].status = "held"
        /\ groups[g].expires > t}

GroupsOf(o) == {g \in Groups : groups[g].order = o}

(* Mutants: give back what was bought, also what P4 gave back already;      *)
(* give back seats only.                                                   *)
BoughtUnits(o) == orders[o].units
SeatUnits(o) == [tt \in TicketTypes |-> HeldUnits(GroupsOf(o), tt)]

(* The reserved units an order still owns: GA units, or seats still held.  *)
OwnUnits(o) ==
  [tt \in TicketTypes |-> IF orders[o].seats = {}
                          THEN orders[o].units[tt]
                          ELSE HeldUnits(GroupsOf(o), tt)]

HeldOnly(G) == [tt \in TicketTypes |-> HeldUnits(G, tt)]

-----------------------------------------------------------------------------
(* What they write.                                                        *)

CanReleaseAll(q) == \A tt \in TicketTypes : CanRelease(inv[tt], q[tt])
ReleaseAll(q) == [tt \in TicketTypes |-> Release(inv[tt], q[tt])]
CanConfirmAll(q) == \A tt \in TicketTypes : CanConfirm(inv[tt], q[tt])
ConfirmAll(q) == [tt \in TicketTypes |-> Confirm(inv[tt], q[tt])]

MoveRows(R, G, from, to) ==
  [g \in Groups |-> [s \in Seats |->
     IF g \in G /\ R[g][s] = from THEN to ELSE R[g][s]]]

(* Mutant: the rows are moved and the group is forgotten.                   *)
ForgetGroups(H, G, from, to) == H

MoveGroups(H, G, from, to) ==
  [g \in Groups |-> IF g \in G /\ H[g].status = from
                    THEN [H[g] EXCEPT !.status = to] ELSE H[g]]

LinkOrder(H, G, o) ==
  [g \in Groups |-> IF g \in G THEN [H[g] EXCEPT !.order = o] ELSE H[g]]

-----------------------------------------------------------------------------
(* Time, and the edits of the event (P2) the checkout reacts to.  The      *)
(* status those handlers test was also read before the lock, so it does    *)
(* not restrict the step; _has_orders is queried under the lock and does.  *)

Tick ==
  /\ clock < MaxTime
  /\ clock' = clock + 1
  /\ UNCHANGED <<event, inv, groups, rows, orders, tickets, reqs, due,
                 audits, staleActs>>

HasOrders == \E o \in Orders : orders[o].status # "none"

EventEdit(status, public) ==
  /\ event' = [status |-> status, public |-> public]
  /\ UNCHANGED <<clock, inv, groups, rows, orders, tickets, reqs, due,
                 audits, staleActs>>

PublishEvent == EventEdit("published", event.public)

UnpublishEvent == ~HasOrders /\ EventEdit("draft", event.public)

CancelEvent == ~HasOrders /\ EventEdit("cancelled", event.public)

SetVisibility == \E public \in BOOLEAN : EventEdit(event.status, public)

-----------------------------------------------------------------------------
(* Seat holds.                                                             *)

CreateHold(u, g, tt, S, t) ==
  LET late == Overdue(t)
      left == ReleaseAll(HeldOnly(late))
  IN
  /\ Assigned
  /\ groups[g].status = "none"
  /\ PublicEvent /\ RegistrationOpen(t)
  /\ CanReleaseAll(HeldOnly(late))
  /\ S # {} /\ Cardinality(S) <= MaxPerOrder
  /\ S \subseteq SeatsOf[tt]
  /\ S \cap Occupied(t) = {}
  /\ CanReserve(left[tt], Cardinality(S), Total[tt])
  /\ inv' = [left EXCEPT ![tt] = Reserve(@, Cardinality(S))]
  /\ rows' = [MoveRows(rows, late, "held", "expired") EXCEPT
                ![g] = [s \in Seats |-> IF s \in S THEN "held" ELSE "none"]]
  /\ groups' = [MoveGroups(groups, late, "held", "expired") EXCEPT
                  ![g] = [status |-> "held", user |-> u, type |-> tt,
                          expires |-> t + HoldDuration, order |-> None]]
  /\ UNCHANGED <<clock, event, orders, tickets, reqs, due, audits, staleActs>>

(* Overdue groups of the event go first, then the one asked for, if it is   *)
(* still live.  Whether an order waits for its payment is not looked at.   *)
ReleaseHold(u, g, t) ==
  LET late == Overdue(t)
      own == {h \in {g} : groups[h].status = "held" /\ groups[h].expires > t}
  IN
  /\ groups[g].status # "none" /\ groups[g].user = u
  /\ ~(groups[g].status = "sold" /\ groups[g].expires > t)
  /\ CanReleaseAll(HeldOnly(late \cup own))
  /\ inv' = ReleaseAll(HeldOnly(late \cup own))
  /\ rows' = MoveRows(MoveRows(rows, late, "held", "expired"),
                      own, "held", "released")
  /\ groups' = MoveGroups(MoveGroups(groups, late, "held", "expired"),
                          own, "held", "released")
  /\ UNCHANGED <<clock, event, orders, tickets, reqs, due, audits, staleActs>>

(* One pass of the hold worker: at most HoldBatch overdue groups.          *)
ExpireHolds(t) ==
  \E late \in SUBSET Overdue(t) :
    /\ late # {}
    /\ \/ late = Overdue(t) /\ Cardinality(late) <= HoldBatch
       \/ Cardinality(late) = HoldBatch
    /\ CanReleaseAll(HeldOnly(late))
    /\ inv' = ReleaseAll(HeldOnly(late))
    /\ rows' = MoveRows(rows, late, "held", "expired")
    /\ groups' = MoveGroups(groups, late, "held", "expired")
    /\ UNCHANGED <<clock, event, orders, tickets, reqs, due, audits, staleActs>>

-----------------------------------------------------------------------------
(* Placing an order.                                                       *)

(* Mutant: the reservation of an order gets no deadline.                    *)
EndlessOrder(u, status, e, S, q) ==
  [status |-> status, user |-> u, expires |-> None, seats |-> S, units |-> q]

NewOrder(u, status, e, S, q) ==
  [status |-> status, user |-> u, expires |-> e, seats |-> S, units |-> q]

FreeCart(q) == \A tt \in TicketTypes : q[tt] > 0 => tt \in FreeTypes

(* Mutant: a hold that waits for the payment of an order is taken again.    *)
SharedSeatCart(u, o, G, t) ==
  /\ Assigned
  /\ orders[o].status = "none"
  /\ RegistrationOpen(t)
  /\ G # {}
  /\ \A g \in G : /\ groups[g].user = u
                  /\ groups[g].status = "held" /\ groups[g].expires > t

(* The cart of an assigned-seat order: all the seats of live groups of the  *)
(* buyer, none of which belongs to an order already.                       *)
SeatCart(u, o, G, t) ==
  /\ Assigned
  /\ orders[o].status = "none"
  /\ RegistrationOpen(t)
  /\ G # {}
  /\ \A g \in G :
       /\ groups[g].user = u
       /\ groups[g].status = "held" /\ groups[g].expires > t
       /\ groups[g].order = None
       /\ RowsOf(g) # {}
       /\ \A s \in RowsOf(g) : rows[g][s] = "held"
  /\ \A g, h \in G : g # h => RowsOf(g) \cap RowsOf(h) = {}
  /\ \A tt \in TicketTypes : HeldUnits(G, tt) <= MaxPerOrder

CartSeats(G) == UNION {RowsOf(g) : g \in G}

PlacePaidSeatOrder(u, o, G, t) ==
  /\ SeatCart(u, o, G, t)
  /\ ~FreeCart(HeldOnly(G))
  /\ \E e \in {groups[g].expires : g \in G} :
       /\ \A g \in G : e <= groups[g].expires
       /\ orders' = [orders EXCEPT ![o] =
                       NewOrder(u, "pending", e, CartSeats(G), HeldOnly(G))]
  /\ groups' = LinkOrder(groups, G, o)
  /\ UNCHANGED <<clock, event, inv, rows, tickets, reqs, due, audits, staleActs>>

PlaceFreeSeatOrder(u, o, G, t) ==
  /\ SeatCart(u, o, G, t)
  /\ FreeCart(HeldOnly(G))
  /\ PublicEvent                    \* confirm_hold looks the event up again
  /\ CanConfirmAll(HeldOnly(G))
  /\ inv' = ConfirmAll(HeldOnly(G))
  /\ rows' = MoveRows(rows, G, "held", "converted")
  /\ groups' = MoveGroups(LinkOrder(groups, G, o), G, "held", "sold")
  /\ orders' = [orders EXCEPT ![o] =
                  NewOrder(u, "free_confirmed", 0, CartSeats(G), HeldOnly(G))]
  /\ tickets' = [tickets EXCEPT ![o] = "valid"]
  /\ UNCHANGED <<clock, event, reqs, due, audits, staleActs>>

GACart(o, q, t) ==
  /\ ~Assigned
  /\ orders[o].status = "none"
  /\ RegistrationOpen(t)
  /\ \E tt \in TicketTypes : q[tt] > 0
  /\ \A tt \in TicketTypes :
       q[tt] <= MaxPerOrder /\ CanReserve(inv[tt], q[tt], Total[tt])

PlacePaidGAOrder(u, o, q, t) ==
  /\ GACart(o, q, t)
  /\ ~FreeCart(q)
  /\ inv' = [tt \in TicketTypes |-> Reserve(inv[tt], q[tt])]
  /\ orders' = [orders EXCEPT ![o] =
                  NewOrder(u, "pending", t + HoldDuration, {}, q)]
  /\ UNCHANGED <<clock, event, groups, rows, tickets, reqs, due, audits, staleActs>>

PlaceFreeGAOrder(u, o, q, t) ==
  /\ GACart(o, q, t)
  /\ FreeCart(q)
  /\ inv' = [tt \in TicketTypes |-> Confirm(Reserve(inv[tt], q[tt]), q[tt])]
  /\ orders' = [orders EXCEPT ![o] = NewOrder(u, "free_confirmed", 0, {}, q)]
  /\ tickets' = [tickets EXCEPT ![o] = "valid"]
  /\ UNCHANGED <<clock, event, groups, rows, reqs, due, audits, staleActs>>

-----------------------------------------------------------------------------
(* Giving back what a pending order reserved: inventory_service's           *)
(* release_inventory, under the event lock and with the order re-read.     *)

(* Mutants: any order that owns its units is released; a hold that P4       *)
(* expired makes the release fail.                                         *)
ReleasableAgain(o) ==
  /\ orders[o].status # "none"
  /\ \A g \in GroupsOf(o), s \in Seats : rows[g][s] # "converted"
  /\ CanReleaseAll(OwnUnits(o))
ReleasableWhileHeld(o) ==
  /\ orders[o].status = "pending"
  /\ \A g \in GroupsOf(o) : groups[g].status = "held"
  /\ CanReleaseAll(OwnUnits(o))

Releasable(o) ==
  /\ orders[o].status = "pending"
  /\ \A g \in GroupsOf(o), s \in Seats : rows[g][s] # "converted"
  /\ CanReleaseAll(OwnUnits(o))

ReleaseOrder(o, status) ==
  /\ Releasable(o)
  /\ inv' = ReleaseAll(OwnUnits(o))
  /\ rows' = MoveRows(rows, GroupsOf(o), "held", "released")
  /\ groups' = MoveGroups(groups, GroupsOf(o), "held", "released")
  /\ orders' = [orders EXCEPT ![o].status = status]

FailPending(o) ==
  /\ ReleaseOrder(o, "failed")
  /\ UNCHANGED <<clock, event, tickets, reqs, due, audits, staleActs>>

-----------------------------------------------------------------------------
(* cancel_order: an unlocked read of the order, then the locked section.    *)
(* A request that reads any other status than those named writes nothing    *)
(* (it returns the order or raises) and is not followed further.           *)

Begin(kind, r, o, acting) ==
  /\ reqs[r].kind = "idle"
  /\ orders[o].status \in acting
  /\ reqs' = [reqs EXCEPT ![r] = [kind |-> kind, order |-> o,
                                  seen |-> orders[o].status, now |-> clock]]
  /\ UNCHANGED <<clock, event, inv, groups, rows, orders, tickets, due,
                 audits, staleActs>>

BeginCancel(r, o) == Begin("cancel", r, o, {"pending", "free_confirmed"})

Finishing(kind, r) ==
  /\ reqs[r].kind = kind
  /\ reqs' = [reqs EXCEPT ![r] = Idle]

CancelPending(r) ==
  LET o == reqs[r].order IN
  /\ Finishing("cancel", r)
  /\ reqs[r].seen = "pending"
  /\ ReleaseOrder(o, "cancelled")
  /\ audits' = audits \cup {o}
  /\ UNCHANGED <<clock, event, tickets, due, staleActs>>

(* The order was released meanwhile: release_inventory returns without a    *)
(* change, and cancel_order goes on to audit and commit.                   *)
CancelReleased(r) ==
  LET o == reqs[r].order IN
  /\ Finishing("cancel", r)
  /\ reqs[r].seen = "pending" /\ orders[o].status \in Released
  /\ audits' = audits \cup {o}
  /\ UNCHANGED <<clock, event, inv, groups, rows, orders, tickets, due, staleActs>>

Refundables(o) ==
  /\ \A tt \in TicketTypes : CanRefund(inv[tt], orders[o].units[tt])
  /\ \A g \in GroupsOf(o) : \A s \in RowsOf(g) : rows[g][s] = "converted"

(* Mutant: the tickets of a cancelled registration stay valid.              *)
KeepTickets(o) == tickets
RevokeTickets(o) == [tickets EXCEPT ![o] = "cancelled"]

CancelFree(r) ==
  LET o == reqs[r].order IN
  /\ Finishing("cancel", r)
  /\ reqs[r].seen = "free_confirmed"
  /\ Refundables(o)
  /\ inv' = [tt \in TicketTypes |-> Refund(inv[tt], orders[o].units[tt])]
  /\ tickets' = RevokeTickets(o)
  /\ rows' = MoveRows(rows, GroupsOf(o), "converted", "released")
  /\ groups' = MoveGroups(groups, GroupsOf(o), "sold", "released")
  /\ orders' = [orders EXCEPT ![o].status = "cancelled"]
  /\ audits' = audits \cup {o}
  /\ staleActs' = (staleActs \/ orders[o].status # "free_confirmed")
  /\ UNCHANGED <<clock, event, due>>

(* Refused and rolled back.                                                *)
CancelWithoutEffect(r) ==
  LET o == reqs[r].order IN
  /\ Finishing("cancel", r)
  /\ \/ /\ reqs[r].seen = "pending"
        /\ ~Releasable(o) /\ orders[o].status \notin Released
     \/ reqs[r].seen = "free_confirmed" /\ ~Refundables(o)
  /\ UNCHANGED <<clock, event, inv, groups, rows, orders, tickets, due,
                 audits, staleActs>>

-----------------------------------------------------------------------------
(* confirm_paid_order: P6 calls it once a payment has been verified, and    *)
(* again when the provider repeats the callback (a callback that finds the  *)
(* order paid returns it, one that finds it in any other status raises).   *)

BeginConfirm(r, o) == Begin("confirm", r, o, {"pending"})

(* Mutant: the deadline is checked, the state of the seats is not.          *)
ConfirmableByDeadline(o, now) ==
  orders[o].expires > now /\ CanConfirmAll(OwnUnits(o))

Confirmable(o, now) ==
  /\ orders[o].expires > now
  /\ CanConfirmAll(OwnUnits(o))
  /\ GroupsOf(o) # {} => PublicEvent
  /\ \A g \in GroupsOf(o) :
       /\ groups[g].user = orders[o].user
       /\ groups[g].status = "held" /\ groups[g].expires > now
       /\ \E s \in Seats : rows[g][s] = "held"

ConfirmPaid(r) ==
  LET o == reqs[r].order IN
  /\ Finishing("confirm", r)
  /\ Confirmable(o, reqs[r].now)
  /\ inv' = ConfirmAll(OwnUnits(o))
  /\ rows' = MoveRows(rows, GroupsOf(o), "held", "converted")
  /\ groups' = MoveGroups(groups, GroupsOf(o), "held", "sold")
  /\ orders' = [orders EXCEPT ![o].status = "paid"]
  /\ tickets' = [tickets EXCEPT ![o] = IF @ = "none" THEN "valid" ELSE @]
  /\ staleActs' = (staleActs \/ orders[o].status # "pending")
  /\ UNCHANGED <<clock, event, due, audits>>

(* Too late, or a hold or the event no longer allows it.                   *)
ConfirmWithoutEffect(r) ==
  /\ Finishing("confirm", r)
  /\ ~Confirmable(reqs[r].order, reqs[r].now)
  /\ UNCHANGED <<clock, event, inv, groups, rows, orders, tickets, due,
                 audits, staleActs>>

-----------------------------------------------------------------------------
(* The order expiry job: one discovery query, then an order per transaction *)
(* in the order of their expiry.                                           *)

DueOrders(t) ==
  {o \in Orders : orders[o].status = "pending" /\ orders[o].expires <= t}

ScanDueOrders ==
  /\ due = {}
  /\ \E D \in SUBSET DueOrders(clock) :
       /\ D # {}
       /\ \/ D = DueOrders(clock) /\ Cardinality(D) <= OrderBatch
          \/ Cardinality(D) = OrderBatch
       /\ \A o \in D, p \in DueOrders(clock) \ D :
            orders[o].expires <= orders[p].expires
       /\ due' = D
  /\ UNCHANGED <<clock, event, inv, groups, rows, orders, tickets, reqs,
                 audits, staleActs>>

NextDue(o) == o \in due /\ \A p \in due : orders[o].expires <= orders[p].expires

ExpireOrder(o) ==
  /\ NextDue(o)
  /\ ReleaseOrder(o, "expired")
  /\ due' = due \ {o}
  /\ UNCHANGED <<clock, event, tickets, reqs, audits, staleActs>>

SkipOrder(o) ==
  /\ NextDue(o)
  /\ orders[o].status \in Released
  /\ due' = due \ {o}
  /\ UNCHANGED <<clock, event, inv, groups, rows, orders, tickets, reqs,
                 audits, staleActs>>

(* release_inventory raises (the order was paid meanwhile): the exception   *)
(* leaves the loop, and the orders after it wait for the next pass.        *)
AbortPass(o) ==
  /\ NextDue(o)
  /\ ~Releasable(o) /\ orders[o].status \notin Released
  /\ due' = {}
  /\ UNCHANGED <<clock, event, inv, groups, rows, orders, tickets, reqs,
                 audits, staleActs>>

WorkerCrash ==
  /\ due # {}
  /\ due' = {}
  /\ UNCHANGED <<clock, event, inv, groups, rows, orders, tickets, reqs,
                 audits, staleActs>>

HandleDueOrder == \E o \in due : ExpireOrder(o) \/ SkipOrder(o) \/ AbortPass(o)

-----------------------------------------------------------------------------
EventStep == PublishEvent \/ UnpublishEvent \/ CancelEvent \/ SetVisibility

HoldStep ==
  \E t \in EntryTimes :
    \/ \E u \in Users, g \in Groups, tt \in TicketTypes, S \in SUBSET Seats :
         CreateHold(u, g, tt, S, t)
    \/ \E u \in Users, g \in Groups : ReleaseHold(u, g, t)

HoldExpiry == \E t \in EntryTimes : ExpireHolds(t)

PlaceStep ==
  \E u \in Users, o \in Orders, t \in EntryTimes :
    \/ \E G \in SUBSET Groups :
         PlacePaidSeatOrder(u, o, G, t) \/ PlaceFreeSeatOrder(u, o, G, t)
    \/ \E q \in [TicketTypes -> 0..MaxPerOrder] :
         PlacePaidGAOrder(u, o, q, t) \/ PlaceFreeGAOrder(u, o, q, t)

RequestStep ==
  \E r \in Requests :
    \/ \E o \in Orders : BeginCancel(r, o) \/ BeginConfirm(r, o)
    \/ CancelPending(r) \/ CancelReleased(r) \/ CancelFree(r)
    \/ CancelWithoutEffect(r)
    \/ ConfirmPaid(r) \/ ConfirmWithoutEffect(r)

WorkerStep == ScanDueOrders \/ HandleDueOrder \/ WorkerCrash

Next ==
  \/ Tick \/ EventStep \/ HoldStep \/ HoldExpiry \/ PlaceStep \/ RequestStep
  \/ \E o \in Orders : FailPending(o)
  \/ WorkerStep

Spec == Init /\ [][Next]_vars

(* The jobs of worker.py run every 60 seconds and a crashed worker is       *)
(* started again; it does not crash before its first order for ever.       *)
Deployed == Spec /\ WF_vars(Tick) /\ WF_vars(ScanDueOrders) /\ SF_vars(HandleDueOrder)

(* As above, with the separate process app.tasks.expire_holds running too. *)
WithHoldWorker == Deployed /\ WF_vars(HoldExpiry)

-----------------------------------------------------------------------------
GroupRecord ==
  [status : GroupStatus, user : Users \cup {None}, type : TicketTypes \cup {None},
   expires : Nat, order : Orders \cup {None}]
OrderRecord ==
  [status : OrderStatus, user : Users \cup {None}, expires : Nat,
   seats : SUBSET Seats, units : [TicketTypes -> Nat]]
RequestRecord ==
  [kind : {"idle", "cancel", "confirm"}, order : Orders \cup {None},
   seen : OrderStatus, now : Nat]

TypeOK ==
  /\ clock \in 0..MaxTime
  /\ event \in [status : EventStatus, public : BOOLEAN]
  /\ inv \in [TicketTypes -> Counters]
  /\ groups \in [Groups -> GroupRecord]
  /\ rows \in [Groups -> [Seats -> RowStatus]]
  /\ orders \in [Orders -> OrderRecord]
  /\ tickets \in [Orders -> TicketStatus]
  /\ reqs \in [Requests -> RequestRecord]
  /\ due \in SUBSET Orders
  /\ audits \in SUBSET Orders
  /\ staleActs \in BOOLEAN

(* No seat has two rows that are held or converted: the unique index        *)
(* uq_seat_holds_event_seat_active, which no handler expects to fire, is    *)
(* never hit by create_hold, however stale the `now` it works with.        *)
ActiveRow(g, s) == rows[g][s] \in {"held", "converted"}

OneActiveRowPerSeat ==
  \A g, h \in Groups, s \in Seats :
    ActiveRow(g, s) /\ ActiveRow(h, s) => g = h

(* The status of a hold group and those of its rows never part: whichever   *)
(* of P4 (raw SQL), release_inventory and _cancel_free (ORM) moved them.   *)
RowStatusOf(status) == IF status = "sold" THEN "converted" ELSE status

RowsFollowGroup ==
  \A g \in Groups : \A s \in RowsOf(g) : rows[g][s] = RowStatusOf(groups[g].status)

(* The counters of a type say what the seat ledger says: reserved counts    *)
(* the held rows, sold minus refunded the converted rows.  Holds released   *)
(* by P4, by an order's cancellation and by both workers each give their    *)
(* units back exactly once.                                                *)
ConvertedUnits(tt) ==
  Cardinality({p \in Groups \X Seats :
                 rows[p[1]][p[2]] = "converted" /\ groups[p[1]].type = tt})

SeatAccounting ==
  \A tt \in TicketTypes :
    /\ inv[tt].reserved = HeldUnits(Groups, tt)
    /\ inv[tt].sold - inv[tt].refunded = ConvertedUnits(tt)

(* Sold seats are exactly the seats of live tickets, one order each: the    *)
(* converted rows, the items and the tickets of an order agree.            *)
SoldSeatsHaveTickets ==
  \A s \in Seats, o \in Orders :
    (tickets[o] = "valid" /\ s \in orders[o].seats)
      <=> \E g \in GroupsOf(o) : rows[g][s] = "converted"

(* An order has live tickets exactly while it is paid or free_confirmed,    *)
(* whatever stale status the handlers that moved it acted on.              *)
TicketsFollowOrder ==
  \A o \in Orders :
    (tickets[o] = "valid") <=> (orders[o].status \in {"paid", "free_confirmed"})

(* The CHECK constraints of ticket_types are never what stops a handler:    *)
(* the WHERE clauses of the counter updates imply them, also when a stale   *)
(* request consumes what is not its own.                                   *)
CountersWithinChecks == \A tt \in TicketTypes : ChecksHold(inv[tt], Total[tt])

(* General admission: as long as no handler acted on an outdated status,    *)
(* reserved is the units of pending orders and sold minus refunded those    *)
(* of live tickets.                                                        *)
UnitsWhere(P(_), tt) ==
  Cardinality({p \in Orders \X (1..MaxPerOrder) :
                 P(p[1]) /\ p[2] <= orders[p[1]].units[tt]})

GAAccounting ==
  ~staleActs =>
    \A tt \in TicketTypes :
      LET Pending(o) == orders[o].status = "pending"
          Live(o) == tickets[o] = "valid"
      IN /\ inv[tt].reserved = UnitsWhere(Pending, tt)
         /\ inv[tt].sold - inv[tt].refunded = UnitsWhere(Live, tt)

(* A hold is attached to at most one order, for good.                      *)
HoldKeepsItsOrder ==
  [][\A g \in Groups : groups[g].order # None
                         => groups'[g].order = groups[g].order]_vars

(* With assigned seats an order leaves pending once, whatever its requests  *)
(* read before the lock; paid is final, and only a free registration is    *)
(* cancelled after it was confirmed.  With general admission a released     *)
(* order can still be confirmed.                                           *)
OrderMoves ==
  [][\A o \in Orders :
       \/ orders'[o].status = orders[o].status
       \/ orders[o].status = "none"
       \/ orders[o].status = "pending" /\ orders'[o].status # "free_confirmed"
       \/ orders[o].status = "free_confirmed" /\ orders'[o].status = "cancelled"]_vars

(* ticket_type_service.py: "The write predicates prevent overselling on     *)
(* PostgreSQL under contention": never more live tickets than there are.   *)
NoOverselling ==
  \A tt \in TicketTypes :
    LET Live(o) == tickets[o] = "valid" IN UnitsWhere(Live, tt) <= Total[tt]

(* expire_orders.py: "pending checkouts cannot hold inventory               *)
(* indefinitely": every pending order leaves that status.                  *)
PendingOrdersEnd ==
  \A o \in Orders : (orders[o].status = "pending") ~> (orders[o].status # "pending")

(* An order of seats does, although a pass may crash or be aborted by an    *)
(* order that was paid after its discovery, and P4 or its own buyer may     *)
(* have given the seats back before.                                       *)
SeatOrdersEnd ==
  \A o \in Orders :
    (orders[o].status = "pending" /\ orders[o].seats # {})
      ~> (orders[o].status # "pending")

(* A hold nobody pays for gives its seats back.                            *)
HoldsEnd ==
  \A g \in Groups : (groups[g].status = "held") ~> (groups[g].status # "held")

-----------------------------------------------------------------------------
(* The seat map as buyers see it, and the promise it keeps: whatever the    *)
(* handlers and workers do implements the seat market.                     *)

SeatView ==
  [s \in Seats |->
     IF \E g \in Groups : ActiveRow(g, s)
     THEN LET g == CHOOSE h \in Groups : ActiveRow(h, s)
          IN IF rows[g][s] = "held"
             THEN [state |-> "held", owner |-> groups[g].user,
                   until |-> groups[g].expires]
             ELSE [state |-> "sold", owner |-> groups[g].user, until |-> 0]
     ELSE [state |-> "free", owner |-> None, until |-> 0]]

Market == INSTANCE SeatMarket WITH seat <- SeatView

(* A seat on hold is nobody else's until the hold has run out or has been   *)
(* given up, is sold to its holder only, and is sold again only after its   *)
(* registration was cancelled.                                             *)
ImplementsMarket == Market!MarketSpec
=============================================================================

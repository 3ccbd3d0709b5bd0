# BiletFlow: a verification development

TLA+ models of the ticketing system, checked with TLC and proved about with TLAPS.
Their subjects are, of the backend (`src/backend/app`), the **checkout** (seat
holds, orders, the inventory they consume, the tickets they issue and the workers
that expire them) and the **event catalog** (what organisers edit meanwhile); and
of the clients (`src/frontend`) the **session** with the refresh tokens behind it,
the **web screens** around it, the **event editor** and the **inputs** of its forms.

## 1. The system

BiletFlow sells tickets for events.  A FastAPI backend keeps everything in
PostgreSQL; a React web application and a mobile one share a TypeScript session
client.  Paths are below `src/backend/app` and `src/frontend`.

| component | source | state | operations |
|---|---|---|---|
| Ticket inventory (P3) | `services/ticket_type_service.py`, `models/ticket_type.py` | four counters per ticket type | reserve, release, confirm, refund, check in: one conditional `UPDATE` each |
| Seat holds (P4) | `services/seat_service.py`, `models/seat_hold.py` | `seat_hold_groups` and their `seat_holds` rows | `create_hold`, `release_hold`, `confirm_hold`, `expire_due_holds`, `seat_map` |
| Orders (P5) | `services/order_service.py`, `services/inventory_service.py` | `orders`, `order_items` | `create_order`, `cancel_order`, `confirm_paid_order`, `fail_pending_order`, `expire_due_orders` |
| Tickets (P8) | `services/ticket_service.py` | `tickets` | `issue_tickets`; revoked by `_cancel_free` |
| Expiry workers | `tasks/worker.py`, `tasks/expire_orders.py`, `tasks/expire_holds.py` | none of their own (a batch in memory) | a pass every 60 s |
| Event catalog (P2, P3) | `services/event_service.py`, `services/ticket_type_service.py` | `events`, configuration of `ticket_types` | publish, unpublish, cancel, update, duplicate; ticket types |
| Authentication (P1) | `services/auth_service.py`, `services/email_verification.py` | users, refresh tokens, email tokens | login, refresh, reset, verify |
| Session client | `shared/src/session.ts`, `api-client.ts`, `token-store.ts`, `mobile/src/token-store.ts` | epoch, credentials, snapshot, refresh flight, storage queue; the refresh token on disk | `initialize`, `login`, `refresh`, `logout`, `request`, `reloadUser`, `updateUser` |
| Web screens | `web/src/App.tsx`, `web/src/auth/*` | location, forms, query cache | navigation, redirects, sign-in, registration, recovery, profiles |
| Event editor | `web/src/events/Editor.tsx`, `data.ts` | loaded resources, form, dialog, requests on the way | load, save, publish, unpublish, cancel, duplicate, ticket types, refund policy |
| Event inputs | `web/src/events/model.ts` | none | `parsePrice`, `priceInput`, `toInstant`, `zonedInput`, `eventBody` |
| Rate limiter, money | `core/rate_limit.py`, `core/money.py` | windows per key; none | hit; percent |
| Audit, notifications | `services/audit_service.py`, `services/notification_service.py` | append-only rows in the caller's transaction | audit, notify |
| Stubs | payments, refunds, check-in, promo codes, analytics, admin, calendar, history, support | - | none at this commit |

The backend's components interact through the database.  Each HTTP request has one
session and one transaction under READ COMMITTED; the P5 handlers call P4
(`confirm_hold`), P3 (the counters) and P8 (`issue_tickets`) inside their own
transaction.  The row of the **event** is the lock of the checkout: every
mutating handler takes it before it reads the rows it changes.

In a client everything goes through one session controller.  Screens read its
snapshot and call `request()`; it decides by its *epoch*, a counter that every
sign-in and sign-out increments, whether an answer still counts.  Routes, forms,
hooks and the query cache are mounted and unmounted by what the snapshot and the
location say, while their requests stay on the way.

### What is hard

* *Stale reads.*  `now` is taken on entry, before the wait for the lock.
  `cancel_order` and `confirm_paid_order` read the order before they lock the
  event, and SQLAlchemy's identity map keeps the attributes it read: the locking
  `SELECT` that follows returns the old status (except in
  `inventory_service.release_inventory`, which asks for `populate_existing`).
  In the same way every management route loads the event in its access check,
  and judges by it after the lock.
* *Several owners of one fact.*  A hold's seats are given back by its owner, by
  the hold worker, by any other buyer's `create_hold`, by a cancellation, by a
  failed payment and by the order worker.  Their units must come back once.
* *Ledgers that must agree.*  Group, rows, counters, order items and tickets are
  written by three services, partly in raw SQL, partly through the ORM.
* *Workers.*  Batches with limits, a pass that ends at its first error, crashes
  between two commits, and two workers with the same deadline.
* *Locks.*  The user row and the event row are taken in two orders.
* *Continuations.*  Client code goes on after an `await` in a world that has
  changed: another account, another page, another version of the data.
* *Two kinds of abandoned requests.*  A load is aborted with its screen.  A write
  is not: the server may still do it, later than a newer one, and its answer
  still runs its continuation.
* *Uncertain outcomes.*  A lost answer to `/auth/refresh` may or may not have
  spent the token; secure storage may fail with or without effect; the process
  may die anywhere.

The list, line by line, is `hazards` in `PROJECT.json`.

### What makes each component correct

* Inventory: the `CHECK` constraints are never hit; no more live tickets than
  places; counters equal what the ledgers say.
* Holds: one active row per seat; rows follow their group; a hold ends, where a
  worker looks for it; a seat on hold is nobody else's.
* Orders and tickets: live tickets exactly for confirmed orders; a released
  order stays released; a pending order ends; an audit entry has its change.
* Event catalog: an event with orders stays published, with its seating and
  prices; capacity covers the ticket types; cancelled is final.
* Session client: what is shown belongs to the account whose credentials are held;
  a refresh token is sent once; the disk never keeps an abandoned one; credentials
  that were issued are kept, revoked, or their revocation failed; a resolved sign-out
  has revoked; every promise settles.
* Web screens: private data leaves with its account; a continuation moves nobody
  from a screen that did not wait for it; a sign-in leads to where it was asked
  for; a save changes what was typed and nothing else.
* Event editor: "saved" is true; what is loaded is not older than what the editor
  knows; a confirmation fits the status; drafts survive.
* Event inputs: what is shown and sent back is what was stored, to the minute.

## 2. Modules

| module | models | remarks |
|---|---|---|
| `TicketCounters` | the five counter updates and the four `CHECK`s | pure operators: `CanX` is the `WHERE` clause, `X` the `SET` clause |
| `Checkout` | P4, P5, P3's counters, P8's issue, the workers, for one event | extends `TicketCounters` |
| `SeatMarket` | nothing in the code: what assigned seating promises | abstract specification, a seat is free, held or sold |
| `EventCatalog` | P2's events, P3's ticket type configuration, and the public in units of a type | extends `TicketCounters` |
| `SessionClient` | the session controller, its storage, the token endpoints of P1 | one task per asynchronous call |
| `AccountSession` | nothing in the code: what the snapshot promises the screens | abstract specification |
| `WebScreens` | router, auth and profile screens, query cache, profile routes | the controller appears as its snapshot and its epochs |
| `EventEditor` | `useResource`, the editor's forms, the router around them | the controller appears as "the user is published or not" |
| `EventForms` | prices and wall times, with their theorems | pure operators over arbitrary time zones |
| `MCCheckout`, `MCEventCatalog`, `MCSessionClient`, `MCEventEditor`, `MCWebScreens` | instances for TLC | symmetry sets, seat/type assignments |
| `TicketCountersProofs` | lemmas on counters and on sums over finite sets | see section 5 |
| `CheckoutProofs`, `InventoryProofs` | theorems on `Checkout`: its ledgers and orders; its counters and the seat market | `InventoryProofs` extends `CheckoutProofs` |
| `CatalogProofs`, `SessionProofs`, `ScreensProofs`, `EditorProofs` | theorems on `EventCatalog`, `SessionClient`, `WebScreens`, `EventEditor` | |

`SessionClient` composes the client with the server's tokens; `WebScreens` and
`EventEditor` take from it what `ShowsItsAccount` and `ImplementsAccount` show: an
answer of an epoch that has ended is refused, and an account appears only out of
"loading".

### `Checkout` and the code

| variable | code |
|---|---|
| `clock` | time; `EntryTimes` are the values `now` may have when a handler gets the lock |
| `event` | `events.status` and whether `visibility` is public |
| `inv[tt]` | `qty_reserved`, `qty_sold`, `qty_refunded`, `qty_checked_in` |
| `groups[g]` | a row of `seat_hold_groups`; the ticket type and the order are those of all its `seat_holds` rows (they are inserted with one type, and `create_order` links all of them) |
| `rows[g][s]` | status of the `seat_holds` row of `g` for seat `s`; `"none"`: no row |
| `orders[o]` | `orders` with its items: the seats and the units per type |
| `tickets[o]` | the status the tickets of one order have in common |
| `reqs[r]` | a request between its unlocked read and the lock: the status it has `seen`, the `now` it took |
| `due` | the ids an order pass has discovered and not yet handled |
| `audits` | orders with an `order.cancelled` audit entry |
| `staleActs` | history: some handler changed rows although the order had left the status it had seen |

A handler is one action from the event lock to the commit, since no other
handler touches those rows meanwhile; a handler that raises is rolled back and
is no step.  `cancel_order` and `confirm_paid_order` are two actions
(`BeginCancel`/`BeginConfirm`, then the locked section), and the order pass is
one discovery and one action per order.  The actions keep the order of the code
where it matters: `CreateHold` expires every overdue group first, `ReleaseHold`
too, a free order is created and confirmed in one transaction.

Constants that stand for configuration: `SeatsOf` (the seats whose price
category matches a type), `FreeTypes`, `Total` (`quantity_total`),
`MaxPerOrder`, `Assigned` (`seating_mode`), `HoldDuration`, `SalesClose` (the
first of the registration, sales and start times to pass), `OrderBatch` and
`HoldBatch` (the `LIMIT`s of the workers).

No code of this commit sets `paid_sales_status` to active (`create_event` and
`duplicate_event` disable it; payments, P6, will enable it): paid types are
modelled as if it had been.

Bounds: `MaxTime` stops the clock, `MaxWait` bounds how old `now` may be when
the lock is granted, and `Groups`, `Orders` and `Requests` are the identities
that may ever be used.

The event's status may change at any time in the model (`PublishEvent`,
`UnpublishEvent`, `CancelEvent`): its handlers test a status read before the
lock as well, and a request may have read any earlier one.  Only
`_has_orders`, which is queried under the lock, restricts them.  What those
handlers check themselves is the subject of `EventCatalog`.

### `EventCatalog` and the code

| variable | code |
|---|---|
| `events[e]` | `events`: status, `capacity`, `seating_mode`, and the layout with its venue |
| `types[e][k]` | `ticket_types`: `quantity_total`, `price_amount` (0: `is_free`), the counters |
| `held[e][k]` | units of the type on seat holds that are no order's yet |
| `orders[o]` | `orders` with one item: quantity and unit price; `"confirmed"` is paid or free_confirmed, `"released"` any order whose units were given back, `"stranded"` a pending one whose seats were |
| `reqs[r]` | a management request between the access check and the lock, with the event it has `seen` |
| `outdated` | history: events on which a request acted that had seen an older event |
| `late` | history: orders that were paid or refunded by a status they had left |

A management request is `Read` and then one of `PublishEvent`,
`UnpublishEvent`, `CancelEvent`, `UpdateEvent`, `DuplicateEvent`,
`CreateTicketType`, `UpdateTicketType` or `Refuse` (it raises, or has nothing to
do).  Its guards compare the event *seen* with what is queried under the lock.
`Written` is SQLAlchemy's flush: only attributes that differ from the ones seen
are in the `UPDATE`.  `create_order` and `create_hold` load the event first under
the lock, so `HoldSeats`, `PlaceGeneralOrder` and `PlaceSeatOrder` read it as it is.
The public's actions are those of `Checkout` without seats and times:
a place is sold when the event is published and the type has units, and the
sales window and visibility can only make that rarer.  Payments and cancellations
judge by *any* status that the order once had (`StillIs`), so no request between the two
reads is needed; where seats are assigned the hold's rows stop an outdated one, as in
`Checkout`.  Configuration is drawn
from `Capacities`, `Quantities`, `Prices`, `Seatings` and `Layouts`.

### `SessionClient` and the code

| variable | code |
|---|---|
| `issued`, `live` | tokens `_issue_tokens` has made (the access and the refresh token of one answer are one number) with their user and the sign-in they descend from; those whose refresh half is not revoked |
| `lapsed`, `suspended` | access tokens that have expired, suspended accounts: settled when the server next looks |
| `epoch`, `credentials`, `snapshot`, `refreshFlight` | the variables of `createSession` |
| `cache` | the account whose data the screens keep (`onClear`) |
| `task[t]` | a call of the controller or a refresh flight: the operation, where it waits, its epoch, the token it has sent, the answers that have come |
| `queue`, `busy` | `storageQueue`; whether its first operation has begun |
| `durable` | `biletflow.refresh_token.v1` in secure storage |
| `late` | requests of a process that has died and that may still arrive |
| `spent`, `storeFailed`, `ended` | history: tokens sent to `/auth/refresh`; the last storage operation failed; sign-ins whose `logout()` resolved |

A task's step runs from one `await` to the next.  `Quiet` is the event loop: no
event (an answer of the network, a storage operation that ends, a press of a
button) is handled while a continuation is runnable.  `Handle` lets the server
handle a request and deliver or lose the answer; `Lose` loses the request.  A
storage operation that fails may have had its effect.

Bounds: `MaxTokens` tokens are issued, `MaxLogins` sign-ins, `MaxCrashes` deaths of
the process; `Calls` and `Flights` are the calls and flights that can run at once.

### `WebScreens` and the code

| variable | code |
|---|---|
| `profile` | `users` and `organizer_profiles`: two fields, each the number of the edit it stems from |
| `session` | the snapshot, with the published user's fields |
| `place` | the location: page and `returnTo` |
| `auth`, `form` | state of `AuthPage`; of `ProfilePage` or `OrganizerForm` |
| `query` | the query `["organizer-profile", id]` of each organizer |
| `call[c]` | a request of a form; `mine`: its screen is still mounted, `current`: its epoch lasts |
| `touched`, `shifted` | history, in `form` and `call[c]`: what the user typed in the form; the profile it compares with was replaced under it |
| `asked` | history: pages a sign-in is to lead to |

`Render` is what follows every handler: which routes and forms are mounted, which
hooks begin or abort their fetches, which requests have lost their screen.  A
web page keeps its credentials in memory, so `Load` (an address is opened) signs
out; for the same reason the reset form, which needs the token of an email link, is
never submitted in a session.  `Elsewhere` is another tab or device of a user, which
saves a field on the server; a refetch or the next sign-in brings it here.

### `EventEditor` and the code

| variable | code |
|---|---|
| `row`, `ticketRev` | events on the server: status, content (the number of the edit it stems from), revision of the ticket types |
| `place`, `came` | the location, and the editor page before it |
| `eventHook`, `ticketHook` | two `useResource`: path, load on the way, what was got |
| `form` | `EditorForm` with `TicketEditor` and `RefundEditor` |
| `write[w]` | a `POST`, `PATCH` or `PUT` on the way, up to the end of its continuation |
| `meddled` | history: events changed by a write of a form that is gone |

The version and the request identity of `useResource` never come back, so a new one
drops what the hook has; a path does come back, and is kept.  The server's part
is that of the contract, as `web/src/mocks/events.ts` implements it, for the
editor is written against it: the backend of this commit differs (its
`GET .../ticket-types` answers a list where the editor reads `items` of a page,
its availability has no `on_sale`, and it has no refund-policy route).  What the
backend's event routes do is `EventCatalog`.

### `EventForms` and the code

Prices are digits before and after the separator.  Instants are in seconds, wall times in
minutes, for the inputs have no seconds; a zone is the function from the minutes of time to
the offset of its wall clock, in minutes, whatever that is.
A conversion that may refuse is a set with one result or none.  `EventForms` has no
state and no run: its theorems are about every input.

## 3. Runs

`catalog` and `catalog_copies` use `MCEventCatalog`, `session` and `session_live`
`MCSessionClient`, `editor` and `editor_obsolete` `MCEventEditor`, `screens`
`MCWebScreens`, the others `MCCheckout`.  Each takes a few minutes at most with two
workers.  `CHECK_DEADLOCK FALSE` everywhere: with the clock at its bound, the
identities used and everything settled, the system has nothing left to do.

| run | shows | instance |
|---|---|---|
| `seats` | `TypeOK`, `OneActiveRowPerSeat`, `RowsFollowGroup`, `SeatAccounting`, `SoldSeatsHaveTickets`, `TicketsFollowOrder`, `HoldKeepsItsOrder`, `ImplementsMarket`, `OrderMoves` | 2 users, 2 seats, a free and a paid type, 2 holds, 2 orders, 1 request between its read and the lock |
| `general` | `CountersWithinChecks`, `GAAccounting` | general admission, 2 orders, 2 requests |
| `expiry` | `SeatOrdersEnd`, `HoldsEnd` | 2 seats, 2 holds and 2 orders that can be due at once, batches of one, crashes and aborted passes, both workers running |
| `oversell` | finding 1 of section 4 | 3 orders, 2 requests, 1 unit |
| `starved` | finding 2 | 2 paid orders, 1 request, 1 unit, the order job running |
| `catalog` | `TypeOK`, `OrdersOnlyWhilePublished`, `OrdersKeepTheirPrice`, `AllocatedWithinTotal`, `SeatingFixedByOrders`, `CapacityCoversTypes`, `AssignedHasLayout`, `CancelledIsFinal` | 1 event in either seating mode, 2 types, 2 orders, 2 management requests that may overlap |
| `catalog_copies` | `CountersBelongToOrders` | 2 events (one may be the copy of the other), 1 type, 2 orders, 1 management request |
| `session` | `ShowsItsAccount`, `RaisesNoAlarm`, `NoneSlipsAway` | 2 accounts, 2 calls, 2 flights, 3 tokens, storage that fails, one sign-in over an earlier session, no restart |
| `session_live` | `TypeOK`, `DiskFollowsSession`, `SpendsOnce`, `CallsSettle`, `ImplementsAccount` | 1 account, 2 calls, 1 flight, a restart |
| `editor` | `TypeOK`, `SavedMeansStored`, `NeverStaleTickets`, `DialogMatchesStatus`, `DraftSurvives` | 2 events, all operations, 2 writes on the way |
| `editor_obsolete` | finding 3 | save, duplicate, Back |
| `screens` | `TypeOK`, `OwnData`, `AbandonedFormsStayQuiet`, `SignInLeadsBack`, `NothingReverted` | an organizer and another user, 2 requests on the way, 2 edits here or elsewhere, 2 saves |

Why the bounds are enough.  Two holds and two orders let one action meet another
on the same seat, buyer, type or batch, and let one stay behind.  A clock of 0..2 with
holds of one tick and `now` one tick old gives a hold that is live for one
handler and overdue for another at the same moment.  Two seats give orders of
several rows and groups that disagree in part.  In `expiry` two groups, or two orders,
can be overdue at once, so a batch of one leaves the other behind.  In `seats` one request
at a time is between its read and the lock, among all handlers without such a read; two that
cross are in `general`, and in the theorems for both seating modes.  In the catalog two management requests are
enough for one to act on what the other has changed, and capacities, quantities
and prices of two values each reach both sides of every comparison.  In the client
two accounts are one that leaves and one that comes (`session_live` has one account: that
`ImplementsAccount` also holds across a change of account is theorem `SessionIsAnAccount`); three tokens are a session,
its rotation and the session of another sign-in; two flights are one of an ended epoch beside one of the
present; two requests on the way let a write meet a later write or a sign-in; two
edits let a draft differ from what was saved and from what is loaded.  What depends on more identities than that is
proved for any number (section 5).

Fairness.  The runs of `EventCatalog`, `EventEditor` and `WebScreens` are about
safety and assume none.  In
`Checkout`, `Deployed` has weak fairness of the clock and of the order
pass's discovery (`worker.py` runs it every 60 seconds, one instance at a time)
and strong fairness of handling the next due order: a worker may crash between any
two orders, but the process manager starts it again and it does not crash before
the first order of its batch every time.  Nothing else is fair: buyers, payments and event
edits may never happen.  `WithHoldWorker` adds weak fairness of the hold pass,
for the separate process `app.tasks.expire_holds` that `expire_holds.py:4` asks for in
production.  `expiry` runs under `WithHoldWorker`; `starved` under `Deployed`, so what it
shows is not that a worker stopped.

In `SessionClient` every runnable continuation runs (the event loop of
JavaScript), every storage operation ends, and every request is answered or fails:
`fetch` settles, as does a native storage call.  Sign-in, sign-out, requests,
crashes and suspensions may never happen.

Every property of a passing run has a mutant: a plausible bug, kept in the
module next to the definition it would replace and marked as such, under which the same run finds the property
violated.

## 4. Findings

1. **Double refund, oversold** (`oversell`; `order_service.py:588`).  Two
   cancellations of one free registration pass the lock one after the other,
   both with the status read before it; both refund.  `refund_inventory` lets
   them while other units of the type are sold, the freed place is sold again.
   Assigned seats are protected: the second finds its rows already released.
2. **An order that never ends** (`starved`; `order_service.py:630`).  With general
   admission a confirmation that read `pending` waits while its order is released;
   another order reserves the unit; the confirmation then takes that unit.  When the
   second order is due, `release_inventory` finds too few reserved units and raises, the
   pass ends there, and so does every later one: the order and all that are due after it
   stay pending.  `expire_orders.py:1` says "pending checkouts cannot hold inventory
   indefinitely".  With assigned seats it cannot happen (`SeatOrdersEnd`).
3. **The editor opens on data from before the save** (`editor_obsolete`;
   `data.ts:41`).  A save puts its answer into the form; the hook keeps the event as
   it was loaded.  *Duplicate* navigates to the copy without leaving the
   `EventEditor`; *Back* before the copy is loaded finds a state of the same path,
   version and request, so the form mounts on the old event, and saving it writes
   the old values back.

Seen while modelling, and stated by no run of their own:

* `order_service.py:630`: besides finding 2, an order confirmed that late was placed at
  a price that may have been edited since nothing was reserved: it is paid at another
  price than its type has.  `OrdersKeepTheirPrice` leaves such orders out, and with general
  admission `CountersBelongToOrders` the types that have one.  With assigned seats
  `confirm_hold` refuses it (`OrderMoves`).
* `seat_service.py:403`: `confirm_hold` refuses an event that is not public any more,
  `create_order` does not: an order on it can be placed and never be paid.
* `order_service.py:594`: a cancellation of an order that was released meanwhile
  commits an `order.cancelled` audit entry (`audits`) without a change.
* `worker.py:26`: the hold worker is not among `JOBS`, though `docs/architecture.md:13` of
  the backend names hold expiry first of the periodic jobs; `expire_holds.py:4` says
  that it is a process of its own.  `HoldsEnd` fails under `Deployed`, the jobs
  `worker.py` starts, and holds under `WithHoldWorker`.
* `event_service.py:283`: a publication that saw a draft brings a cancelled event back.
  Two overlapping requests can also leave more places than the event's capacity
  (`ticket_type_service.py:90`) and assigned seating without a layout
  (`event_service.py:229`).  The cause is one: what the access check has read is what the
  handler judges by.  `CancelledIsFinal`, `CapacityCoversTypes` and `AssignedHasLayout` are
  claimed for every event on which no request acted that had seen an older one
  (`outdated`), whatever else was in flight; without that exception all three fail.
* `session.ts:154`: new credentials that storage refuses to the current sign-in are
  forgotten without being revoked; only when the epoch has moved does the code
  revoke (the last line of `NoneSlipsAway`).
* `session.ts:321`: the process may die when `logout()` has revoked a token and not
  yet removed it from the disk; the next start sends it and raises the reuse
  alarm.  `RaisesNoAlarm` is about one life of the process.
* `Editor.tsx:104`, `:171`: the answer to a duplication or creation navigates also when
  the user has left the form; a creation whose answer is lost and which is
  submitted again makes two events.
* `data.ts:13`: the answer to a profile that was saved on the page before makes the
  editor load again and drops what was typed; `ProfilePage.tsx:132`: so does a
  failed background fetch for the organizer form.
* `ProfilePage.tsx:194`: "PATCH sends changed fields only" (`docs/F1_CHECKLIST.md:28` of
  the frontend) is decided against the profile last published or cached.  Another
  tab saves, a refetch (TanStack Query's default when the window gets the focus) or
  the answer to a form that was left replaces that profile under a mounted form, whose
  `values` stay: the untouched field now differs, is sent, and is put back.
  `NothingReverted` leaves out exactly the saves of such forms (`shifted`).
* `Editor.tsx:165`: the PATCH of a form that was left may reach the server after a later
  save of the same event and overwrite it; `SavedMeansStored` leaves such events out
  (`meddled`).
* `App.tsx:89`: a sign-out that waits disables the button for the next session.
* `model.ts:34`: the form works in minutes; seconds of a stored time are cut off by
  a save, and an event in an hour that is repeated by the clock cannot be saved.

`TicketsFollowOrder` and `CountersWithinChecks` hold in spite of the double refund and
the late confirmation, and are proved.
`OrderMoves` is stated for assigned seats, where a released order is never confirmed;
`GAAccounting` for general admission runs until a handler has acted on an outdated
status.

## 5. Proofs

Every invariant and every action property that a passing run checks is also a theorem,
and so are the refinements, but for liveness.  The theorems hold for every number of
users, seats, events, ticket types, holds, orders, requests, calls, tokens, writes, edits and
restarts, and every value of the other constants that meets the assumption of its
module (`ConstantsAssumption`, `CatalogAssumption`, `SessionAssumption`,
`ScreensAssumption`, `EditorAssumption`): finite sets of what is counted, natural numbers,
batches of at least one, identities that differ, at least one token.

| theorem | property |
|---|---|
| *`CheckoutProofs`* | |
| `TypeCorrect` | `TypeOK` |
| `CountersNeverBreakChecks` | `CountersWithinChecks` |
| `NoDoubleBooking`, `RowsNeverPart` | `OneActiveRowPerSeat`, `RowsFollowGroup` |
| `HoldsKeepTheirOrder` | `HoldKeepsItsOrder` |
| `TicketsAlwaysFollow` | `TicketsFollowOrder` |
| `SoldSeatsAreTicketed` | `SoldSeatsHaveTickets` |
| `SeatOrdersMoveOnce` (assigned seats) | `OrderMoves` |
| *`InventoryProofs`* | |
| `CountersAreTheSeats` (assigned seats) | `SeatAccounting` |
| `CountersAreTheOrders` (general admission) | `GAAccounting` |
| `SeatsImplementMarket` | `ImplementsMarket` |
| *`CatalogProofs`* | |
| `CatalogTypeCorrect` | `TypeOK` |
| `OrdersKeepEventPublished` | `OrdersOnlyWhilePublished` |
| `OrdersFixSeating` | `SeatingFixedByOrders` |
| `ShrinkingKeepsChecks` | `AllocatedWithinTotal` |
| `CountersAreTheEventsOwn` | `CountersBelongToOrders` |
| `PricesAreKept` | `OrdersKeepTheirPrice` |
| `CancelledStaysFinal`, `SeatedEventsHaveLayout`, `CapacityIsKept` | `CancelledIsFinal`, `AssignedHasLayout`, `CapacityCoversTypes` |
| *`SessionProofs`* | |
| `SessionTypeCorrect` | `TypeOK` |
| `OneAccountIsShown` | `ShowsItsAccount` |
| `TokensAreSpentOnce` | `SpendsOnce` |
| `DiskKeepsUp` | `DiskFollowsSession` |
| `NoAlarmIsRaised` | `RaisesNoAlarm` |
| `NothingSlipsAway` | `NoneSlipsAway` |
| `LogoutsAreTrue` | `LogoutIsTrue`, which no run checks |
| `SessionIsAnAccount` | the safety half of `ImplementsAccount` |
| *`ScreensProofs`* | |
| `ScreensTypeCorrect` | `TypeOK` |
| `CacheIsPrivate` | `OwnData` |
| `AbandonedFormsNeverNavigate` | `AbandonedFormsStayQuiet` |
| `SignInsLeadBack` | `SignInLeadsBack` |
| `SavesChangeWhatWasTyped` | `NothingReverted` |
| *`EditorProofs`* | |
| `EditorTypeCorrect` | `TypeOK` |
| `SavedIsStored` | `SavedMeansStored` |
| `TicketsAreFresh` | `NeverStaleTickets` |
| `DialogFitsStatus` | `DialogMatchesStatus` |
| `DraftsSurvive` | `DraftSurvives` |
| *`EventForms`* | |
| `PriceRoundTrip`, `ToInstantSound`, `ToInstantExact`, `TimeRoundTrip`, `UntouchedTimesStay` | inputs of the event forms |

### The checkout

* `TypeCorrect` needs that a busy request refers to an order (`Typed`).
* `CountersNeverBreakChecks` rests on one lemma per counter update
  (`TicketCountersProofs`): each `WHERE` clause implies the `CHECK`s after the
  `SET`.  No fact about orders is needed, which is why stale requests cannot
  break it.
* `NoDoubleBooking` and `RowsNeverPart` are inductive only together (`Ledger`).
  A held row may not occupy its seat in the map because its group has run
  out by `now`; that the row's group is then *held* and overdue, and so expired
  by `create_hold` before it inserts, is what `RowsFollowGroup` says.
* `HoldsKeepTheirOrder` needs that a group that was not created yet has no order.
* `TicketsAlwaysFollow` needs three facts about the requests in flight
  (`TicketLedger`): an unconfirmed order has no tickets; an order that a
  confirmation has seen never lost tickets; a registration a cancellation has seen
  free is free still or has lost them.  So a stale confirmation and a stale
  cancellation never meet on one order.
* `SoldSeatsAreTicketed` relates four ledgers.  What is inductive (`Books`) is that the
  holds of an order have the status its own status calls for, and that the seats of an
  order are those of the rows of its holds (`Sales`).  `SeatOrdersMoveOnce` follows: a released
  order has no held group, and a confirmation without one is refused.
* `CountersAreTheSeats` counts.  The rows of one type and one status are a set of
  cells; each handler moves some of them, and each counter update moves the same number.
  A handler knows that number from the order's units, so the units of an order must
  be the cardinality of its rows (`UnitsAreRows`).  That the `WHERE` clauses never refuse what
  the ledger allows comes out of it.
* `CountersAreTheOrders` does the same with one element per unit (`GABooks`): there are no
  holds, and as long as nobody acted on an outdated status, reserved is what pending
  orders have and sold minus refunded is what ticketed ones have.
* `SeatsImplementMarket`: the map of a state is drawn seat by seat from the one active
  row.  `create_hold` may expire and claim at once; the refinement shows that whatever it
  takes from others had run out before.

### The event catalog

* `OrdersKeepEventPublished` is inductive with the types: an order is placed
  under the lock on a published event, and whoever takes the status away looks for
  orders under the lock.  A publication acting on an outdated status can only
  write what is there.  `OrdersFixSeating` follows: a request that would write
  another seating than the one it saw finds the order, and one that keeps the
  seating it saw writes nothing, also when there is another by now.
* `ShrinkingKeepsChecks` reuses the lemmas of `TicketCountersProofs`; the only new
  fact is that a total that covers what is allocated passes the `CHECK`s.  It does
  not matter which capacity the request has seen.
* `CountersAreTheEventsOwn` and `PricesAreKept` are one induction (`Ledger`): rows
  belong to events that exist (`Home`); of a type no outdated payment or refund has touched
  each counter is a sum over orders (`Sums`); what an outdated one leaves true is that
  what was sold stays counted and that it happens without seats only (`Bought`).  An order
  that adds to such a sum keeps a counter above zero, which locks the price; and if its
  reservation was taken by a late payment, that sale does (`OrdersLockPrices`).
* `CancelledStaysFinal`, `SeatedEventsHaveLayout` and `CapacityIsKept` let requests overlap
  in any way.  A request that writes an event and leaves it out of `outdated` has seen what is
  there (`WhatWasSeen`), buyers write counters only (`PublicKeepsTerms`), and an event once
  in `outdated` stays there (`OutdatedGrows`).

### The clients

* `SessionProofs` starts from one invariant.  Every credential that a task of the current
  epoch carries belongs to the account of `credentials`, and an epoch ends whenever
  that account does (`TasksOK`, `MemoryOK`): so what such a task publishes keeps
  `ShowsItsAccount`, and a task of an ended epoch publishes nothing.  A token that is
  not published yet is held by one task alone and was never spent, nor was the one on
  the disk when a start reads it (`StorageOK`, `BootOK`, `HistoryOK`).
  `TokensAreSpentOnce` follows: only one step spends a token, and it is taken
  only when the durable copy is known to be gone, so a restart cannot send it again.
  `SessionIsAnAccount` maps every step of a task to a sign-in, a sign-out, an
  account that appears out of "loading" or a stutter.
* `DiskKeepsUp` is about the storage queue (`DiskOK`): after any write that the
  session no longer stands behind there is an unconditional operation further back.
* `NothingSlipsAway` goes through the continuations: only an answer, a save and a
  revocation that ended let go of new credentials.  The first two keep them or send them
  on to the revocation; that a revocation confirmed by the server has killed the
  token (`DeadOnceRevoked`) is invariant, since no token is issued twice.
* `NoAlarmIsRaised` and `LogoutsAreTrue` need the line of tokens that a sign-in begins
  (`ChainOK`).  At most one token of a line is alive.  A token that may be on its way to a
  refresh, or in a request of a process that died, is kept apart from those that a
  sign-out holds, unless the server has seen the latter lapse and so refuses them
  (`PartedOK`); the one a sign-out revokes is therefore the last of its line
  (`LoneOK`), and nothing is born after it.  Until the first restart whatever may
  still be sent is alive (`FirstLife`).  `LogoutsAreTrue` relies on the model's refreshes:
  each follows a 401, so a logout that crosses one presents a lapsed access token, is
  refused, and does not resolve.
* `ScreensProofs` rests on two lemmas about `Render`, the last part of every action.
  What it is given decides what is mounted, cached and still awaited (`RenderMounts`).  So a
  request is `mine` only while its screen is mounted and `current` only for the user who is
  signed in (`Mounted`), and the destinations that auth pages and their requests carry have
  been asked for (`Asked`).
* `SavesChangeWhatWasTyped` adds `Typed` (`RenderTyped`): whatever a form has that was not
  typed is what the published user or the cached profile has, unless that was replaced under
  it (`shifted`); and the server writes the fields of the request's body and no other.
  So what another session, or a form that was left, has saved meanwhile is not touched.
* `EditorProofs` has one invariant for the whole editor (`Shaped` and `Screens`).  A write
  that is `mine` belongs to the mounted form, whose buttons it disables, so at most one
  of the main ones is on the way; what it was answered is what the server has unless
  another form's write came in between; a hook loads for the page that is mounted and
  gets nothing older than what the editor was told.
* The theorems of `EventForms` are about every price and every time zone.
  `ToInstantSound` needs nothing of the zone: a candidate is accepted only if it
  shows what was typed, and every candidate is the start of a minute.  So a stored time comes
  back as the start of its minute (`TimeRoundTrip`): the seconds are gone.  `ToInstantExact` assumes offsets within 18 hours and at
  most one change in the 36 hours before and after (`OneChange`); `ProbesSuffice` is
  its core: whatever instant shows the time, it is within 18 hours of it, so the
  probe 36 hours away on its own side of the change has its offset.  `UntouchedTimesStay` composes
  them over the four times of a form.

### Only model-checked

`SeatOrdersEnd`, `HoldsEnd`, `CallsSettle` and the liveness that `ImplementsAccount`
contains: they hold under fairness, which is outside the proof system.

## 6. Not modelled

* Row locks below the event row and the user row of `create_order`; with them the
  lock-order deadlock and the retry under one idempotency key.
* Dates and texts of events, venues, images, share tokens, public listings.
* Ungrouped `seat_holds` of P0: nothing creates them.
* `check_in_inventory` has an operator and lemmas; no handler calls it at this commit.
* Attendees, PDF, QR payloads, e-mail, logging.
* Registration, e-mail tokens and password reset on the server; the rate limiter; money.
* Session client: the 30 days after which a refresh token expires, the public
  `refresh()` (with it a logout may cross a refresh whose access token has not lapsed, and
  `LogoutIsTrue` does not cover that), the memory store of the web (it survives nothing, so there is
  nothing on the disk to relate it to).
* Web screens: validation of inputs, wording, locales; the foundation page.
* Event editor: the venue selector and its pages, images, assigned seating, an
  unverified address, edits of the event from other sessions, the Forward button.
* Event inputs: `searchQuery`, `salesState`.
* Mobile screens (one panel over the session client), public event lists, generated
  code, migrations, stubs.

## 7. Plan

Done: the checkout, the event catalog, the session client, the web screens, the event
editor, the event inputs.  Left, in order: (1) `RowLocks`: user and event row locks of
`create_order`, `create_hold` and the audited handlers, deadlock and idempotent
retries; (2) password reset and e-mail tokens beside the rotations of
`SessionClient`; (3) the rate limiter and money, as functions checked against reference
definitions; and the proofs that these modules call for.

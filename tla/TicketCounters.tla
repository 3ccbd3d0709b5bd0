--------------------------- MODULE TicketCounters ---------------------------
(***************************************************************************)
(* The four counters of one row of ticket_types and the conditional        *)
(* UPDATEs of ticket_type_service.py that move units between them.  Each   *)
(* operation is a predicate (the WHERE clause: without it the UPDATE finds *)
(* no row and the service returns False) and an effect (the SET clause).   *)
(* Quantities are natural numbers; Pydantic and the services refuse        *)
(* quantity <= 0, and an effect with 0 is the row the loop never touches.  *)
(***************************************************************************)
EXTENDS Integers

Counters == [reserved : Int, sold : Int, refunded : Int, checkedIn : Int]

NoUnits == [reserved |-> 0, sold |-> 0, refunded |-> 0, checkedIn |-> 0]

(* Units that are promised or sold and not given back. *)
InUse(c) == c.reserved + c.sold - c.refunded

(* Sold units whose ticket is neither refunded nor scanned at the door. *)
Refundable(c) == c.sold - c.refunded - c.checkedIn

(* What the public availability endpoint shows: never below zero. *)
Available(c, total) == IF total >= InUse(c) THEN total - InUse(c) ELSE 0

CanReserve(c, n, total) == InUse(c) + n <= total
Reserve(c, n) == [c EXCEPT !.reserved = @ + n]

CanRelease(c, n) == c.reserved >= n
Release(c, n) == [c EXCEPT !.reserved = @ - n]

CanConfirm(c, n) == c.reserved >= n
Confirm(c, n) == [Release(c, n) EXCEPT !.sold = @ + n]

(* Mutant: refunds made before are not subtracted.                          *)
CanRefundSold(c, n) == c.sold - c.checkedIn >= n

CanRefund(c, n) == Refundable(c) >= n
Refund(c, n) == [c EXCEPT !.refunded = @ + n]

CanCheckIn(c, n) == Refundable(c) >= n
CheckIn(c, n) == [c EXCEPT !.checkedIn = @ + n]

-----------------------------------------------------------------------------
(* The CHECK constraints of the table; an UPDATE that broke one would be    *)
(* refused by PostgreSQL with an error no handler expects.                  *)

NotOversold(c, total) == InUse(c) <= total

CountersNotNegative(c) ==
  c.reserved >= 0 /\ c.sold >= 0 /\ c.refunded >= 0 /\ c.checkedIn >= 0

RefundsNotAboveSales(c) == c.refunded <= c.sold

CheckinsAndRefundsValid(c) == c.checkedIn + c.refunded <= c.sold

ChecksHold(c, total) ==
  /\ NotOversold(c, total)
  /\ CountersNotNegative(c)
  /\ RefundsNotAboveSales(c)
  /\ CheckinsAndRefundsValid(c)
=============================================================================

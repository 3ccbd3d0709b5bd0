------------------------ MODULE TicketCountersProofs ------------------------
(***************************************************************************)
(* Each conditional UPDATE of ticket_type_service.py keeps every CHECK     *)
(* constraint of ticket_types: the WHERE clauses are strong enough, so no  *)
(* caller ever sees an IntegrityError instead of a False.  And what each    *)
(* does to the counters one by one, with the counting that goes with it.   *)
(***************************************************************************)
EXTENDS TicketCounters, FiniteSetTheorems, TLAPS

LEMMA NoUnitsAreCounters == NoUnits \in Counters
  BY DEF NoUnits, Counters

LEMMA ReserveKeepsType ==
  ASSUME NEW c \in Counters, NEW n \in Int
  PROVE  Reserve(c, n) \in Counters
  BY DEF Reserve, Counters

LEMMA ReleaseKeepsType ==
  ASSUME NEW c \in Counters, NEW n \in Int
  PROVE  Release(c, n) \in Counters
  BY DEF Release, Counters

LEMMA ConfirmKeepsType ==
  ASSUME NEW c \in Counters, NEW n \in Int
  PROVE  Confirm(c, n) \in Counters
  <1>1. Release(c, n) \in Counters
    BY ReleaseKeepsType
  <1>2. QED
    BY <1>1 DEF Confirm, Counters

LEMMA RefundKeepsType ==
  ASSUME NEW c \in Counters, NEW n \in Int
  PROVE  Refund(c, n) \in Counters
  BY DEF Refund, Counters

LEMMA CheckInKeepsType ==
  ASSUME NEW c \in Counters, NEW n \in Int
  PROVE  CheckIn(c, n) \in Counters
  BY DEF CheckIn, Counters

(* A fresh ticket type satisfies the CHECK constraints.                    *)
LEMMA NoUnitsPassChecks ==
  ASSUME NEW total \in Nat
  PROVE  ChecksHold(NoUnits, total)
  BY DEF NoUnits, ChecksHold, NotOversold, CountersNotNegative,
         RefundsNotAboveSales, CheckinsAndRefundsValid, InUse

LEMMA ReserveKeepsChecks ==
  ASSUME NEW c \in Counters, NEW n \in Nat, NEW total \in Nat,
         ChecksHold(c, total), CanReserve(c, n, total)
  PROVE  ChecksHold(Reserve(c, n), total)
  BY DEF Counters, Reserve, CanReserve, ChecksHold, NotOversold, InUse,
         CountersNotNegative, RefundsNotAboveSales, CheckinsAndRefundsValid

LEMMA ReleaseKeepsChecks ==
  ASSUME NEW c \in Counters, NEW n \in Nat, NEW total \in Nat,
         ChecksHold(c, total), CanRelease(c, n)
  PROVE  ChecksHold(Release(c, n), total)
  BY DEF Counters, Release, CanRelease, ChecksHold, NotOversold, InUse,
         CountersNotNegative, RefundsNotAboveSales, CheckinsAndRefundsValid

LEMMA ConfirmKeepsChecks ==
  ASSUME NEW c \in Counters, NEW n \in Nat, NEW total \in Nat,
         ChecksHold(c, total), CanConfirm(c, n)
  PROVE  ChecksHold(Confirm(c, n), total)
  <1>1. Release(c, n) \in Counters
    BY ReleaseKeepsType
  <1>2. /\ Confirm(c, n).reserved = c.reserved - n
        /\ Confirm(c, n).sold = c.sold + n
        /\ Confirm(c, n).refunded = c.refunded
        /\ Confirm(c, n).checkedIn = c.checkedIn
    BY <1>1 DEF Confirm, Release, Counters
  <1>3. QED
    BY <1>2 DEF Counters, CanConfirm, ChecksHold, NotOversold, InUse,
       CountersNotNegative, RefundsNotAboveSales, CheckinsAndRefundsValid

LEMMA RefundKeepsChecks ==
  ASSUME NEW c \in Counters, NEW n \in Nat, NEW total \in Nat,
         ChecksHold(c, total), CanRefund(c, n)
  PROVE  ChecksHold(Refund(c, n), total)
  BY DEF Counters, Refund, CanRefund, Refundable, ChecksHold, NotOversold, InUse,
         CountersNotNegative, RefundsNotAboveSales, CheckinsAndRefundsValid

LEMMA CheckInKeepsChecks ==
  ASSUME NEW c \in Counters, NEW n \in Nat, NEW total \in Nat,
         ChecksHold(c, total), CanCheckIn(c, n)
  PROVE  ChecksHold(CheckIn(c, n), total)
  BY DEF Counters, CheckIn, CanCheckIn, Refundable, ChecksHold, NotOversold, InUse,
         CountersNotNegative, RefundsNotAboveSales, CheckinsAndRefundsValid

(* A unit reserved and confirmed in one transaction (a free GA order).     *)
LEMMA ReserveThenConfirmKeepsChecks ==
  ASSUME NEW c \in Counters, NEW n \in Nat, NEW total \in Nat,
         ChecksHold(c, total), CanReserve(c, n, total)
  PROVE  ChecksHold(Confirm(Reserve(c, n), n), total)
  <1>1. Reserve(c, n) \in Counters /\ ChecksHold(Reserve(c, n), total)
    BY ReserveKeepsType, ReserveKeepsChecks
  <1>2. CanConfirm(Reserve(c, n), n)
    BY DEF Counters, Reserve, CanConfirm, ChecksHold, CountersNotNegative
  <1>3. QED
    BY <1>1, <1>2, ConfirmKeepsChecks

-----------------------------------------------------------------------------
(* What the updates do to the counters that the properties compare.        *)
LEMMA CounterEffects ==
  ASSUME NEW c \in Counters, NEW n \in Int
  PROVE  /\ Reserve(c, n).reserved = c.reserved + n
         /\ Reserve(c, n).sold = c.sold /\ Reserve(c, n).refunded = c.refunded
         /\ Release(c, n).reserved = c.reserved - n
         /\ Release(c, n).sold = c.sold /\ Release(c, n).refunded = c.refunded
         /\ Confirm(c, n).reserved = c.reserved - n
         /\ Confirm(c, n).sold = c.sold + n /\ Confirm(c, n).refunded = c.refunded
         /\ Refund(c, n).refunded = c.refunded + n
         /\ Refund(c, n).sold = c.sold /\ Refund(c, n).reserved = c.reserved
         /\ c.reserved \in Int /\ c.sold \in Int /\ c.refunded \in Int
  <1>1. c \in [reserved : Int, sold : Int, refunded : Int, checkedIn : Int]
    BY DEF Counters
  <1>2. /\ Release(c, n) = [reserved |-> c.reserved - n, sold |-> c.sold,
                            refunded |-> c.refunded, checkedIn |-> c.checkedIn]
        /\ Release(c, n) \in Counters
    BY <1>1, ReleaseKeepsType DEF Release, Counters
  <1>3. Confirm(c, n) = [reserved |-> c.reserved - n, sold |-> c.sold + n,
                         refunded |-> c.refunded, checkedIn |-> c.checkedIn]
    BY <1>2 DEF Confirm
  <1>4. QED
    BY <1>1, <1>2, <1>3 DEF Reserve, Refund

(* Counting what is taken from a set, and what is added to it.             *)
LEMMA CountLess ==
  ASSUME NEW S, IsFiniteSet(S), NEW T \in SUBSET S
  PROVE  /\ Cardinality(S \ T) = Cardinality(S) - Cardinality(T)
         /\ Cardinality(S) \in Nat /\ Cardinality(T) \in Nat
  <1>1. S \cap T = T /\ IsFiniteSet(T)
    BY FS_Subset
  <1>2. QED
    BY <1>1, FS_Difference, FS_CardinalityType

LEMMA CountMore ==
  ASSUME NEW S, IsFiniteSet(S), NEW T, IsFiniteSet(T), S \cap T = {}
  PROVE  /\ Cardinality(S \cup T) = Cardinality(S) + Cardinality(T)
         /\ Cardinality(S) \in Nat /\ Cardinality(T) \in Nat
  <1>1. Cardinality(S \cap T) = 0
    BY FS_EmptySet
  <1>2. Cardinality(S \cup T) = Cardinality(S) + Cardinality(T) - Cardinality(S \cap T)
    BY FS_Union
  <1>3. Cardinality(S) \in Nat /\ Cardinality(T) \in Nat
    BY FS_CardinalityType
  <1>4. QED
    BY <1>1, <1>2, <1>3
=============================================================================

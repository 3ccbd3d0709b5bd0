----------------------------- MODULE MCCheckout -----------------------------
(* Instances of Checkout for TLC.                                          *)
EXTENDS Checkout, TLC

CONSTANTS u1, u2, s1, s2, free, paid, g1, g2, g3, o1, o2, o3, r1, r2

(* One type, of price 0 or not, sold for every seat.                       *)
AnySeat == [tt \in TicketTypes |-> Seats]

OneEach == [tt \in TicketTypes |-> 1]
TwoEach == [tt \in TicketTypes |-> 2]

(* The paid type can sell out before the seats do.                         *)
TwoFree == [tt \in TicketTypes |-> IF tt = free THEN 2 ELSE 1]

(* Users, groups, orders and requests are interchangeable identities, and   *)
(* so are seats that every type is sold for.                               *)
SeatSymmetry ==
  Permutations(Users) \cup Permutations(Groups) \cup Permutations(Orders)
    \cup Permutations(Seats)

GeneralSymmetry == Permutations(Orders) \cup Permutations(Requests)
=============================================================================

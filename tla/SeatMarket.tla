----------------------------- MODULE SeatMarket -----------------------------
(***************************************************************************)
(* What assigned seating promises to buyers, seat by seat and without      *)
(* groups, rows, orders, counters or workers: a seat is free, held by one  *)
(* user until some time, or sold to one user.  While a hold runs nobody    *)
(* else gets the seat; a hold that has run out may be taken over; only a   *)
(* holder buys; a hold lasts HoldDuration at most.                         *)
(***************************************************************************)
EXTENDS Integers

CONSTANTS Users, Seats, HoldDuration, MaxTime, None

VARIABLES clock, seat

FreeSeat == [state |-> "free", owner |-> None, until |-> 0]
HeldSeat(u, e) == [state |-> "held", owner |-> u, until |-> e]
SoldSeat(u) == [state |-> "sold", owner |-> u, until |-> 0]

Held == {s \in Seats : seat[s].state = "held"}
Lapsed == {s \in Held : seat[s].until <= clock}
Free == {s \in Seats : seat[s].state = "free"}
Sold(u) == {s \in Seats : seat[s] = SoldSeat(u)}

Put(S, value) == [s \in Seats |-> IF s \in S THEN value ELSE seat[s]]

MarketInit == clock = 0 /\ seat = [s \in Seats |-> FreeSeat]

Pass == clock < MaxTime /\ clock' = clock + 1 /\ UNCHANGED seat

(* A user claims free seats and lapsed ones; other lapsed holds may be      *)
(* swept away on the same occasion.                                        *)
Claim(u, S, e) ==
  /\ S # {} /\ S \subseteq Free \cup Lapsed
  /\ e <= clock + HoldDuration
  /\ UNCHANGED clock
  /\ \E swept \in SUBSET (Lapsed \ S) :
       seat' = [s \in Seats |-> IF s \in S THEN HeldSeat(u, e)
                                ELSE IF s \in swept THEN FreeSeat ELSE seat[s]]

(* Holds end: given up by their owner, with their order, or lapsed.        *)
Drop(S) == S # {} /\ S \subseteq Held /\ seat' = Put(S, FreeSeat) /\ UNCHANGED clock

Sell(u, S) ==
  /\ S # {} /\ S \subseteq Held /\ \A s \in S : seat[s].owner = u
  /\ seat' = Put(S, SoldSeat(u))
  /\ UNCHANGED clock

(* A registration is cancelled: its buyer's seats are for sale again.      *)
Return(u, S) ==
  /\ S # {} /\ S \subseteq Sold(u)
  /\ seat' = Put(S, FreeSeat)
  /\ UNCHANGED clock

MarketNext ==
  \/ Pass
  \/ \E S \in SUBSET Held : Drop(S) \/ \E u \in Users : Sell(u, S)
  \/ \E u \in Users : \E S \in SUBSET Sold(u) : Return(u, S)
  \/ \E S \in SUBSET (Free \cup Lapsed), u \in Users, e \in 0..MaxTime : Claim(u, S, e)

MarketSpec == MarketInit /\ [][MarketNext]_<<clock, seat>>
=============================================================================

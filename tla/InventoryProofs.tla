--------------------------- MODULE InventoryProofs --------------------------
(***************************************************************************)
(* The counters of a ticket type against the ledgers: what the handlers    *)
(* reserve, confirm, release and refund by arithmetic is what they do to   *)
(* rows (assigned seats) and to orders (general admission).  And the seat  *)
(* map against the seat market that it promises to be.                     *)
(***************************************************************************)
EXTENDS CheckoutProofs

-----------------------------------------------------------------------------
(* Assigned seats.  A cell is a row: a group and a seat.                   *)
Cells(R, H, G, status, tt) ==
  {p \in G \X Seats : R[p[1]][p[2]] = status /\ H[p[1]].type = tt}

LEMMA CellsAreFinite ==
  ASSUME NEW R, NEW H, NEW G \in SUBSET Groups, NEW status, NEW tt
  PROVE  IsFiniteSet(Cells(R, H, G, status, tt))
  <1>1. IsFiniteSet(G \X Seats)
    BY ConstantsAssumption, FS_Subset, FS_Product
  <1>2. QED
    BY <1>1, FS_Subset DEF Cells

(* The units an order of seats was placed with are its rows.               *)
Rows(G, tt) == {p \in G \X Seats : rows[p[1]][p[2]] # "none" /\ groups[p[1]].type = tt}

UnitsAreRows ==
  Assigned =>
    \A o \in Orders : orders[o].status # "none" =>
      \A tt \in TicketTypes : orders[o].units[tt] = Cardinality(Rows(GroupsOf(o), tt))

(* Groups that are moved, cell by cell.                                    *)
LEMMA HoldsGiveBack ==
  ASSUME TypeOK, Ledger, NEW G, Moves(G, "held", Dropped), NEW tt
  PROVE  /\ Cells(rows', groups', Groups, "held", tt)
              = Cells(rows, groups, Groups, "held", tt) \ Cells(rows, groups, G, "held", tt)
         /\ Cells(rows', groups', Groups, "converted", tt)
              = Cells(rows, groups, Groups, "converted", tt)
  <1>1. ASSUME NEW g \in Groups, NEW s \in Seats
        PROVE  /\ rows'[g][s] = "held" <=> rows[g][s] = "held" /\ g \notin G
               /\ rows'[g][s] = "converted" <=> rows[g][s] = "converted"
               /\ groups'[g].type = groups[g].type
    <2>1. g \in G => groups[g].status = "held" /\ groups'[g].status \in Dropped
      BY DEF Moves
    <2>2. /\ rows'[g][s] = IF g \in G /\ rows[g][s] # "none"
                           THEN RowStatusOf(groups'[g].status) ELSE rows[g][s]
          /\ groups'[g].type = groups[g].type
      BY DEF Moves, Kept
    <2>3. rows[g][s] # "none" =>
            /\ rows[g][s] = "held" <=> groups[g].status = "held"
            /\ rows[g][s] = "converted" <=> groups[g].status = "sold"
      BY RowOfGroup
    <2>4. QED
      BY <2>1, <2>2, <2>3 DEF RowStatusOf, Dropped
  <1>2. QED
    BY <1>1 DEF Cells

LEMMA HoldsSell ==
  ASSUME TypeOK, Ledger, NEW G, Moves(G, "held", {"sold"}), NEW tt
  PROVE  /\ Cells(rows', groups', Groups, "held", tt)
              = Cells(rows, groups, Groups, "held", tt) \ Cells(rows, groups, G, "held", tt)
         /\ Cells(rows', groups', Groups, "converted", tt)
              = Cells(rows, groups, Groups, "converted", tt) \cup Cells(rows, groups, G, "held", tt)
  <1>1. ASSUME NEW g \in Groups, NEW s \in Seats
        PROVE  /\ rows'[g][s] = "held" <=> rows[g][s] = "held" /\ g \notin G
               /\ rows'[g][s] = "converted"
                    <=> rows[g][s] = "converted" \/ (g \in G /\ rows[g][s] = "held")
               /\ groups'[g].type = groups[g].type
    <2>1. g \in G => groups[g].status = "held" /\ groups'[g].status \in {"sold"}
      BY DEF Moves
    <2>2. /\ rows'[g][s] = IF g \in G /\ rows[g][s] # "none"
                           THEN RowStatusOf(groups'[g].status) ELSE rows[g][s]
          /\ groups'[g].type = groups[g].type
      BY DEF Moves, Kept
    <2>3. rows[g][s] # "none" =>
            /\ rows[g][s] = "held" <=> groups[g].status = "held"
            /\ rows[g][s] = "converted" <=> groups[g].status = "sold"
      BY RowOfGroup
    <2>4. QED
      BY <2>1, <2>2, <2>3 DEF RowStatusOf
  <1>2. G \subseteq Groups
    BY DEF Moves
  <1>3. QED
    BY <1>1, <1>2 DEF Cells

LEMMA SalesGiveBack ==
  ASSUME TypeOK, Ledger, NEW G, Moves(G, "sold", Dropped), NEW tt
  PROVE  /\ Cells(rows', groups', Groups, "converted", tt)
              = Cells(rows, groups, Groups, "converted", tt) \ Cells(rows, groups, G, "converted", tt)
         /\ Cells(rows', groups', Groups, "held", tt)
              = Cells(rows, groups, Groups, "held", tt)
  <1>1. ASSUME NEW g \in Groups, NEW s \in Seats
        PROVE  /\ rows'[g][s] = "converted" <=> rows[g][s] = "converted" /\ g \notin G
               /\ rows'[g][s] = "held" <=> rows[g][s] = "held"
               /\ groups'[g].type = groups[g].type
    <2>1. g \in G => groups[g].status = "sold" /\ groups'[g].status \in Dropped
      BY DEF Moves
    <2>2. /\ rows'[g][s] = IF g \in G /\ rows[g][s] # "none"
                           THEN RowStatusOf(groups'[g].status) ELSE rows[g][s]
          /\ groups'[g].type = groups[g].type
      BY DEF Moves, Kept
    <2>3. rows[g][s] # "none" =>
            /\ rows[g][s] = "held" <=> groups[g].status = "held"
            /\ rows[g][s] = "converted" <=> groups[g].status = "sold"
      BY RowOfGroup
    <2>4. QED
      BY <2>1, <2>2, <2>3 DEF RowStatusOf, Dropped
  <1>2. QED
    BY <1>1 DEF Cells

-----------------------------------------------------------------------------
LEMMA AccountsNow ==
  SeatAccounting <=>
    \A tt \in TicketTypes :
      /\ inv[tt].reserved = Cardinality(Cells(rows, groups, Groups, "held", tt))
      /\ inv[tt].sold - inv[tt].refunded
           = Cardinality(Cells(rows, groups, Groups, "converted", tt))
  BY DEF SeatAccounting, HeldUnits, ConvertedUnits, Cells

LEMMA AccountsNext ==
  SeatAccounting' <=>
    \A tt \in TicketTypes :
      /\ inv'[tt].reserved = Cardinality(Cells(rows', groups', Groups, "held", tt))
      /\ inv'[tt].sold - inv'[tt].refunded
           = Cardinality(Cells(rows', groups', Groups, "converted", tt))
  BY DEF SeatAccounting, HeldUnits, ConvertedUnits, Cells

LEMMA HeldOnlyCells ==
  ASSUME NEW G, NEW tt \in TicketTypes
  PROVE  HeldOnly(G)[tt] = Cardinality(Cells(rows, groups, G, "held", tt))
  BY DEF HeldOnly, HeldUnits, Cells

LEMMA PartOfCells ==
  ASSUME NEW G \in SUBSET Groups, NEW status, NEW tt
  PROVE  /\ IsFiniteSet(Cells(rows, groups, Groups, status, tt))
         /\ Cells(rows, groups, G, status, tt) \in SUBSET Cells(rows, groups, Groups, status, tt)
         /\ IsFiniteSet(Cells(rows, groups, G, status, tt))
         /\ Cardinality(Cells(rows, groups, G, status, tt)) \in Nat
         /\ Cardinality(Cells(rows, groups, Groups, status, tt)) \in Nat
  <1>1. IsFiniteSet(Cells(rows, groups, Groups, status, tt))
    BY CellsAreFinite
  <1>2. Cells(rows, groups, G, status, tt) \in SUBSET Cells(rows, groups, Groups, status, tt)
    BY DEF Cells
  <1>3. QED
    BY <1>1, <1>2, FS_Subset, FS_CardinalityType

LEMMA AccountDrop ==
  ASSUME TypeOK, Ledger, SeatAccounting, NEW G, Moves(G, "held", Dropped),
         inv' = ReleaseAll(HeldOnly(G))
  PROVE  SeatAccounting'
  <1> SUFFICES ASSUME NEW tt \in TicketTypes
               PROVE  /\ inv'[tt].reserved = Cardinality(Cells(rows', groups', Groups, "held", tt))
                      /\ inv'[tt].sold - inv'[tt].refunded
                           = Cardinality(Cells(rows', groups', Groups, "converted", tt))
    BY AccountsNext
  <1> DEFINE n == Cardinality(Cells(rows, groups, G, "held", tt))
  <1>1. G \in SUBSET Groups
    BY DEF Moves
  <1>2. n \in Int /\ inv[tt] \in Counters
    <2>1. n \in Nat
      BY <1>1, PartOfCells
    <2>2. QED
      BY <2>1 DEF TypeOK
  <1>3. inv'[tt] = Release(inv[tt], n)
    BY HeldOnlyCells DEF ReleaseAll
  <1>4. Cardinality(Cells(rows', groups', Groups, "held", tt))
          = Cardinality(Cells(rows, groups, Groups, "held", tt)) - n
    BY <1>1, PartOfCells, HoldsGiveBack, CountLess
  <1>5. Cells(rows', groups', Groups, "converted", tt) = Cells(rows, groups, Groups, "converted", tt)
    BY HoldsGiveBack
  <1> HIDE DEF n
  <1>6. /\ inv'[tt].reserved = inv[tt].reserved - n
        /\ inv'[tt].sold = inv[tt].sold /\ inv'[tt].refunded = inv[tt].refunded
    BY <1>2, <1>3, CounterEffects
  <1>7. QED
    BY <1>4, <1>5, <1>6, AccountsNow

LEMMA AccountSell ==
  ASSUME TypeOK, Ledger, SeatAccounting, NEW G, Moves(G, "held", {"sold"}),
         inv' = ConfirmAll(HeldOnly(G))
  PROVE  SeatAccounting'
  <1> SUFFICES ASSUME NEW tt \in TicketTypes
               PROVE  /\ inv'[tt].reserved = Cardinality(Cells(rows', groups', Groups, "held", tt))
                      /\ inv'[tt].sold - inv'[tt].refunded
                           = Cardinality(Cells(rows', groups', Groups, "converted", tt))
    BY AccountsNext
  <1> DEFINE n == Cardinality(Cells(rows, groups, G, "held", tt))
  <1>1. G \in SUBSET Groups
    BY DEF Moves
  <1>2. n \in Int /\ inv[tt] \in Counters
    <2>1. n \in Nat
      BY <1>1, PartOfCells
    <2>2. QED
      BY <2>1 DEF TypeOK
  <1>3. inv'[tt] = Confirm(inv[tt], n)
    BY HeldOnlyCells DEF ConfirmAll
  <1>4. Cardinality(Cells(rows', groups', Groups, "held", tt))
          = Cardinality(Cells(rows, groups, Groups, "held", tt)) - n
    BY <1>1, PartOfCells, HoldsSell, CountLess
  <1>5. Cells(rows, groups, Groups, "converted", tt) \cap Cells(rows, groups, G, "held", tt) = {}
    BY DEF Cells
  <1>6. Cardinality(Cells(rows', groups', Groups, "converted", tt))
          = Cardinality(Cells(rows, groups, Groups, "converted", tt)) + n
    <2>1. /\ IsFiniteSet(Cells(rows, groups, Groups, "converted", tt))
          /\ IsFiniteSet(Cells(rows, groups, G, "held", tt))
      BY <1>1, PartOfCells
    <2>2. Cells(rows', groups', Groups, "converted", tt)
            = Cells(rows, groups, Groups, "converted", tt) \cup Cells(rows, groups, G, "held", tt)
      BY HoldsSell
    <2>3. QED
      BY <1>5, <2>1, <2>2, CountMore
  <1>7. /\ Cardinality(Cells(rows, groups, Groups, "converted", tt)) \in Nat
        /\ Cardinality(Cells(rows, groups, Groups, "held", tt)) \in Nat
    BY PartOfCells
  <1> HIDE DEF n
  <1>8. /\ inv'[tt].reserved = inv[tt].reserved - n
        /\ inv'[tt].sold = inv[tt].sold + n /\ inv'[tt].refunded = inv[tt].refunded
        /\ inv[tt].sold \in Int /\ inv[tt].refunded \in Int
    <2>1. /\ Confirm(inv[tt], n).reserved = inv[tt].reserved - n
          /\ Confirm(inv[tt], n).sold = inv[tt].sold + n
          /\ Confirm(inv[tt], n).refunded = inv[tt].refunded
      BY <1>2, CounterEffects
    <2>2. inv[tt].sold \in Int /\ inv[tt].refunded \in Int
      BY <1>2 DEF Counters
    <2>3. QED
      BY <1>3, <2>1, <2>2
  <1>9. QED
    BY <1>2, <1>4, <1>6, <1>7, <1>8, AccountsNow

LEMMA AccountReturn ==
  ASSUME TypeOK, Ledger, SeatAccounting, NEW G, Moves(G, "sold", Dropped),
         inv' = [tt \in TicketTypes |->
                   Refund(inv[tt], Cardinality(Cells(rows, groups, G, "converted", tt)))]
  PROVE  SeatAccounting'
  <1> SUFFICES ASSUME NEW tt \in TicketTypes
               PROVE  /\ inv'[tt].reserved = Cardinality(Cells(rows', groups', Groups, "held", tt))
                      /\ inv'[tt].sold - inv'[tt].refunded
                           = Cardinality(Cells(rows', groups', Groups, "converted", tt))
    BY AccountsNext
  <1> DEFINE n == Cardinality(Cells(rows, groups, G, "converted", tt))
  <1>1. G \in SUBSET Groups
    BY DEF Moves
  <1>2. n \in Int /\ inv[tt] \in Counters
    <2>1. n \in Nat
      BY <1>1, PartOfCells
    <2>2. QED
      BY <2>1 DEF TypeOK
  <1>3. inv'[tt] = Refund(inv[tt], n)
    OBVIOUS
  <1>4. Cardinality(Cells(rows', groups', Groups, "converted", tt))
          = Cardinality(Cells(rows, groups, Groups, "converted", tt)) - n
    BY <1>1, PartOfCells, SalesGiveBack, CountLess
  <1>5. Cells(rows', groups', Groups, "held", tt) = Cells(rows, groups, Groups, "held", tt)
    BY SalesGiveBack
  <1>6. Cardinality(Cells(rows, groups, Groups, "converted", tt)) \in Nat
    BY PartOfCells
  <1> HIDE DEF n
  <1>7. /\ inv'[tt].refunded = inv[tt].refunded + n
        /\ inv'[tt].sold = inv[tt].sold /\ inv'[tt].reserved = inv[tt].reserved
        /\ inv[tt].sold \in Int /\ inv[tt].refunded \in Int
    BY <1>2, <1>3, CounterEffects
  <1>8. QED
    BY <1>2, <1>4, <1>5, <1>6, <1>7, AccountsNow

(* A new hold: the groups that have run out give back, and |S| seats are    *)
(* reserved for the rows of the new group.                                 *)
LEMMA NewHoldCells ==
  ASSUME TypeOK, Ledger, NEW t \in EntryTimes, NEW u \in Users, NEW g \in Groups,
         NEW tt \in TicketTypes, NEW S \in SUBSET Seats, CreateHold(u, g, tt, S, t), NEW x
  PROVE  /\ Cells(rows', groups', Groups, "held", x)
              = (Cells(rows, groups, Groups, "held", x)
                   \ Cells(rows, groups, Overdue(t), "held", x))
                \cup (IF x = tt THEN {g} \X S ELSE {})
         /\ Cells(rows', groups', Groups, "converted", x)
              = Cells(rows, groups, Groups, "converted", x)
         /\ Cells(rows, groups, Groups, "held", x) \cap ({g} \X S) = {}
  <1>1. /\ g \notin Overdue(t) /\ \A s \in Seats : rows[g][s] = "none"
        /\ groups'[g] = [status |-> "held", user |-> u, type |-> tt,
                         expires |-> t + HoldDuration, order |-> None]
        /\ \A s \in Seats : rows'[g][s] = IF s \in S THEN "held" ELSE "none"
        /\ \A h \in Groups \ {g} :
             /\ Kept(h)
             /\ \A s \in Seats :
                  rows'[h][s] = IF h \in Overdue(t) /\ rows[h][s] # "none"
                                THEN "expired" ELSE rows[h][s]
    BY CreateHoldMoves
  <1>2. \A h \in Overdue(t), s \in Seats : rows[h][s] # "none" => rows[h][s] = "held"
    BY RowOfGroup DEF Overdue
  <1>3. \A h \in Groups \ {g}, s \in Seats :
          /\ rows'[h][s] = "held" <=> rows[h][s] = "held" /\ h \notin Overdue(t)
          /\ rows'[h][s] = "converted" <=> rows[h][s] = "converted"
          /\ groups'[h].type = groups[h].type
    BY <1>1, <1>2 DEF Kept
  <1>4. /\ groups'[g].type = tt
        /\ \A s \in Seats :
             /\ rows'[g][s] = "held" <=> s \in S
             /\ rows'[g][s] # "converted" /\ rows[g][s] = "none"
    BY <1>1
  <1>5. ASSUME NEW p \in Groups \X Seats
        PROVE  p \in Cells(rows', groups', Groups, "held", x)
                 <=> \/ /\ p \in Cells(rows, groups, Groups, "held", x)
                        /\ p \notin Cells(rows, groups, Overdue(t), "held", x)
                     \/ x = tt /\ p \in {g} \X S
    <2>1. PICK h \in Groups, s \in Seats : p = <<h, s>>
      OBVIOUS
    <2>2. CASE h = g
      BY <1>1, <1>4, <2>1, <2>2 DEF Cells
    <2>3. CASE h # g
      BY <1>3, <2>1, <2>3 DEF Cells
    <2>4. QED
      BY <2>2, <2>3
  <1>6. Cells(rows', groups', Groups, "held", x)
          = (Cells(rows, groups, Groups, "held", x)
               \ Cells(rows, groups, Overdue(t), "held", x))
            \cup (IF x = tt THEN {g} \X S ELSE {})
    <2>1. /\ Cells(rows', groups', Groups, "held", x) \subseteq Groups \X Seats
          /\ Cells(rows, groups, Groups, "held", x) \subseteq Groups \X Seats
          /\ {g} \X S \subseteq Groups \X Seats
      BY DEF Cells
    <2>2. QED
      BY <1>5, <2>1
  <1>7. Cells(rows', groups', Groups, "converted", x)
          = Cells(rows, groups, Groups, "converted", x)
    <2>1. \A p \in Groups \X Seats :
            p \in Cells(rows', groups', Groups, "converted", x)
              <=> p \in Cells(rows, groups, Groups, "converted", x)
      BY <1>3, <1>4 DEF Cells
    <2>2. QED
      BY <2>1 DEF Cells
  <1>8. Cells(rows, groups, Groups, "held", x) \cap ({g} \X S) = {}
    BY <1>4 DEF Cells
  <1>9. QED
    BY <1>6, <1>7, <1>8

LEMMA AccountHold ==
  ASSUME TypeOK, Ledger, SeatAccounting, NEW t \in EntryTimes, NEW u \in Users,
         NEW g \in Groups, NEW tt \in TicketTypes, NEW S \in SUBSET Seats,
         CreateHold(u, g, tt, S, t)
  PROVE  SeatAccounting'
  <1> SUFFICES ASSUME NEW x \in TicketTypes
               PROVE  /\ inv'[x].reserved = Cardinality(Cells(rows', groups', Groups, "held", x))
                      /\ inv'[x].sold - inv'[x].refunded
                           = Cardinality(Cells(rows', groups', Groups, "converted", x))
    BY AccountsNext
  <1> DEFINE late == Overdue(t)
             left == ReleaseAll(HeldOnly(late))
             all == Cells(rows, groups, Groups, "held", x)
             gone == Cells(rows, groups, late, "held", x)
             n == Cardinality(gone)
             k == Cardinality(S)
  <1>1. inv' = [left EXCEPT ![tt] = Reserve(@, k)]
    BY DEF CreateHold
  <1>2. late \in SUBSET Groups
    BY OverdueAreGroups
  <1>3. left[x] = Release(inv[x], n) /\ DOMAIN left = TicketTypes
    BY HeldOnlyCells DEF ReleaseAll
  <1>4. n \in Int /\ inv[x] \in Counters
    <2>1. n \in Nat
      BY <1>2, PartOfCells
    <2>2. QED
      BY <2>1 DEF TypeOK
  <1>5. IsFiniteSet(S) /\ k \in Nat
    BY ConstantsAssumption, FS_Subset, FS_CardinalityType
  <1>6. /\ IsFiniteSet(all \ gone) /\ Cardinality(all \ gone) = Cardinality(all) - n
        /\ Cardinality(all) \in Nat
    BY <1>2, PartOfCells, CountLess, FS_Difference
  <1>7. /\ Cells(rows', groups', Groups, "held", x)
             = (all \ gone) \cup (IF x = tt THEN {g} \X S ELSE {})
        /\ Cells(rows', groups', Groups, "converted", x)
             = Cells(rows, groups, Groups, "converted", x)
        /\ all \cap ({g} \X S) = {}
    BY NewHoldCells
  <1>8. inv[x].reserved = Cardinality(all)
        /\ inv[x].sold - inv[x].refunded = Cardinality(Cells(rows, groups, Groups, "converted", x))
    BY AccountsNow
  <1> HIDE DEF left, late, all, gone, n, k
  <1>9. /\ left[x].reserved = inv[x].reserved - n
        /\ left[x].sold = inv[x].sold /\ left[x].refunded = inv[x].refunded
        /\ left[x] \in Counters
    <2>1. /\ Release(inv[x], n).reserved = inv[x].reserved - n
          /\ Release(inv[x], n).sold = inv[x].sold
          /\ Release(inv[x], n).refunded = inv[x].refunded
      BY <1>4, CounterEffects
    <2>2. Release(inv[x], n) \in Counters
      BY <1>4, ReleaseKeepsType
    <2>3. QED
      BY <1>3, <2>1, <2>2
  <1>10. CASE x = tt
    <2>1. inv'[x] = Reserve(left[x], k)
      BY <1>1, <1>3, <1>10
    <2>2. /\ inv'[x].reserved = left[x].reserved + k
          /\ inv'[x].sold = inv[x].sold /\ inv'[x].refunded = inv[x].refunded
      <3>1. /\ Reserve(left[x], k).reserved = left[x].reserved + k
            /\ Reserve(left[x], k).sold = left[x].sold
            /\ Reserve(left[x], k).refunded = left[x].refunded
        BY <1>5, <1>9, CounterEffects
      <3>2. QED
        BY <1>9, <2>1, <3>1
    <2>3. IsFiniteSet({g} \X S) /\ Cardinality({g} \X S) = k
      <3>1. IsFiniteSet({g}) /\ Cardinality({g}) = 1
        BY FS_Singleton
      <3>2. Cardinality({g} \X S) = 1 * k /\ IsFiniteSet({g} \X S)
        BY <1>5, <3>1, FS_Product DEF k
      <3>3. QED
        BY <1>5, <3>2
    <2>4. (all \ gone) \cap ({g} \X S) = {}
      BY <1>7
    <2>5. Cardinality((all \ gone) \cup ({g} \X S)) = Cardinality(all \ gone) + k
      BY <1>6, <2>3, <2>4, CountMore
    <2>6. QED
      BY <1>4, <1>5, <1>6, <1>7, <1>8, <1>9, <1>10, <2>2, <2>5
  <1>11. CASE x # tt
    <2>1. inv'[x] = left[x]
      BY <1>1, <1>3, <1>11
    <2>2. Cells(rows', groups', Groups, "held", x) = all \ gone
      BY <1>7, <1>11
    <2>3. QED
      BY <1>6, <1>7, <1>8, <1>9, <2>1, <2>2
  <1>12. QED
    BY <1>10, <1>11

-----------------------------------------------------------------------------
(* The rows of an order stay what it was placed with.                      *)
LEMMA UnitsKept ==
  ASSUME TypeOK, Ledger, UnitsAreRows, NEW G, NEW from \in {"held", "sold"},
         NEW to \in SUBSET (Dropped \cup {"sold"}), Moves(G, from, to), SameLinks,
         \A o \in Orders : /\ orders'[o].units = orders[o].units
                           /\ (orders'[o].status = "none") = (orders[o].status = "none")
  PROVE  UnitsAreRows'
  <1>1. ASSUME NEW g \in Groups, NEW s \in Seats
        PROVE  (rows'[g][s] = "none") = (rows[g][s] = "none") /\ groups'[g].type = groups[g].type
    <2>1. g \in G => groups'[g].status \in Dropped \cup {"sold"}
      BY DEF Moves
    <2>2. g \in G => RowStatusOf(groups'[g].status) # "none"
      BY <2>1 DEF Dropped, RowStatusOf
    <2>3. QED
      BY <2>2 DEF Moves, Kept
  <1>2. ASSUME NEW o \in Orders, NEW tt
        PROVE  Rows(GroupsOf(o), tt)' = Rows(GroupsOf(o), tt)
    <2>1. GroupsOf(o)' = GroupsOf(o) /\ GroupsOf(o) \subseteq Groups
      BY DEF GroupsOf, SameLinks
    <2>2. QED
      BY <1>1, <2>1 DEF Rows
  <1>3. QED
    BY <1>2 DEF UnitsAreRows

LEMMA UnitsUntouched ==
  ASSUME UnitsAreRows, UNCHANGED <<groups, rows, orders>>
  PROVE  UnitsAreRows'
  BY DEF UnitsAreRows, Rows, GroupsOf

LEMMA UnitsHold ==
  ASSUME TypeOK, Ledger, Sales, UnitsAreRows, NEW t \in EntryTimes, NEW u \in Users,
         NEW g \in Groups, NEW tt \in TicketTypes, NEW S \in SUBSET Seats,
         CreateHold(u, g, tt, S, t)
  PROVE  UnitsAreRows'
  <1>1. /\ groups'[g] = [status |-> "held", user |-> u, type |-> tt,
                         expires |-> t + HoldDuration, order |-> None]
        /\ groups[g].status = "none"
        /\ \A h \in Groups \ {g} :
             /\ Kept(h) /\ groups'[h].order = groups[h].order
             /\ \A s \in Seats :
                  rows'[h][s] = IF h \in Overdue(t) /\ rows[h][s] # "none"
                                THEN "expired" ELSE rows[h][s]
    BY CreateHoldMoves
  <1>2. groups'[g].order = None /\ groups[g].order = None
    BY <1>1 DEF Sales, LinkOK
  <1>3. UNCHANGED orders
    BY DEF CreateHold
  <1>4. ASSUME NEW o \in Orders, NEW x
        PROVE  Rows(GroupsOf(o), x)' = Rows(GroupsOf(o), x)
    <2>1. o # None
      BY ConstantsAssumption
    <2>2. GroupsOf(o)' = GroupsOf(o) /\ GroupsOf(o) \subseteq Groups \ {g}
      BY <1>1, <1>2, <2>1 DEF GroupsOf
    <2>3. \A h \in GroupsOf(o), s \in Seats :
            (rows'[h][s] # "none") = (rows[h][s] # "none") /\ groups'[h].type = groups[h].type
      BY <1>1, <2>2 DEF Kept
    <2>4. QED
      BY <2>2, <2>3 DEF Rows
  <1>5. QED
    BY <1>3, <1>4 DEF UnitsAreRows

LEMMA UnitsPlace ==
  ASSUME TypeOK, Ledger, Sales, UnitsAreRows, NEW u \in Users, NEW o \in Orders, NEW t,
         NEW G \in SUBSET Groups, NEW status,
         SeatCart(u, o, G, t), NewLinks(G, o),
         PlacesOrder(o, u, status, CartSeats(G), HeldOnly(G)),
         Moves({}, "held", {}) \/ Moves(G, "held", {"sold"})
  PROVE  UnitsAreRows'
  <1>1. /\ orders[o].status = "none" /\ orders'[o].units = HeldOnly(G)
        /\ \A p \in Orders \ {o} : orders'[p] = orders[p]
    BY DEF PlacesOrder
  <1>2. \A g \in G : /\ groups[g].order = None
                     /\ \A s \in Seats : rows[g][s] # "none" <=> rows[g][s] = "held"
    BY DEF SeatCart, RowsOf
  <1>3. \A g \in Groups : groups[g].order # o
    BY <1>1, ConstantsAssumption DEF Sales, LinkOK
  <1>4. ASSUME NEW g \in Groups, NEW s \in Seats
        PROVE  (rows'[g][s] = "none") = (rows[g][s] = "none") /\ groups'[g].type = groups[g].type
    BY DEF Moves, Kept, RowStatusOf
  <1>5. GroupsOf(o)' = G
    BY <1>3 DEF GroupsOf, NewLinks
  <1>6. ASSUME NEW tt \in TicketTypes
        PROVE  orders'[o].units[tt] = Cardinality(Rows(GroupsOf(o), tt)')
    <2>1. Rows(GroupsOf(o), tt)' = Cells(rows, groups, G, "held", tt)
      BY <1>2, <1>4, <1>5 DEF Rows, Cells
    <2>2. QED
      BY <1>1, <2>1, HeldOnlyCells
  <1>7. ASSUME NEW p \in Orders \ {o}, NEW tt
        PROVE  Rows(GroupsOf(p), tt)' = Rows(GroupsOf(p), tt)
    <2>1. p # None
      BY ConstantsAssumption
    <2>2. GroupsOf(p)' = GroupsOf(p) /\ GroupsOf(p) \subseteq Groups
      BY <1>2, <2>1 DEF GroupsOf, NewLinks
    <2>3. QED
      BY <1>4, <2>2 DEF Rows
  <1>8. QED
    BY <1>1, <1>6, <1>7 DEF UnitsAreRows

-----------------------------------------------------------------------------
SeatBooks == SeatAccounting /\ UnitsAreRows

LEMMA SeatBooksUntouched ==
  ASSUME SeatBooks, UNCHANGED <<inv, groups, rows, orders>>
  PROVE  SeatBooks'
  <1>1. SeatAccounting'
    BY AccountsNow, AccountsNext DEF SeatBooks
  <1>2. QED
    BY <1>1, UnitsUntouched DEF SeatBooks

LEMMA SeatBooksHolds ==
  ASSUME Books, SeatBooks, HoldStep \/ HoldExpiry
  PROVE  SeatBooks'
  <1>1. TypeOK /\ Ledger /\ Sales /\ SeatAccounting /\ UnitsAreRows
    BY DEF Books, Typed, SeatBooks
  <1>2. ASSUME NEW G \in SUBSET Groups, Moves(G, "held", Dropped), SameLinks,
               inv' = ReleaseAll(HeldOnly(G)), UNCHANGED orders
        PROVE  SeatBooks'
    BY <1>1, <1>2, AccountDrop, UnitsKept DEF SeatBooks
  <1>3. ASSUME NEW t \in EntryTimes, NEW u \in Users, NEW g \in Groups, ReleaseHold(u, g, t)
        PROVE  SeatBooks'
    <2>1. UNCHANGED orders
      BY <1>3 DEF ReleaseHold
    <2>2. QED
      BY <1>1, <1>2, <1>3, <2>1, ReleaseHoldMoves
  <1>4. ASSUME NEW t, ExpireHolds(t)
        PROVE  SeatBooks'
    <2>1. UNCHANGED orders
      BY <1>4 DEF ExpireHolds
    <2>2. QED
      BY <1>1, <1>2, <1>4, <2>1, ExpireHoldsMoves
  <1>5. ASSUME NEW t \in EntryTimes, NEW u \in Users, NEW g \in Groups,
               NEW tt \in TicketTypes, NEW S \in SUBSET Seats, CreateHold(u, g, tt, S, t)
        PROVE  SeatBooks'
    BY <1>1, <1>5, AccountHold, UnitsHold DEF SeatBooks
  <1>6. QED
    BY <1>3, <1>4, <1>5 DEF HoldStep, HoldExpiry

LEMMA SeatBooksPlaces ==
  ASSUME Assigned, Books, SeatBooks, PlaceStep
  PROVE  SeatBooks'
  <1>1. TypeOK /\ Ledger /\ Sales /\ SeatAccounting /\ UnitsAreRows
    BY DEF Books, Typed, SeatBooks
  <1>2. ASSUME NEW u \in Users, NEW o \in Orders, NEW t, NEW G \in SUBSET Groups,
               PlacePaidSeatOrder(u, o, G, t)
        PROVE  SeatBooks'
    <2>1. /\ SeatCart(u, o, G, t) /\ PlacesOrder(o, u, "pending", CartSeats(G), HeldOnly(G))
          /\ Moves({}, "held", {}) /\ NewLinks(G, o) /\ UNCHANGED inv
      BY <1>1, <1>2, PaidSeatsMove
    <2>2. UnitsAreRows'
      BY <1>1, <2>1, UnitsPlace
    <2>3. \A g \in Groups, s \in Seats :
            rows'[g][s] = rows[g][s] /\ groups'[g].type = groups[g].type
      BY <2>1 DEF Moves, Kept
    <2>4. \A status, tt : Cells(rows', groups', Groups, status, tt)
                            = Cells(rows, groups, Groups, status, tt)
      BY <2>3 DEF Cells
    <2>5. SeatAccounting'
      BY <1>1, <2>1, <2>4, AccountsNow, AccountsNext
    <2>6. QED
      BY <2>2, <2>5 DEF SeatBooks
  <1>3. ASSUME NEW u \in Users, NEW o \in Orders, NEW t, NEW G \in SUBSET Groups,
               PlaceFreeSeatOrder(u, o, G, t)
        PROVE  SeatBooks'
    <2>1. /\ SeatCart(u, o, G, t)
          /\ PlacesOrder(o, u, "free_confirmed", CartSeats(G), HeldOnly(G))
          /\ Moves(G, "held", {"sold"}) /\ NewLinks(G, o) /\ inv' = ConfirmAll(HeldOnly(G))
      BY <1>1, <1>3, FreeSeatsMove
    <2>2. QED
      BY <1>1, <2>1, UnitsPlace, AccountSell DEF SeatBooks
  <1>4. QED
    BY <1>2, <1>3, GAPlaces, <1>1 DEF PlaceStep

(* An order of seats owns the rows of its groups that are still held.      *)
LEMMA OwnSeats ==
  ASSUME Assigned, Books, NEW o \in Orders, orders[o].status # "none"
  PROVE  OwnUnits(o) = HeldOnly(GroupsOf(o))
  BY DEF Books, Sales, ItemsOK, OwnUnits, HeldOnly

LEMMA SeatBooksRelease ==
  ASSUME Assigned, Books, SeatBooks, NEW o \in Orders, NEW status \in Released,
         ReleaseOrder(o, status)
  PROVE  SeatBooks'
  <1> DEFINE G == GroupsIn(GroupsOf(o), "held")
  <1>1. TypeOK /\ Ledger /\ SeatAccounting /\ UnitsAreRows
    BY DEF Books, Typed, SeatBooks
  <1>2. /\ orders[o].status = "pending" /\ Moves(G, "held", Dropped) /\ SameLinks
        /\ OnlyStatus(o, status)
    BY <1>1, ReleaseOrderMoves
  <1>3. inv' = ReleaseAll(HeldOnly(GroupsOf(o)))
    BY <1>2, OwnSeats DEF ReleaseOrder
  <1>4. inv' = ReleaseAll(HeldOnly(G))
    BY <1>1, <1>3, HeldOnlyHeld, GroupsOfAreGroups
  <1> HIDE DEF G
  <1>5. SeatAccounting'
    BY <1>1, <1>2, <1>4, AccountDrop
  <1>6. \A p \in Orders : /\ orders'[p].units = orders[p].units
                          /\ (orders'[p].status = "none") = (orders[p].status = "none")
    BY <1>2 DEF OnlyStatus, Released
  <1>7. UnitsAreRows'
    BY <1>1, <1>2, <1>6, UnitsKept
  <1>8. QED
    BY <1>5, <1>7 DEF SeatBooks

LEMMA SeatBooksConfirm ==
  ASSUME Assigned, Books, SeatBooks, NEW r \in Requests, ConfirmPaid(r)
  PROVE  SeatBooks'
  <1> DEFINE o == reqs[r].order
  <1>1. Typed /\ TypeOK /\ Ledger /\ Sales /\ TicketLedger /\ SeatAccounting /\ UnitsAreRows
    BY DEF Books, Typed, SeatBooks
  <1>2. /\ o \in Orders /\ Moves(GroupsOf(o), "held", {"sold"}) /\ SameLinks
        /\ OnlyStatus(o, "paid") /\ inv' = ConfirmAll(OwnUnits(o))
    BY <1>1, ConfirmMoves
  <1>3. orders[o].status = "pending"
    BY <1>1, ConfirmsPendingSeats
  <1> HIDE DEF o
  <1>4. inv' = ConfirmAll(HeldOnly(GroupsOf(o)))
    BY <1>2, <1>3, OwnSeats
  <1>5. SeatAccounting'
    BY <1>1, <1>2, <1>4, AccountSell
  <1>6. \A p \in Orders : /\ orders'[p].units = orders[p].units
                          /\ (orders'[p].status = "none") = (orders[p].status = "none")
    BY <1>2, <1>3 DEF OnlyStatus
  <1>7. UnitsAreRows'
    BY <1>1, <1>2, <1>6, UnitsKept
  <1>8. QED
    BY <1>5, <1>7 DEF SeatBooks

LEMMA SeatBooksCancelFree ==
  ASSUME Assigned, Books, SeatBooks, NEW r \in Requests, CancelFree(r)
  PROVE  SeatBooks'
  <1> DEFINE o == reqs[r].order
             G == GroupsIn(GroupsOf(o), "sold")
  <1>1. Typed /\ TypeOK /\ Ledger /\ TicketLedger /\ SeatAccounting /\ UnitsAreRows
    BY DEF Books, Typed, SeatBooks
  <1>2. /\ o \in Orders /\ reqs[r].kind = "cancel" /\ reqs[r].seen = "free_confirmed"
        /\ Moves(G, "sold", Dropped) /\ SameLinks /\ OnlyStatus(o, "cancelled")
        /\ inv' = [tt \in TicketTypes |-> Refund(inv[tt], orders[o].units[tt])]
        /\ \A g \in GroupsOf(o), s \in Seats : rows[g][s] # "none" => rows[g][s] = "converted"
    BY <1>1, CancelFreeMoves
  <1>3. orders[o].status \in {"free_confirmed", "cancelled"}
    BY <1>1, <1>2 DEF TicketLedger, FreeStaysFree
  <1>4. G = GroupsIn(GroupsOf(o), "sold") /\ GroupsOf(o) \in SUBSET Groups
    BY GroupsOfAreGroups
  <1> HIDE DEF o, G
  (* Every row of the order is sold, so what it was placed with is what is  *)
  (* given back.                                                           *)
  <1>5. ASSUME NEW tt \in TicketTypes
        PROVE  orders[o].units[tt] = Cardinality(Cells(rows, groups, G, "converted", tt))
    <2>1. \A g \in GroupsOf(o), s \in Seats :
            rows[g][s] # "none" <=> rows[g][s] = "converted" /\ g \in G
      <3>1. ASSUME NEW g \in GroupsOf(o), NEW s \in Seats, rows[g][s] = "converted"
            PROVE  g \in G
        BY <1>1, <1>4, <3>1, RowOfGroup DEF GroupsIn
      <3>2. QED
        BY <1>2, <3>1
    <2>2. Rows(GroupsOf(o), tt) = Cells(rows, groups, G, "converted", tt)
      BY <1>4, <2>1 DEF Rows, Cells, GroupsIn
    <2>3. QED
      BY <1>1, <1>2, <1>3, <2>2 DEF UnitsAreRows
  <1>6. inv' = [tt \in TicketTypes |->
                  Refund(inv[tt], Cardinality(Cells(rows, groups, G, "converted", tt)))]
    BY <1>2, <1>5
  <1>7. SeatAccounting'
    BY <1>1, <1>2, <1>6, AccountReturn
  <1>8. \A p \in Orders : /\ orders'[p].units = orders[p].units
                          /\ (orders'[p].status = "none") = (orders[p].status = "none")
    BY <1>2, <1>3 DEF OnlyStatus
  <1>9. UnitsAreRows'
    BY <1>1, <1>2, <1>8, UnitsKept
  <1>10. QED
    BY <1>7, <1>9 DEF SeatBooks

LEMMA SeatBooksStep ==
  ASSUME Assigned, Books, SeatBooks, [Next]_vars
  PROVE  SeatBooks'
  <1>1. Typed /\ due \subseteq Orders
    BY DEF Books, Typed, TypeOK
  <1>2. CASE RequestStep
    <2>1. ASSUME NEW r \in Requests, CancelPending(r)
          PROVE  SeatBooks'
      <3>1. reqs[r].order \in Orders /\ ReleaseOrder(reqs[r].order, "cancelled")
        BY <1>1, <2>1, FinishingType DEF CancelPending
      <3>2. "cancelled" \in Released
        BY DEF Released
      <3>3. QED
        BY <3>1, <3>2, SeatBooksRelease
    <2>2. ASSUME NEW r \in Requests,
                 \/ \E o \in Orders : BeginCancel(r, o) \/ BeginConfirm(r, o)
                 \/ CancelReleased(r) \/ CancelWithoutEffect(r) \/ ConfirmWithoutEffect(r)
          PROVE  SeatBooks'
      BY <2>2, SeatBooksUntouched DEF BeginCancel, BeginConfirm, Begin, CancelReleased,
         CancelWithoutEffect, ConfirmWithoutEffect
    <2>3. QED
      BY <1>2, <2>1, <2>2, SeatBooksConfirm, SeatBooksCancelFree DEF RequestStep
  <1>3. ASSUME NEW o \in Orders, FailPending(o) \/ ExpireOrder(o)
        PROVE  SeatBooks'
    <2>1. PICK status \in Released : ReleaseOrder(o, status)
      BY <1>3 DEF FailPending, ExpireOrder, Released
    <2>2. QED
      BY <2>1, SeatBooksRelease
  <1>4. ASSUME \/ Tick \/ EventStep \/ ScanDueOrders \/ WorkerCrash
               \/ \E o \in due : SkipOrder(o) \/ AbortPass(o)
               \/ UNCHANGED vars
        PROVE  SeatBooks'
    BY <1>4, SeatBooksUntouched DEF Tick, EventStep, PublishEvent, UnpublishEvent,
       CancelEvent, SetVisibility, EventEdit, ScanDueOrders, WorkerCrash, SkipOrder,
       AbortPass, vars
  <1>5. CASE HoldStep \/ HoldExpiry \/ PlaceStep
    BY <1>5, SeatBooksHolds, SeatBooksPlaces
  <1>6. CASE WorkerStep \/ \E o \in Orders : FailPending(o)
    BY <1>1, <1>3, <1>4, <1>6 DEF WorkerStep, HandleDueOrder
  <1>7. QED
    BY <1>2, <1>4, <1>5, <1>6 DEF Next

(* With assigned seats the counters are the seat ledger, in every state:    *)
(* reserved counts the held rows of a type and sold minus refunded its      *)
(* converted ones, whoever reserved, released, sold or gave them back, and  *)
(* however stale the status a cancellation or a payment acted on.          *)
THEOREM CountersAreTheSeats ==
  ASSUME Assigned
  PROVE  Spec => []SeatAccounting
  <1>1. Init => SeatBooks
    <2> SUFFICES ASSUME Init PROVE SeatBooks
      OBVIOUS
    <2>1. \A g \in Groups, s \in Seats : rows[g][s] = "none"
      BY DEF Init
    <2>2. \A tt : /\ Cells(rows, groups, Groups, "held", tt) = {}
                  /\ Cells(rows, groups, Groups, "converted", tt) = {}
      BY <2>1 DEF Cells
    <2>3. \A tt \in TicketTypes : /\ inv[tt].reserved = 0
                                  /\ inv[tt].sold - inv[tt].refunded = 0
      BY DEF Init, NoUnits
    <2>4. SeatAccounting
      BY <2>2, <2>3, AccountsNow, FS_EmptySet
    <2>5. UnitsAreRows
      BY DEF Init, NoOrder, UnitsAreRows
    <2>6. QED
      BY <2>4, <2>5 DEF SeatBooks
  <1>2. Books /\ SeatBooks /\ [Next]_vars => SeatBooks'
    BY SeatBooksStep
  <1>3. SeatBooks => SeatAccounting
    BY DEF SeatBooks
  <1>4. QED
    BY <1>1, <1>2, <1>3, BooksAlways, PTL DEF Spec

-----------------------------------------------------------------------------
(* General admission.  The units of some orders, one element for each.     *)
UnitsIn(O, P, tt) == {p \in P \X (1..MaxPerOrder) : p[2] <= O[p[1]].units[tt]}

InState(O, K) == {o \in Orders : O[o].status \in K}

LEMMA UnitsAreFinite ==
  ASSUME NEW O, NEW P, IsFiniteSet(P), NEW tt
  PROVE  IsFiniteSet(UnitsIn(O, P, tt)) /\ Cardinality(UnitsIn(O, P, tt)) \in Nat
  <1>1. IsFiniteSet(1..MaxPerOrder)
    BY ConstantsAssumption, FS_Interval
  <1>2. IsFiniteSet(P \X (1..MaxPerOrder))
    BY <1>1, FS_Product
  <1>3. IsFiniteSet(UnitsIn(O, P, tt))
    BY <1>2, FS_Subset DEF UnitsIn
  <1>4. QED
    BY <1>3, FS_CardinalityType

LEMMA UnitsOfOne ==
  ASSUME NEW O, NEW o, NEW tt, NEW n \in 0..MaxPerOrder, n = O[o].units[tt]
  PROVE  /\ IsFiniteSet(UnitsIn(O, {o}, tt))
         /\ Cardinality(UnitsIn(O, {o}, tt)) = n
  <1>1. n \in Nat /\ n <= MaxPerOrder /\ MaxPerOrder \in Nat
    BY ConstantsAssumption
  <1>2. UnitsIn(O, {o}, tt) = {o} \X (1..n)
    BY <1>1 DEF UnitsIn
  <1>3. IsFiniteSet(1..n) /\ Cardinality(1..n) = n
    <2>1. n \in Int /\ 1 \in Int
      BY <1>1
    <2>2. IsFiniteSet(1..n) /\ Cardinality(1..n) = IF 1 > n THEN 0 ELSE n - 1 + 1
      BY ONLY <2>1, FS_Interval
    <2>3. QED
      BY <1>1, <2>2
  <1>4. IsFiniteSet({o}) /\ Cardinality({o}) = 1
    BY FS_Singleton
  <1>5. IsFiniteSet({o} \X (1..n)) /\ Cardinality({o} \X (1..n)) = 1 * n
    <2>1. /\ IsFiniteSet({o} \X (1..n))
          /\ Cardinality({o} \X (1..n)) = Cardinality({o}) * Cardinality(1..n)
      BY ONLY <1>3, <1>4, FS_Product
    <2>2. QED
      BY <1>3, <1>4, <2>1
  <1>6. 1 * n = n
    BY <1>1
  <1>7. QED
    BY ONLY <1>2, <1>5, <1>6

LEMMA UnitsLeave ==
  ASSUME NEW O, NEW P, IsFiniteSet(P), NEW o \in P, NEW tt
  PROVE  Cardinality(UnitsIn(O, P \ {o}, tt))
           = Cardinality(UnitsIn(O, P, tt)) - Cardinality(UnitsIn(O, {o}, tt))
  <1>1. UnitsIn(O, P \ {o}, tt) = UnitsIn(O, P, tt) \ UnitsIn(O, {o}, tt)
    BY DEF UnitsIn
  <1>2. UnitsIn(O, {o}, tt) \in SUBSET UnitsIn(O, P, tt)
    BY DEF UnitsIn
  <1>3. Cardinality(UnitsIn(O, P, tt) \ UnitsIn(O, {o}, tt))
          = Cardinality(UnitsIn(O, P, tt)) - Cardinality(UnitsIn(O, {o}, tt))
    BY <1>2, UnitsAreFinite, CountLess
  <1>4. QED
    BY <1>1, <1>3

LEMMA UnitsJoin ==
  ASSUME NEW O, NEW P, IsFiniteSet(P), NEW o, o \notin P, NEW tt
  PROVE  Cardinality(UnitsIn(O, P \cup {o}, tt))
           = Cardinality(UnitsIn(O, P, tt)) + Cardinality(UnitsIn(O, {o}, tt))
  <1>1. UnitsIn(O, P \cup {o}, tt) = UnitsIn(O, P, tt) \cup UnitsIn(O, {o}, tt)
    BY DEF UnitsIn
  <1>2. UnitsIn(O, P, tt) \cap UnitsIn(O, {o}, tt) = {}
    BY DEF UnitsIn
  <1>3. IsFiniteSet(UnitsIn(O, P, tt)) /\ IsFiniteSet(UnitsIn(O, {o}, tt))
    BY UnitsAreFinite, FS_Singleton
  <1>4. QED
    BY <1>1, <1>2, <1>3, CountMore

LEMMA UnitsSame ==
  ASSUME NEW O, NEW Q, NEW P, NEW tt, \A o \in P : Q[o].units = O[o].units
  PROVE  UnitsIn(Q, P, tt) = UnitsIn(O, P, tt)
  BY DEF UnitsIn

(* There are no holds, finitely many orders were placed, each within the    *)
(* limit, and the counters are their units while no handler acted late.    *)
NoHolds == \A g \in Groups : groups[g].status = "none"

Placed == InState(orders, OrderStatus \ {"none"})

SmallCarts == \A o \in Orders, tt \in TicketTypes : orders[o].units[tt] \in 0..MaxPerOrder

UnitSums ==
  ~staleActs =>
    \A tt \in TicketTypes :
      /\ inv[tt].reserved = Cardinality(UnitsIn(orders, InState(orders, {"pending"}), tt))
      /\ inv[tt].sold - inv[tt].refunded
           = Cardinality(UnitsIn(orders, InState(orders, Confirmed), tt))

GABooks == NoHolds /\ IsFiniteSet(Placed) /\ SmallCarts /\ UnitSums

LEMMA UnitSumsAreGAAccounting ==
  ASSUME TicketsFollowOrder, UnitSums
  PROVE  GAAccounting
  <1> SUFFICES ASSUME ~staleActs, NEW tt \in TicketTypes
               PROVE  LET Pending(o) == orders[o].status = "pending"
                          Live(o) == tickets[o] = "valid"
                      IN /\ inv[tt].reserved = UnitsWhere(Pending, tt)
                         /\ inv[tt].sold - inv[tt].refunded = UnitsWhere(Live, tt)
    BY DEF GAAccounting
  <1>1. UnitsIn(orders, InState(orders, {"pending"}), tt)
          = {p \in Orders \X (1..MaxPerOrder) :
               orders[p[1]].status = "pending" /\ p[2] <= orders[p[1]].units[tt]}
    BY DEF UnitsIn, InState
  <1>2. UnitsIn(orders, InState(orders, Confirmed), tt)
          = {p \in Orders \X (1..MaxPerOrder) :
               tickets[p[1]] = "valid" /\ p[2] <= orders[p[1]].units[tt]}
    BY DEF UnitsIn, InState, TicketsFollowOrder, Confirmed
  <1>3. QED
    BY <1>1, <1>2 DEF UnitSums, UnitsWhere

-----------------------------------------------------------------------------
(* How the units in a state change with the status of an order, and with a  *)
(* new order.                                                              *)
LEMMA InStateFinite ==
  ASSUME IsFiniteSet(Placed), NEW K \in SUBSET (OrderStatus \ {"none"})
  PROVE  IsFiniteSet(InState(orders, K))
  <1>1. InState(orders, K) \in SUBSET Placed
    BY DEF InState, Placed
  <1>2. QED
    BY <1>1, FS_Subset

LEMMA UnitsMove ==
  ASSUME IsFiniteSet(Placed), SmallCarts, NEW o \in Orders, NEW status,
         OnlyStatus(o, status), NEW K \in SUBSET (OrderStatus \ {"none"}),
         NEW tt \in TicketTypes
  PROVE  LET was == Cardinality(UnitsIn(orders, InState(orders, K), tt))
             is == Cardinality(UnitsIn(orders', InState(orders', K), tt))
         IN /\ status \in K /\ orders[o].status \notin K => is = was + orders[o].units[tt]
            /\ status \notin K /\ orders[o].status \in K => is = was - orders[o].units[tt]
            /\ (status \in K <=> orders[o].status \in K) => is = was
            /\ was \in Nat
  <1> DEFINE P == InState(orders, K)
             Q == InState(orders', K)
             n == Cardinality(UnitsIn(orders, {o}, tt))
  <1>0. n = orders[o].units[tt] /\ n \in Int
    <2>1. PICK m \in 0..MaxPerOrder : m = orders[o].units[tt]
      BY DEF SmallCarts
    <2>2. n = m
      BY <2>1, UnitsOfOne
    <2>3. QED
      BY <2>1, <2>2
  <1>1. IsFiniteSet(P) /\ P \subseteq Orders
    BY InStateFinite DEF InState
  <1>2. UnitsIn(orders', Q, tt) = UnitsIn(orders, Q, tt)
    <2>1. \A p \in Q : orders'[p].units = orders[p].units
      BY DEF OnlyStatus, InState
    <2>2. QED
      BY <2>1, UnitsSame
  <1>3. /\ o \in P <=> orders[o].status \in K
        /\ o \in Q <=> status \in K
        /\ \A p \in Orders \ {o} : p \in Q <=> p \in P
        /\ Q \subseteq Orders
    BY DEF InState, OnlyStatus
  <1>4. Cardinality(UnitsIn(orders, P, tt)) \in Nat
    BY <1>1, UnitsAreFinite
  <1> HIDE DEF P, Q, n
  <1>5. CASE o \in Q /\ o \notin P
    <2>1. Q = P \cup {o}
      BY <1>1, <1>3, <1>5
    <2>2. Cardinality(UnitsIn(orders, P \cup {o}, tt)) = Cardinality(UnitsIn(orders, P, tt)) + n
      BY <1>1, <1>5, UnitsJoin DEF n
    <2>3. QED
      BY <1>0, <1>2, <1>3, <1>4, <1>5, <2>1, <2>2 DEF P, Q
  <1>6. CASE o \notin Q /\ o \in P
    <2>1. Q = P \ {o}
      BY <1>1, <1>3, <1>6
    <2>2. Cardinality(UnitsIn(orders, P \ {o}, tt)) = Cardinality(UnitsIn(orders, P, tt)) - n
      BY <1>1, <1>6, UnitsLeave DEF n
    <2>3. QED
      BY <1>0, <1>2, <1>3, <1>4, <1>6, <2>1, <2>2 DEF P, Q
  <1>7. CASE o \in Q <=> o \in P
    <2>1. Q = P
      BY <1>1, <1>3, <1>7
    <2>2. QED
      BY <1>2, <1>3, <1>4, <1>7, <2>1 DEF P, Q
  <1>8. QED
    BY <1>5, <1>6, <1>7

LEMMA UnitsArrive ==
  ASSUME IsFiniteSet(Placed), NEW o \in Orders, NEW u, NEW status, NEW S,
         NEW q \in [TicketTypes -> 0..MaxPerOrder], PlacesOrder(o, u, status, S, q),
         NEW K \in SUBSET (OrderStatus \ {"none"}), NEW tt \in TicketTypes
  PROVE  LET was == Cardinality(UnitsIn(orders, InState(orders, K), tt))
             is == Cardinality(UnitsIn(orders', InState(orders', K), tt))
         IN /\ status \in K => is = was + q[tt]
            /\ status \notin K => is = was
            /\ was \in Nat
  <1> DEFINE P == InState(orders, K)
             Q == InState(orders', K)
  <1>1. IsFiniteSet(P) /\ P \subseteq Orders /\ o \notin P
    BY InStateFinite DEF InState, PlacesOrder
  <1>2. UnitsIn(orders', P, tt) = UnitsIn(orders, P, tt)
    <2>1. \A p \in P : orders'[p].units = orders[p].units
      BY <1>1 DEF PlacesOrder
    <2>2. QED
      BY <2>1, UnitsSame
  <1>3. Q = IF status \in K THEN P \cup {o} ELSE P
    BY <1>1 DEF InState, PlacesOrder
  <1>4. Cardinality(UnitsIn(orders, P, tt)) \in Nat
    BY <1>1, UnitsAreFinite
  <1>5. PICK n \in 0..MaxPerOrder : n = q[tt] /\ n = orders'[o].units[tt]
    BY DEF PlacesOrder
  <1> HIDE DEF P, Q
  <1>6. Cardinality(UnitsIn(orders', P \cup {o}, tt)) = Cardinality(UnitsIn(orders', P, tt)) + n
    <2>1. Cardinality(UnitsIn(orders', {o}, tt)) = n
      BY <1>5, UnitsOfOne
    <2>2. QED
      BY <1>1, <2>1, UnitsJoin
  <1>7. QED
    BY <1>2, <1>3, <1>4, <1>5, <1>6 DEF P, Q

-----------------------------------------------------------------------------
(* Without assigned seats no order has seats, and owns what it bought.     *)
LEMMA OwnBought ==
  ASSUME Books, NoHolds, NEW o \in Orders
  PROVE  OwnUnits(o) = [tt \in TicketTypes |-> orders[o].units[tt]] /\ GroupsOf(o) = {}
  <1>1. o # None /\ \A g \in Groups : groups[g].order = None
    BY ConstantsAssumption DEF Books, Sales, LinkOK, NoHolds
  <1>2. orders[o].seats \subseteq Seats
    BY DEF Books, Typed, TypeOK, OrderRecord
  <1>3. orders[o].seats = {}
    BY <1>1, <1>2 DEF Books, Sales, ItemsOK
  <1>4. QED
    BY <1>1, <1>3 DEF OwnUnits, GroupsOf

LEMMA NoHoldsMoved ==
  ASSUME NoHolds, NEW G, NEW from \in {"held", "sold"}, NEW to, Moves(G, from, to)
  PROVE  NoHolds'
  BY DEF NoHolds, Moves

LEMMA CartsKept ==
  ASSUME IsFiniteSet(Placed), SmallCarts, NEW o \in Orders, NEW status,
         OnlyStatus(o, status), status # "none", orders[o].status # "none",
         orders[o].status \in OrderStatus, status \in OrderStatus
  PROVE  IsFiniteSet(Placed)' /\ SmallCarts'
  <1>1. Placed' = Placed
    BY DEF Placed, InState, OnlyStatus
  <1>2. SmallCarts'
    BY DEF SmallCarts, OnlyStatus
  <1>3. QED
    BY <1>1, <1>2

(* What moves between the counters moves between the states of the orders. *)
LEMMA SumsMove ==
  ASSUME TypeOK, IsFiniteSet(Placed), SmallCarts, UnitSums,
         NEW o \in Orders, NEW status, OnlyStatus(o, status),
         staleActs' = FALSE => /\ staleActs = FALSE
                               /\ \A tt \in TicketTypes :
                                    LET n == orders[o].units[tt] IN
                                    \/ /\ orders[o].status = "pending" /\ status \in Released
                                       /\ inv'[tt] = Release(inv[tt], n)
                                    \/ /\ orders[o].status = "pending" /\ status = "paid"
                                       /\ inv'[tt] = Confirm(inv[tt], n)
                                    \/ /\ orders[o].status = "free_confirmed"
                                       /\ status = "cancelled"
                                       /\ inv'[tt] = Refund(inv[tt], n)
  PROVE  UnitSums'
  <1> SUFFICES ASSUME ~staleActs', NEW tt \in TicketTypes, TypeOK
               PROVE  /\ inv'[tt].reserved
                           = Cardinality(UnitsIn(orders', InState(orders', {"pending"}), tt))
                      /\ inv'[tt].sold - inv'[tt].refunded
                           = Cardinality(UnitsIn(orders', InState(orders', Confirmed), tt))
    BY DEF UnitSums
  <1> DEFINE n == orders[o].units[tt]
             pending == Cardinality(UnitsIn(orders, InState(orders, {"pending"}), tt))
             live == Cardinality(UnitsIn(orders, InState(orders, Confirmed), tt))
             pendingN == Cardinality(UnitsIn(orders', InState(orders', {"pending"}), tt))
             liveN == Cardinality(UnitsIn(orders', InState(orders', Confirmed), tt))
  <1>1. {"pending"} \in SUBSET (OrderStatus \ {"none"})
        /\ Confirmed \in SUBSET (OrderStatus \ {"none"})
    BY DEF OrderStatus, Confirmed
  <1>2. /\ status \in {"pending"} /\ orders[o].status \notin {"pending"} => pendingN = pending + n
        /\ status \notin {"pending"} /\ orders[o].status \in {"pending"} => pendingN = pending - n
        /\ (status \in {"pending"} <=> orders[o].status \in {"pending"}) => pendingN = pending
        /\ pending \in Nat
    BY <1>1, UnitsMove
  <1>3. /\ status \in Confirmed /\ orders[o].status \notin Confirmed => liveN = live + n
        /\ status \notin Confirmed /\ orders[o].status \in Confirmed => liveN = live - n
        /\ (status \in Confirmed <=> orders[o].status \in Confirmed) => liveN = live
        /\ live \in Nat
    BY <1>1, UnitsMove
  <1>4. n \in Int /\ inv[tt] \in Counters
    <2>1. \A x \in 0..MaxPerOrder : x \in Int
      BY ConstantsAssumption
    <2>2. QED
      BY <2>1 DEF SmallCarts, TypeOK
  <1>5. \/ orders[o].status = "pending" /\ status \in Released /\ inv'[tt] = Release(inv[tt], n)
        \/ orders[o].status = "pending" /\ status = "paid" /\ inv'[tt] = Confirm(inv[tt], n)
        \/ /\ orders[o].status = "free_confirmed" /\ status = "cancelled"
           /\ inv'[tt] = Refund(inv[tt], n)
    OBVIOUS
  <1>6. inv[tt].reserved = pending /\ inv[tt].sold - inv[tt].refunded = live
    BY DEF UnitSums
  <1> HIDE DEF n, pending, live, pendingN, liveN
  <1>7. inv[tt].reserved \in Int /\ inv[tt].sold \in Int /\ inv[tt].refunded \in Int
    BY <1>4 DEF Counters
  <1>8. CASE orders[o].status = "pending" /\ status \in Released /\ inv'[tt] = Release(inv[tt], n)
    <2> DEFINE c == Release(inv[tt], n)
    <2>0. /\ c.reserved = inv[tt].reserved - n
          /\ c.sold = inv[tt].sold /\ c.refunded = inv[tt].refunded
      BY <1>4, CounterEffects
    <2>1. /\ inv'[tt].reserved = inv[tt].reserved - n
          /\ inv'[tt].sold = inv[tt].sold /\ inv'[tt].refunded = inv[tt].refunded
      BY <1>8, <2>0
    <2>2. pendingN = pending - n /\ liveN = live
      BY <1>2, <1>3, <1>8 DEF Released, Confirmed
    <2>3. QED
      BY <1>6, <2>1, <2>2 DEF pendingN, liveN
  <1>9. CASE orders[o].status = "pending" /\ status = "paid" /\ inv'[tt] = Confirm(inv[tt], n)
    <2> DEFINE c == Confirm(inv[tt], n)
    <2>0. /\ c.reserved = inv[tt].reserved - n
          /\ c.sold = inv[tt].sold + n /\ c.refunded = inv[tt].refunded
      BY <1>4, CounterEffects
    <2>1. /\ inv'[tt].reserved = inv[tt].reserved - n
          /\ inv'[tt].sold = inv[tt].sold + n /\ inv'[tt].refunded = inv[tt].refunded
      BY <1>9, <2>0
    <2>2. pendingN = pending - n /\ liveN = live + n
      BY <1>2, <1>3, <1>9 DEF Confirmed
    <2>3. QED
      BY <1>4, <1>6, <1>7, <2>1, <2>2 DEF pendingN, liveN
  <1>10. CASE /\ orders[o].status = "free_confirmed" /\ status = "cancelled"
              /\ inv'[tt] = Refund(inv[tt], n)
    <2> DEFINE c == Refund(inv[tt], n)
    <2>0. /\ c.reserved = inv[tt].reserved
          /\ c.sold = inv[tt].sold /\ c.refunded = inv[tt].refunded + n
      BY <1>4, CounterEffects
    <2>1. /\ inv'[tt].reserved = inv[tt].reserved
          /\ inv'[tt].sold = inv[tt].sold /\ inv'[tt].refunded = inv[tt].refunded + n
      BY <1>10, <2>0
    <2>2. pendingN = pending /\ liveN = live - n
      BY <1>2, <1>3, <1>10 DEF Confirmed
    <2>3. QED
      BY <1>4, <1>6, <1>7, <2>1, <2>2 DEF pendingN, liveN
  <1>11. QED
    BY <1>5, <1>8, <1>9, <1>10 DEF pendingN, liveN

(* ... and what is reserved, or sold at once, is the units of a new order. *)
LEMMA SumsArrive ==
  ASSUME TypeOK, IsFiniteSet(Placed), UnitSums, NEW o \in Orders, NEW u, NEW status,
         NEW q \in [TicketTypes -> 0..MaxPerOrder], PlacesOrder(o, u, status, {}, q),
         staleActs' = staleActs,
         \/ status = "pending" /\ inv' = [tt \in TicketTypes |-> Reserve(inv[tt], q[tt])]
         \/ /\ status = "free_confirmed"
            /\ inv' = [tt \in TicketTypes |-> Confirm(Reserve(inv[tt], q[tt]), q[tt])]
  PROVE  UnitSums'
  <1> SUFFICES ASSUME ~staleActs', NEW tt \in TicketTypes
               PROVE  /\ inv'[tt].reserved
                           = Cardinality(UnitsIn(orders', InState(orders', {"pending"}), tt))
                      /\ inv'[tt].sold - inv'[tt].refunded
                           = Cardinality(UnitsIn(orders', InState(orders', Confirmed), tt))
    BY DEF UnitSums
  <1> DEFINE n == q[tt]
             pending == Cardinality(UnitsIn(orders, InState(orders, {"pending"}), tt))
             live == Cardinality(UnitsIn(orders, InState(orders, Confirmed), tt))
             pendingN == Cardinality(UnitsIn(orders', InState(orders', {"pending"}), tt))
             liveN == Cardinality(UnitsIn(orders', InState(orders', Confirmed), tt))
             c == Reserve(inv[tt], n)
             d == Confirm(c, n)
  <1>1. {"pending"} \in SUBSET (OrderStatus \ {"none"})
        /\ Confirmed \in SUBSET (OrderStatus \ {"none"})
    BY DEF OrderStatus, Confirmed
  <1>2. /\ status \in {"pending"} => pendingN = pending + n
        /\ status \notin {"pending"} => pendingN = pending
        /\ pending \in Nat
    BY <1>1, UnitsArrive
  <1>3. /\ status \in Confirmed => liveN = live + n
        /\ status \notin Confirmed => liveN = live
        /\ live \in Nat
    BY <1>1, UnitsArrive
  <1>4. n \in Int /\ inv[tt] \in Counters
    <2>1. \A x \in 0..MaxPerOrder : x \in Int
      BY ConstantsAssumption
    <2>2. QED
      BY <2>1 DEF TypeOK
  <1>5. /\ c.reserved = inv[tt].reserved + n
        /\ c.sold = inv[tt].sold /\ c.refunded = inv[tt].refunded
        /\ inv[tt].reserved \in Int /\ inv[tt].sold \in Int /\ inv[tt].refunded \in Int
    BY <1>4, CounterEffects
  <1>6. /\ d.reserved = c.reserved - n
        /\ d.sold = c.sold + n /\ d.refunded = c.refunded
    <2>1. c \in Counters
      BY <1>4 DEF Reserve, Counters
    <2> HIDE DEF c
    <2>2. QED
      BY <1>4, <2>1, CounterEffects
  <1>7. inv[tt].reserved = pending /\ inv[tt].sold - inv[tt].refunded = live
    BY DEF UnitSums
  <1>8. \/ status = "pending" /\ inv'[tt] = c
        \/ status = "free_confirmed" /\ inv'[tt] = d
    OBVIOUS
  <1> HIDE DEF n, pending, live, pendingN, liveN, c, d
  <1>9. CASE status = "pending" /\ inv'[tt] = c
    <2>1. pendingN = pending + n /\ liveN = live
      BY <1>2, <1>3, <1>9 DEF Confirmed
    <2>2. QED
      BY <1>5, <1>7, <1>9, <2>1 DEF pendingN, liveN
  <1>10. CASE status = "free_confirmed" /\ inv'[tt] = d
    <2>1. pendingN = pending /\ liveN = live + n
      BY <1>2, <1>3, <1>10 DEF Confirmed
    <2>2. d.reserved = inv[tt].reserved /\ d.sold - d.refunded = live + n
      BY <1>4, <1>5, <1>6, <1>7
    <2>3. QED
      BY <1>7, <1>10, <2>1, <2>2 DEF pendingN, liveN
  <1>11. QED
    BY <1>8, <1>9, <1>10 DEF pendingN, liveN

-----------------------------------------------------------------------------
(* General admission, one lemma per kind of step.                          *)
LEMMA GABooksUntouched ==
  ASSUME GABooks, UNCHANGED <<inv, groups, orders, staleActs>>
  PROVE  GABooks'
  BY DEF GABooks, NoHolds, Placed, SmallCarts, UnitSums

LEMMA GABooksPlaces ==
  ASSUME TypeOK, GABooks, NEW u \in Users, NEW o \in Orders, NEW t,
         NEW q \in [TicketTypes -> 0..MaxPerOrder],
         PlacePaidGAOrder(u, o, q, t) \/ PlaceFreeGAOrder(u, o, q, t)
  PROVE  GABooks'
  <1>1. /\ staleActs' = staleActs /\ groups' = groups
        /\ \E status \in {"pending", "free_confirmed"} :
             /\ PlacesOrder(o, u, status, {}, q)
             /\ \/ /\ status = "pending"
                   /\ inv' = [tt \in TicketTypes |-> Reserve(inv[tt], q[tt])]
                \/ /\ status = "free_confirmed"
                   /\ inv' = [tt \in TicketTypes |-> Confirm(Reserve(inv[tt], q[tt]), q[tt])]
    BY DEF PlacePaidGAOrder, PlaceFreeGAOrder, GACart, PlacesOrder, NewOrder, TypeOK
  <1>2. PICK status \in {"pending", "free_confirmed"} :
          /\ PlacesOrder(o, u, status, {}, q)
          /\ \/ /\ status = "pending"
                /\ inv' = [tt \in TicketTypes |-> Reserve(inv[tt], q[tt])]
             \/ /\ status = "free_confirmed"
                /\ inv' = [tt \in TicketTypes |-> Confirm(Reserve(inv[tt], q[tt]), q[tt])]
    BY <1>1
  <1>3. UnitSums'
    BY <1>1, <1>2, SumsArrive DEF GABooks
  <1>4. Placed' = Placed \cup {o}
    BY <1>2 DEF Placed, InState, PlacesOrder, OrderStatus
  <1>5. IsFiniteSet(Placed')
    BY <1>4, FS_Singleton, FS_Union DEF GABooks
  <1>6. SmallCarts'
    BY <1>2 DEF GABooks, SmallCarts, PlacesOrder
  <1>7. NoHolds'
    BY <1>1 DEF GABooks, NoHolds
  <1>8. QED
    BY <1>3, <1>5, <1>6, <1>7 DEF GABooks

(* An order leaves its status: what its units do is one of SumsMove's cases,*)
(* unless the handler acted on a status out of date.                       *)
LEMMA GABooksMove ==
  ASSUME Books, GABooks, NEW o \in Orders, NEW status \in OrderStatus \ {"none"},
         OnlyStatus(o, status), orders[o].status # "none",
         NEW G, NEW from \in {"held", "sold"}, NEW to, Moves(G, from, to),
         staleActs' = FALSE => /\ staleActs = FALSE
                               /\ \A tt \in TicketTypes :
                                    LET n == orders[o].units[tt] IN
                                    \/ /\ orders[o].status = "pending" /\ status \in Released
                                       /\ inv'[tt] = Release(inv[tt], n)
                                    \/ /\ orders[o].status = "pending" /\ status = "paid"
                                       /\ inv'[tt] = Confirm(inv[tt], n)
                                    \/ /\ orders[o].status = "free_confirmed"
                                       /\ status = "cancelled"
                                       /\ inv'[tt] = Refund(inv[tt], n)
  PROVE  GABooks'
  <1>1. TypeOK /\ orders[o].status \in OrderStatus
    BY DEF Books, Typed, TypeOK, OrderRecord
  <1>2. NoHolds'
    BY NoHoldsMoved DEF GABooks
  <1>3. IsFiniteSet(Placed)' /\ SmallCarts'
    BY <1>1, CartsKept DEF GABooks
  <1>4. UnitSums'
    BY <1>1, SumsMove DEF GABooks
  <1>5. QED
    BY <1>2, <1>3, <1>4 DEF GABooks

LEMMA GABooksRelease ==
  ASSUME Books, GABooks, NEW o \in Orders, NEW status \in Released, ReleaseOrder(o, status),
         staleActs' = staleActs
  PROVE  GABooks'
  <1>1. /\ orders[o].status = "pending" /\ OnlyStatus(o, status)
        /\ Moves(GroupsIn(GroupsOf(o), "held"), "held", Dropped)
    BY ReleaseOrderMoves DEF Books, Typed
  <1>2. OwnUnits(o) = [tt \in TicketTypes |-> orders[o].units[tt]]
    BY OwnBought DEF GABooks
  <1>3. \A tt \in TicketTypes : inv'[tt] = Release(inv[tt], orders[o].units[tt])
    BY <1>2 DEF ReleaseOrder, ReleaseAll
  <1>4. status \in OrderStatus \ {"none"}
    BY DEF Released, OrderStatus
  <1>5. QED
    BY <1>1, <1>3, <1>4, GABooksMove

LEMMA GABooksConfirm ==
  ASSUME Books, GABooks, NEW r \in Requests, ConfirmPaid(r)
  PROVE  GABooks'
  <1> DEFINE o == reqs[r].order
  <1>1. /\ o \in Orders /\ Moves(GroupsOf(o), "held", {"sold"}) /\ OnlyStatus(o, "paid")
        /\ inv' = ConfirmAll(OwnUnits(o))
    BY ConfirmMoves DEF Books
  <1>2. orders[o].status \in {"pending", "paid"} \cup Released
    BY ConfirmsPendingSeats DEF Books
  <1>3. staleActs' = (staleActs \/ orders[o].status # "pending")
    BY DEF ConfirmPaid
  <1> HIDE DEF o
  <1>4. OwnUnits(o) = [tt \in TicketTypes |-> orders[o].units[tt]]
    BY <1>1, OwnBought DEF GABooks
  <1>5. \A tt \in TicketTypes : inv'[tt] = Confirm(inv[tt], orders[o].units[tt])
    BY <1>1, <1>4 DEF ConfirmAll
  <1>6. staleActs' = FALSE => staleActs = FALSE /\ orders[o].status = "pending"
    <2>1. staleActs \in BOOLEAN
      BY DEF Books, Typed, TypeOK
    <2>2. QED
      BY <1>3, <2>1
  <1>7. "paid" \in OrderStatus \ {"none"} /\ orders[o].status # "none"
    BY <1>2 DEF OrderStatus, Released
  <1>8. QED
    BY <1>1, <1>5, <1>6, <1>7, GABooksMove

LEMMA GABooksCancelFree ==
  ASSUME Books, GABooks, NEW r \in Requests, CancelFree(r)
  PROVE  GABooks'
  <1> DEFINE o == reqs[r].order
  <1>1. /\ o \in Orders /\ reqs[r].kind = "cancel" /\ reqs[r].seen = "free_confirmed"
        /\ Moves(GroupsIn(GroupsOf(o), "sold"), "sold", Dropped) /\ OnlyStatus(o, "cancelled")
        /\ inv' = [tt \in TicketTypes |-> Refund(inv[tt], orders[o].units[tt])]
    BY CancelFreeMoves DEF Books
  <1>2. orders[o].status \in {"free_confirmed", "cancelled"}
    BY <1>1 DEF Books, TicketLedger, FreeStaysFree
  <1>3. staleActs' = (staleActs \/ orders[o].status # "free_confirmed")
    BY DEF CancelFree
  <1> HIDE DEF o
  <1>4. staleActs' = FALSE => staleActs = FALSE /\ orders[o].status = "free_confirmed"
    <2>1. staleActs \in BOOLEAN
      BY DEF Books, Typed, TypeOK
    <2>2. QED
      BY <1>3, <2>1
  <1>5. "cancelled" \in OrderStatus \ {"none"} /\ orders[o].status # "none"
    BY <1>2 DEF OrderStatus, Released
  <1>6. QED
    BY <1>1, <1>4, <1>5, GABooksMove

(* Without assigned seats there is no hold to give up or to expire.        *)
LEMMA NoHoldSteps ==
  ASSUME TypeOK, ~Assigned, NoHolds
  PROVE  ~HoldStep /\ ~HoldExpiry
  <1>1. \A t : Overdue(t) = {}
    BY DEF NoHolds, Overdue
  <1>2. ~HoldExpiry
    BY <1>1 DEF HoldExpiry, ExpireHolds
  <1>3. \A u, g, tt, S, t : ~CreateHold(u, g, tt, S, t)
    BY DEF CreateHold
  <1>4. \A u, t : \A g \in Groups : ~ReleaseHold(u, g, t)
    BY DEF ReleaseHold, NoHolds
  <1>5. QED
    BY <1>2, <1>3, <1>4 DEF HoldStep

LEMMA GABooksStep ==
  ASSUME ~Assigned, Books, GABooks, [Next]_vars
  PROVE  GABooks'
  <1>1. TypeOK /\ due \subseteq Orders
    BY DEF Books, Typed, TypeOK
  <1>2. ~HoldStep /\ ~HoldExpiry
    BY <1>1, NoHoldSteps DEF GABooks
  <1>3. CASE PlaceStep
    <2>1. \A u, o, G, t : ~PlacePaidSeatOrder(u, o, G, t) /\ ~PlaceFreeSeatOrder(u, o, G, t)
      BY DEF PlacePaidSeatOrder, PlaceFreeSeatOrder, SeatCart
    <2>2. QED
      BY <1>1, <1>3, <2>1, GABooksPlaces DEF PlaceStep
  <1>4. CASE RequestStep
    <2>1. ASSUME NEW r \in Requests, CancelPending(r)
          PROVE  GABooks'
      <3>1. /\ reqs[r].order \in Orders /\ ReleaseOrder(reqs[r].order, "cancelled")
            /\ staleActs' = staleActs
        BY <1>1, <2>1, FinishingType DEF CancelPending, Books, Typed
      <3>2. "cancelled" \in Released
        BY DEF Released
      <3>3. QED
        BY <3>1, <3>2, GABooksRelease
    <2>2. ASSUME NEW r \in Requests,
                 \/ \E o \in Orders : BeginCancel(r, o) \/ BeginConfirm(r, o)
                 \/ CancelReleased(r) \/ CancelWithoutEffect(r) \/ ConfirmWithoutEffect(r)
          PROVE  GABooks'
      BY <2>2, GABooksUntouched DEF BeginCancel, BeginConfirm, Begin, CancelReleased,
         CancelWithoutEffect, ConfirmWithoutEffect
    <2>3. QED
      BY <1>4, <2>1, <2>2, GABooksConfirm, GABooksCancelFree DEF RequestStep
  <1>5. ASSUME NEW o \in Orders, FailPending(o) \/ ExpireOrder(o)
        PROVE  GABooks'
    <2>1. PICK status \in Released : ReleaseOrder(o, status) /\ staleActs' = staleActs
      BY <1>5 DEF FailPending, ExpireOrder, Released
    <2>2. QED
      BY <2>1, GABooksRelease
  <1>6. ASSUME \/ Tick \/ EventStep \/ ScanDueOrders \/ WorkerCrash
               \/ \E o \in due : SkipOrder(o) \/ AbortPass(o)
               \/ UNCHANGED vars
        PROVE  GABooks'
    BY <1>6, GABooksUntouched DEF Tick, EventStep, PublishEvent, UnpublishEvent, CancelEvent,
       SetVisibility, EventEdit, ScanDueOrders, WorkerCrash, SkipOrder, AbortPass, vars
  <1>7. QED
    BY <1>1, <1>2, <1>3, <1>4, <1>5, <1>6 DEF Next, WorkerStep, HandleDueOrder

(* With general admission the counters are the orders as long as every      *)
(* handler acted on the status the order had: reserved counts the units of  *)
(* pending orders, sold minus refunded those of orders with live tickets.   *)
(* Only a payment or a cancellation that works with a status read before    *)
(* the lock can part them.                                                 *)
THEOREM CountersAreTheOrders ==
  ASSUME ~Assigned
  PROVE  Spec => []GAAccounting
  <1>1. Init => GABooks
    <2> SUFFICES ASSUME Init PROVE GABooks
      OBVIOUS
    <2>1. \A o \in Orders : orders[o].status = "none"
                            /\ \A tt \in TicketTypes : orders[o].units[tt] = 0
      BY DEF Init, NoOrder
    <2>2. NoHolds
      BY DEF Init, NoHolds, NoGroup
    <2>3. Placed = {} /\ InState(orders, {"pending"}) = {} /\ InState(orders, Confirmed) = {}
      BY <2>1 DEF Placed, InState, Confirmed
    <2>4. \A tt : UnitsIn(orders, {}, tt) = {}
      BY DEF UnitsIn
    <2>5. Cardinality({}) = 0 /\ IsFiniteSet({})
      BY FS_EmptySet
    <2>6. SmallCarts
      BY <2>1, ConstantsAssumption DEF SmallCarts
    <2>7. \A tt \in TicketTypes : inv[tt].reserved = 0 /\ inv[tt].sold - inv[tt].refunded = 0
      BY DEF Init, NoUnits
    <2>8. UnitSums
      BY <2>3, <2>4, <2>5, <2>7 DEF UnitSums
    <2>9. QED
      BY <2>2, <2>3, <2>5, <2>6, <2>8 DEF GABooks
  <1>2. Books /\ GABooks /\ [Next]_vars => GABooks'
    BY GABooksStep
  <1>3. Books /\ GABooks => GAAccounting
    BY UnitSumsAreGAAccounting DEF Books, TicketLedger, GABooks
  <1>4. QED
    BY <1>1, <1>2, <1>3, BooksAlways, PTL DEF Spec

-----------------------------------------------------------------------------
(* The checkout implements the seat market: whatever holds, orders,         *)
(* requests and workers do to groups and rows is, seat by seat, a claim, a *)
(* drop, a sale or a return of the abstract specification, or nothing.     *)

FreeSeat == [state |-> "free", owner |-> None, until |-> 0]
HeldBy(u, e) == [state |-> "held", owner |-> u, until |-> e]
SoldTo(u) == [state |-> "sold", owner |-> u, until |-> 0]

(* The seat map drawn from rows R and groups H.                            *)
ViewOf(R, H) ==
  [s \in Seats |->
     IF \E g \in Groups : R[g][s] \in Active
     THEN LET g == CHOOSE h \in Groups : R[h][s] \in Active
          IN IF R[g][s] = "held" THEN HeldBy(H[g].user, H[g].expires)
                                 ELSE SoldTo(H[g].user)
     ELSE FreeSeat]

LEMMA ViewNow == SeatView = ViewOf(rows, groups)
  BY DEF SeatView, ViewOf, ActiveRow, Active, HeldBy, SoldTo, FreeSeat

LEMMA ViewNext == SeatView' = ViewOf(rows', groups')
  BY DEF SeatView, ViewOf, ActiveRow, Active, HeldBy, SoldTo, FreeSeat

(* One row at most is active, so it is the one the map shows.              *)
LEMMA SeatShown ==
  ASSUME NEW R, NEW H, Exclusive(R), NEW g \in Groups, NEW s \in Seats
  PROVE  /\ R[g][s] = "held" => ViewOf(R, H)[s] = HeldBy(H[g].user, H[g].expires)
         /\ R[g][s] = "converted" => ViewOf(R, H)[s] = SoldTo(H[g].user)
  <1>1. R[g][s] \in Active => g = CHOOSE h \in Groups : R[h][s] \in Active
    BY DEF Exclusive
  <1>2. QED
    BY <1>1 DEF ViewOf, Active

LEMMA SeatFree ==
  ASSUME NEW R, NEW H, NEW s \in Seats, \A g \in Groups : R[g][s] \notin Active
  PROVE  ViewOf(R, H)[s] = FreeSeat
  BY DEF ViewOf

(* A seat whose active row, if any, is the same in both states.            *)
LEMMA SeatSame ==
  ASSUME Exclusive(rows), Exclusive(rows'), NEW s \in Seats,
         \A g \in Groups : rows[g][s] \in Active \/ rows'[g][s] \in Active =>
           rows'[g][s] = rows[g][s] /\ Kept(g)
  PROVE  ViewOf(rows', groups')[s] = ViewOf(rows, groups)[s]
  <1>1. CASE \E g \in Groups : rows[g][s] \in Active
    <2>1. PICK g \in Groups : rows[g][s] \in Active
      BY <1>1
    <2>2. rows'[g][s] = rows[g][s] /\ Kept(g)
      BY <2>1
    <2>3. CASE rows[g][s] = "held"
      <3>1. ViewOf(rows, groups)[s] = HeldBy(groups[g].user, groups[g].expires)
        BY <2>3, SeatShown
      <3>2. ViewOf(rows', groups')[s] = HeldBy(groups'[g].user, groups'[g].expires)
        BY <2>2, <2>3, SeatShown
      <3>3. QED
        BY <2>2, <3>1, <3>2 DEF Kept
    <2>4. CASE rows[g][s] = "converted"
      <3>1. ViewOf(rows, groups)[s] = SoldTo(groups[g].user)
        BY <2>4, SeatShown
      <3>2. ViewOf(rows', groups')[s] = SoldTo(groups'[g].user)
        BY <2>2, <2>4, SeatShown
      <3>3. QED
        BY <2>2, <3>1, <3>2 DEF Kept
    <2>5. QED
      BY <2>1, <2>3, <2>4 DEF Active
  <1>2. CASE \A g \in Groups : rows[g][s] \notin Active
    <2>1. \A g \in Groups : rows'[g][s] \notin Active
      BY <1>2
    <2>2. QED
      BY <1>2, <2>1, SeatFree
  <1>3. QED
    BY <1>1, <1>2

-----------------------------------------------------------------------------
(* The seats of some groups, and what moving the groups does to the map.   *)
SeatsIn(G) == {s \in Seats : \E g \in G : rows[g][s] # "none"}

LEMMA ViewIsFunction ==
  ASSUME NEW R, NEW H
  PROVE  ViewOf(R, H) = [s \in Seats |-> ViewOf(R, H)[s]]
  BY DEF ViewOf

LEMMA SeatsStay ==
  ASSUME TypeOK, Ledger, Exclusive(rows'), NEW G, NEW from, NEW to,
         Moves(G, from, to), NEW s \in Seats \ SeatsIn(G)
  PROVE  ViewOf(rows', groups')[s] = ViewOf(rows, groups)[s]
  <1>1. Exclusive(rows)
    BY DEF Ledger
  <1>2. \A g \in Groups : rows'[g][s] = rows[g][s] /\ Kept(g)
    BY DEF Moves, SeatsIn
  <1>3. QED
    BY <1>1, <1>2, SeatSame

LEMMA SeatsDropped ==
  ASSUME TypeOK, Ledger, NEW G, NEW from \in {"held", "sold"}, Moves(G, from, Dropped),
         NEW s \in SeatsIn(G)
  PROVE  ViewOf(rows', groups')[s] = FreeSeat
  <1>1. PICK g \in G : g \in Groups /\ s \in Seats /\ rows[g][s] # "none"
    BY DEF SeatsIn, Moves
  <1>2. rows[g][s] \in Active
    BY <1>1, RowOfGroup DEF Moves, Active
  <1>3. rows'[g][s] \in Dropped
    BY <1>1 DEF Moves, Dropped, RowStatusOf
  <1>4. \A h \in Groups : h # g => rows[h][s] \notin Active
    BY <1>1, <1>2 DEF Ledger, Exclusive
  <1>5. \A h \in Groups : h # g => rows'[h][s] \notin Active
    <2>1. ASSUME NEW h \in Groups, h # g
          PROVE  rows'[h][s] \notin Active
      <3>1. CASE h \in G /\ rows[h][s] # "none"
        BY <1>1, <3>1 DEF Moves, Dropped, RowStatusOf, Active
      <3>2. CASE ~(h \in G /\ rows[h][s] # "none")
        BY <1>1, <1>4, <2>1, <3>2 DEF Moves
      <3>3. QED
        BY <3>1, <3>2
    <2>2. QED
      BY <2>1
  <1>6. rows'[g][s] \notin Active
    BY <1>3 DEF Dropped, Active
  <1>7. QED
    BY <1>1, <1>5, <1>6, SeatFree

LEMMA SeatsSold ==
  ASSUME TypeOK, Ledger, Exclusive(rows'), NEW G, Moves(G, "held", {"sold"}),
         NEW u, \A g \in G : groups[g].user = u, NEW s \in SeatsIn(G)
  PROVE  ViewOf(rows', groups')[s] = SoldTo(u)
  <1>1. PICK g \in G : g \in Groups /\ s \in Seats /\ rows[g][s] # "none"
    BY DEF SeatsIn, Moves
  <1>2. rows'[g][s] = "converted" /\ groups'[g].user = u
    BY <1>1 DEF Moves, RowStatusOf, Kept
  <1>3. QED
    BY <1>1, <1>2, SeatShown

(* What the seats of a group show before it is moved.                      *)
LEMMA SeatsBefore ==
  ASSUME TypeOK, Ledger, NEW G \in SUBSET Groups, NEW s \in SeatsIn(G)
  PROVE  \E g \in G :
           /\ rows[g][s] # "none"
           /\ groups[g].status = "held" =>
                ViewOf(rows, groups)[s] = HeldBy(groups[g].user, groups[g].expires)
           /\ groups[g].status = "sold" => ViewOf(rows, groups)[s] = SoldTo(groups[g].user)
  <1>1. PICK g \in G : g \in Groups /\ s \in Seats /\ rows[g][s] # "none"
    BY DEF SeatsIn
  <1>2. /\ groups[g].status = "held" => rows[g][s] = "held"
        /\ groups[g].status = "sold" => rows[g][s] = "converted"
    BY <1>1, RowOfGroup
  <1>3. QED
    BY <1>1, <1>2, SeatShown DEF Ledger

-----------------------------------------------------------------------------
(* Steps of the checkout as steps of the market.                           *)
LEMMA Stutters ==
  ASSUME TypeOK, Ledger, Exclusive(rows'), UNCHANGED <<rows, groups>>
  PROVE  SeatView' = SeatView
  BY ViewNow, ViewNext

LEMMA SameView ==
  ASSUME \A s \in Seats : ViewOf(rows', groups')[s] = ViewOf(rows, groups)[s]
  PROVE  SeatView' = SeatView
  <1>1. [s \in Seats |-> ViewOf(rows', groups')[s]] = [s \in Seats |-> ViewOf(rows, groups)[s]]
    OBVIOUS
  <1>2. QED
    BY <1>1, ViewNow, ViewNext, ViewIsFunction

LEMMA DropStep ==
  ASSUME TypeOK, Ledger, Exclusive(rows'), NEW G, Moves(G, "held", Dropped), UNCHANGED clock
  PROVE  [Market!MarketNext]_<<clock, SeatView>>
  <1> DEFINE S == SeatsIn(G)
  <1>1. S \in SUBSET Seats /\ G \in SUBSET Groups
    BY DEF SeatsIn, Moves
  <1>2. \A s \in Seats \ S : ViewOf(rows', groups')[s] = ViewOf(rows, groups)[s]
    BY SeatsStay
  <1>3. \A s \in S : ViewOf(rows', groups')[s] = FreeSeat
    BY SeatsDropped
  <1>4. \A s \in S : ViewOf(rows, groups)[s].state = "held"
    <2> SUFFICES ASSUME NEW s \in S
                 PROVE  ViewOf(rows, groups)[s].state = "held"
      OBVIOUS
    <2>1. PICK e, u : ViewOf(rows, groups)[s] = HeldBy(u, e)
      BY <1>1, SeatsBefore DEF Moves
    <2>2. QED
      BY <2>1 DEF HeldBy
  <1> HIDE DEF S
  <1>5. CASE S = {}
    BY <1>2, <1>5, SameView
  <1>6. CASE S # {}
    <2>1. S \subseteq Market!Held
      BY <1>1, <1>4, ViewNow DEF Market!Held
    <2>2. ViewOf(rows', groups') = [s \in Seats |-> IF s \in S THEN FreeSeat
                                                     ELSE ViewOf(rows, groups)[s]]
      BY <1>2, <1>3, ViewIsFunction
    <2>3. SeatView' = Market!Put(S, Market!FreeSeat)
      BY <2>2, ViewNow, ViewNext DEF Market!Put, Market!FreeSeat, FreeSeat
    <2>4. Market!Drop(S)
      BY <1>6, <2>1, <2>3 DEF Market!Drop
    <2>5. QED
      BY <2>1, <2>4 DEF Market!MarketNext
  <1>7. QED
    BY <1>5, <1>6

LEMMA SellStep ==
  ASSUME TypeOK, Ledger, Exclusive(rows'), NEW G, Moves(G, "held", {"sold"}),
         NEW u, \A g \in G : groups[g].user = u /\ u \in Users, UNCHANGED clock
  PROVE  [Market!MarketNext]_<<clock, SeatView>>
  <1> DEFINE S == SeatsIn(G)
  <1>1. S \in SUBSET Seats /\ G \in SUBSET Groups
    BY DEF SeatsIn, Moves
  <1>2. \A s \in Seats \ S : ViewOf(rows', groups')[s] = ViewOf(rows, groups)[s]
    BY SeatsStay
  <1>3. \A s \in S : ViewOf(rows', groups')[s] = SoldTo(u)
    BY SeatsSold
  <1>4. \A s \in S : /\ ViewOf(rows, groups)[s].state = "held"
                     /\ ViewOf(rows, groups)[s].owner = u
    <2> SUFFICES ASSUME NEW s \in S
                 PROVE  /\ ViewOf(rows, groups)[s].state = "held"
                        /\ ViewOf(rows, groups)[s].owner = u
      OBVIOUS
    <2>1. PICK e : ViewOf(rows, groups)[s] = HeldBy(u, e)
      BY <1>1, SeatsBefore DEF Moves
    <2>2. QED
      BY <2>1 DEF HeldBy
  <1>5. S # {} => u \in Users
    BY DEF SeatsIn
  <1> HIDE DEF S
  <1>6. CASE S = {}
    BY <1>2, <1>6, SameView
  <1>7. CASE S # {}
    <2>1. S \subseteq Market!Held /\ \A s \in S : SeatView[s].owner = u
      BY <1>1, <1>4, ViewNow DEF Market!Held
    <2>2. ViewOf(rows', groups') = [s \in Seats |-> IF s \in S THEN SoldTo(u)
                                                     ELSE ViewOf(rows, groups)[s]]
      BY <1>2, <1>3, ViewIsFunction
    <2>3. SeatView' = Market!Put(S, Market!SoldSeat(u))
      BY <2>2, ViewNow, ViewNext DEF Market!Put, Market!SoldSeat, SoldTo
    <2>4. Market!Sell(u, S)
      BY <1>7, <2>1, <2>3 DEF Market!Sell
    <2>5. u \in Users
      BY <1>5, <1>7
    <2>6. \E v \in Users : Market!Sell(v, S)
      BY <2>4, <2>5
    <2>7. QED
      BY <2>1, <2>6 DEF Market!MarketNext
  <1>8. QED
    BY <1>6, <1>7

LEMMA ReturnStep ==
  ASSUME TypeOK, Ledger, Exclusive(rows'), NEW G, Moves(G, "sold", Dropped),
         NEW u, \A g \in G : groups[g].user = u /\ u \in Users, UNCHANGED clock
  PROVE  [Market!MarketNext]_<<clock, SeatView>>
  <1> DEFINE S == SeatsIn(G)
  <1>1. S \in SUBSET Seats /\ G \in SUBSET Groups
    BY DEF SeatsIn, Moves
  <1>2. \A s \in Seats \ S : ViewOf(rows', groups')[s] = ViewOf(rows, groups)[s]
    BY SeatsStay
  <1>3. \A s \in S : ViewOf(rows', groups')[s] = FreeSeat
    BY SeatsDropped
  <1>4. \A s \in S : ViewOf(rows, groups)[s] = SoldTo(u)
    BY <1>1, SeatsBefore DEF Moves
  <1>5. S # {} => u \in Users
    BY DEF SeatsIn
  <1> HIDE DEF S
  <1>6. CASE S = {}
    BY <1>2, <1>6, SameView
  <1>7. CASE S # {}
    <2>1. S \subseteq Market!Sold(u)
      BY <1>1, <1>4, ViewNow DEF Market!Sold, Market!SoldSeat, SoldTo
    <2>2. ViewOf(rows', groups') = [s \in Seats |-> IF s \in S THEN FreeSeat
                                                     ELSE ViewOf(rows, groups)[s]]
      BY <1>2, <1>3, ViewIsFunction
    <2>3. SeatView' = Market!Put(S, Market!FreeSeat)
      BY <2>2, ViewNow, ViewNext DEF Market!Put, Market!FreeSeat, FreeSeat
    <2>4. Market!Return(u, S)
      BY <1>7, <2>1, <2>3 DEF Market!Return
    <2>5. u \in Users
      BY <1>5, <1>7
    <2>6. \E v \in Users : S \in SUBSET Market!Sold(v) /\ Market!Return(v, S)
      BY <2>1, <2>4, <2>5
    <2>7. QED
      BY <2>6 DEF Market!MarketNext
  <1>8. QED
    BY <1>6, <1>7

(* A hold: the seats it takes are free or their hold has run out, and the   *)
(* other holds that have run out are swept away.                           *)
LEMMA ClaimStep ==
  ASSUME TypeOK, Ledger, Exclusive(rows'), NEW t \in EntryTimes, NEW u \in Users,
         NEW g \in Groups, NEW tt \in TicketTypes, NEW S \in SUBSET Seats,
         CreateHold(u, g, tt, S, t)
  PROVE  [Market!MarketNext]_<<clock, SeatView>>
  <1> DEFINE late == Overdue(t)
             T == SeatsIn(late) \ S
             e == t + HoldDuration
  <1>1. /\ \A s \in Seats : rows[g][s] = "none"
        /\ groups'[g] = [status |-> "held", user |-> u, type |-> tt,
                         expires |-> e, order |-> None]
        /\ \A s \in Seats : rows'[g][s] = IF s \in S THEN "held" ELSE "none"
        /\ \A h \in Groups \ {g} :
             /\ Kept(h)
             /\ \A s \in Seats :
                  rows'[h][s] = IF h \in late /\ rows[h][s] # "none"
                                THEN "expired" ELSE rows[h][s]
    BY CreateHoldMoves
  <1>2. /\ S # {} /\ S \cap Occupied(t) = {} /\ t < SalesClose /\ UNCHANGED clock
    BY DEF CreateHold, RegistrationOpen
  <1>3. t \in Nat /\ clock \in Nat /\ t <= clock
    BY DEF EntryTimes, TypeOK
  <1>4. \A h \in Groups : /\ groups[h].expires \in Nat
                          /\ h \in late <=> groups[h].status = "held" /\ groups[h].expires <= t
    BY GroupFacts DEF Overdue
  <1>5. Exclusive(rows)
    BY DEF Ledger
  <1>6. e \in 0..MaxTime /\ e <= clock + HoldDuration
    BY <1>2, <1>3, ConstantsAssumption, WindowAssumption
  (* An active row in a seat that is taken has run out.                    *)
  <1>7. ASSUME NEW s \in S, NEW h \in Groups, rows[h][s] \in Active
        PROVE  h \in late /\ rows[h][s] = "held"
    <2>1. s \in Seats /\ s \notin Occupied(t)
      BY <1>2
    <2>2. /\ rows[h][s] # "converted"
          /\ ~(rows[h][s] = "held" /\ groups[h].status = "held" /\ groups[h].expires > t)
      BY <2>1 DEF Occupied
    <2>3. rows[h][s] = "held" /\ groups[h].status = "held"
      BY <1>7, <2>1, <2>2, RowOfGroup DEF Active
    <2>4. QED
      BY <1>3, <1>4, <2>2, <2>3
  <1>8. ASSUME NEW s \in Seats, NEW h \in late, rows[h][s] # "none"
        PROVE  s \in Market!Lapsed
    <2>1. h \in Groups /\ groups[h].status = "held"
      BY DEF Overdue
    <2>2. rows[h][s] = "held"
      BY <1>8, <2>1, RowOfGroup
    <2>3. SeatView[s] = HeldBy(groups[h].user, groups[h].expires)
      BY <1>5, <2>1, <2>2, SeatShown, ViewNow
    <2>4. groups[h].expires <= clock
      BY <1>3, <1>4, <2>1
    <2>5. QED
      BY <2>3, <2>4 DEF Market!Lapsed, Market!Held, HeldBy
  <1>9. S \subseteq Market!Free \cup Market!Lapsed
    <2>1. ASSUME NEW s \in S
          PROVE  s \in Market!Free \cup Market!Lapsed
      <3>1. CASE \E h \in Groups : rows[h][s] \in Active
        <4>1. PICK h \in Groups : h \in late /\ rows[h][s] = "held"
          BY <1>7, <3>1
        <4>2. QED
          BY <1>8, <4>1
      <3>2. CASE \A h \in Groups : rows[h][s] \notin Active
        <4>1. SeatView[s] = FreeSeat
          BY <3>2, SeatFree, ViewNow
        <4>2. QED
          BY <4>1 DEF Market!Free, FreeSeat
      <3>3. QED
        BY <3>1, <3>2
    <2>2. QED
      BY <2>1
  <1>10. T \in SUBSET (Market!Lapsed \ S)
    BY <1>8 DEF SeatsIn
  <1>11. ASSUME NEW s \in S
         PROVE  ViewOf(rows', groups')[s] = HeldBy(u, e)
    BY <1>1, SeatShown
  <1>12. ASSUME NEW s \in T
         PROVE  ViewOf(rows', groups')[s] = FreeSeat
    <2>1. PICK h \in late : s \in Seats /\ h \in Groups /\ rows[h][s] # "none" /\ s \notin S
      BY DEF SeatsIn, Overdue
    <2>2. rows[h][s] = "held"
      BY <2>1, RowOfGroup DEF Overdue
    <2>3. rows'[g][s] = "none" /\ g # h
      BY <1>1, <2>1
    <2>4. rows'[h][s] = "expired"
      BY <1>1, <2>1, <2>3
    <2>5. ASSUME NEW k \in Groups
          PROVE  rows'[k][s] \notin Active
      <3>1. k # h => rows[k][s] \notin Active
        BY <1>5, <2>1, <2>2 DEF Exclusive, Active
      <3>2. CASE k # g /\ k # h
        BY <1>1, <2>1, <3>1, <3>2 DEF Active
      <3>3. QED
        BY <2>3, <2>4, <3>2 DEF Active
    <2>6. QED
      BY <2>1, <2>5, SeatFree
  <1>13. ASSUME NEW s \in Seats, s \notin S, s \notin T
         PROVE  ViewOf(rows', groups')[s] = ViewOf(rows, groups)[s]
    <2>1. rows'[g][s] = "none" /\ rows[g][s] = "none"
      BY <1>1, <1>13
    <2>2. \A h \in late : rows[h][s] = "none"
      BY <1>13 DEF SeatsIn
    <2>3. \A h \in Groups \ {g} : rows'[h][s] = rows[h][s] /\ Kept(h)
      BY <1>1, <2>2
    <2>4. QED
      BY <1>5, <2>1, <2>3, SeatSame DEF Active
  <1> HIDE DEF T, e, late
  <1>14. ViewOf(rows', groups') =
           [s \in Seats |-> IF s \in S THEN HeldBy(u, e)
                            ELSE IF s \in T THEN FreeSeat ELSE ViewOf(rows, groups)[s]]
    BY <1>11, <1>12, <1>13, ViewIsFunction
  <1>15. SeatView' =
           [s \in Seats |-> IF s \in S THEN Market!HeldSeat(u, e)
                            ELSE IF s \in T THEN Market!FreeSeat ELSE SeatView[s]]
    BY <1>14, ViewNow, ViewNext DEF HeldBy, FreeSeat, Market!HeldSeat, Market!FreeSeat
  <1>16. Market!Claim(u, S, e)
    BY <1>2, <1>6, <1>9, <1>10, <1>15 DEF Market!Claim
  <1>17. QED
    BY <1>6, <1>9, <1>16 DEF Market!MarketNext

-----------------------------------------------------------------------------
LEMMA MarketHolds ==
  ASSUME Books, Exclusive(rows'), HoldStep \/ HoldExpiry
  PROVE  [Market!MarketNext]_<<clock, SeatView>>
  <1>1. TypeOK /\ Ledger
    BY DEF Books, Typed
  <1>2. ASSUME NEW t \in EntryTimes, NEW u \in Users, NEW g \in Groups, ReleaseHold(u, g, t)
        PROVE  [Market!MarketNext]_<<clock, SeatView>>
    <2>1. PICK G \in SUBSET Groups : Moves(G, "held", Dropped)
      BY <1>1, <1>2, ReleaseHoldMoves
    <2>2. UNCHANGED clock
      BY <1>2 DEF ReleaseHold
    <2>3. QED
      BY <1>1, <2>1, <2>2, DropStep
  <1>3. ASSUME NEW t, ExpireHolds(t)
        PROVE  [Market!MarketNext]_<<clock, SeatView>>
    <2>1. PICK G \in SUBSET Groups : Moves(G, "held", Dropped)
      BY <1>1, <1>3, ExpireHoldsMoves
    <2>2. UNCHANGED clock
      BY <1>3 DEF ExpireHolds
    <2>3. QED
      BY <1>1, <2>1, <2>2, DropStep
  <1>4. QED
    BY <1>1, <1>2, <1>3, ClaimStep DEF HoldStep, HoldExpiry

LEMMA MarketPlaces ==
  ASSUME Books, Exclusive(rows'), PlaceStep
  PROVE  [Market!MarketNext]_<<clock, SeatView>>
  <1>1. TypeOK /\ Ledger
    BY DEF Books, Typed
  <1>2. ASSUME NEW u \in Users, NEW o \in Orders, NEW t, NEW G \in SUBSET Groups,
               PlacePaidSeatOrder(u, o, G, t)
        PROVE  [Market!MarketNext]_<<clock, SeatView>>
    <2>1. Moves({}, "held", {}) /\ SeatsIn({}) = {}
      BY <1>1, <1>2, PaidSeatsMove DEF SeatsIn
    <2>2. \A s \in Seats : ViewOf(rows', groups')[s] = ViewOf(rows, groups)[s]
      BY <1>1, <2>1, SeatsStay
    <2>3. SeatView' = SeatView /\ UNCHANGED clock
      BY <1>2, <2>2, SameView DEF PlacePaidSeatOrder
    <2>4. QED
      BY <2>3
  <1>3. ASSUME NEW u \in Users, NEW o \in Orders, NEW t, NEW G \in SUBSET Groups,
               PlaceFreeSeatOrder(u, o, G, t)
        PROVE  [Market!MarketNext]_<<clock, SeatView>>
    <2>1. Moves(G, "held", {"sold"}) /\ UNCHANGED clock /\ SeatCart(u, o, G, t)
      BY <1>1, <1>3, FreeSeatsMove
    <2>2. \A g \in G : groups[g].user = u /\ u \in Users
      BY <2>1 DEF SeatCart
    <2>3. QED
      BY <1>1, <2>1, <2>2, SellStep
  <1>4. ASSUME NEW u \in Users, NEW o \in Orders, NEW t,
               NEW q \in [TicketTypes -> 0..MaxPerOrder],
               PlacePaidGAOrder(u, o, q, t) \/ PlaceFreeGAOrder(u, o, q, t)
        PROVE  [Market!MarketNext]_<<clock, SeatView>>
    <2>1. UNCHANGED <<clock, groups, rows>>
      BY <1>4 DEF PlacePaidGAOrder, PlaceFreeGAOrder
    <2>2. QED
      BY <1>1, <2>1, Stutters
  <1>5. QED
    BY <1>2, <1>3, <1>4 DEF PlaceStep

LEMMA MarketReleases ==
  ASSUME Books, Exclusive(rows'), NEW o \in Orders, NEW status,
         ReleaseOrder(o, status), UNCHANGED clock
  PROVE  [Market!MarketNext]_<<clock, SeatView>>
  BY ReleaseOrderMoves, DropStep DEF Books, Typed

(* The groups of an order are those of its buyer.                          *)
LEMMA BuyersGroups ==
  ASSUME Books, NEW o \in Orders, NEW g \in GroupsOf(o), groups[g].status # "none"
  PROVE  groups[g].user = orders[o].user /\ orders[o].user \in Users
  <1>1. g \in Groups /\ groups[g].order = o /\ o # None
    BY ConstantsAssumption DEF GroupsOf
  <1>2. QED
    BY <1>1 DEF Books, Sales, LinkOK

LEMMA MarketRequests ==
  ASSUME Books, Exclusive(rows'), RequestStep
  PROVE  [Market!MarketNext]_<<clock, SeatView>>
  <1>1. Typed /\ TypeOK /\ Ledger
    BY DEF Books, Typed
  <1>2. ASSUME NEW r \in Requests, CancelPending(r)
        PROVE  [Market!MarketNext]_<<clock, SeatView>>
    <2>1. reqs[r].order \in Orders
      BY <1>1, <1>2, FinishingType DEF CancelPending
    <2>2. ReleaseOrder(reqs[r].order, "cancelled") /\ UNCHANGED clock
      BY <1>2 DEF CancelPending
    <2>3. QED
      BY <2>1, <2>2, MarketReleases
  <1>3. ASSUME NEW r \in Requests, ConfirmPaid(r)
        PROVE  [Market!MarketNext]_<<clock, SeatView>>
    <2> DEFINE o == reqs[r].order
    <2>1. /\ o \in Orders /\ Moves(GroupsOf(o), "held", {"sold"})
          /\ \A g \in GroupsOf(o) : groups[g].status = "held"
      BY <1>1, <1>3, ConfirmMoves
    <2>2. UNCHANGED clock
      BY <1>3 DEF ConfirmPaid
    <2> HIDE DEF o
    <2>3. \A g \in GroupsOf(o) : groups[g].user = orders[o].user /\ orders[o].user \in Users
      BY <2>1, BuyersGroups
    <2>4. QED
      BY <1>1, <2>1, <2>2, <2>3, SellStep
  <1>4. ASSUME NEW r \in Requests, CancelFree(r)
        PROVE  [Market!MarketNext]_<<clock, SeatView>>
    <2> DEFINE o == reqs[r].order
               G == GroupsIn(GroupsOf(o), "sold")
    <2>1. o \in Orders /\ Moves(G, "sold", Dropped)
      BY <1>1, <1>4, CancelFreeMoves
    <2>2. UNCHANGED clock
      BY <1>4 DEF CancelFree
    <2>3. \A g \in G : g \in GroupsOf(o) /\ groups[g].status = "sold"
      BY DEF GroupsIn
    <2> HIDE DEF o, G
    <2>4. \A g \in G : groups[g].user = orders[o].user /\ orders[o].user \in Users
      BY <2>1, <2>3, BuyersGroups
    <2>5. QED
      BY <1>1, <2>1, <2>2, <2>4, ReturnStep
  <1>5. ASSUME NEW r \in Requests,
               \/ \E o \in Orders : BeginCancel(r, o) \/ BeginConfirm(r, o)
               \/ CancelReleased(r) \/ CancelWithoutEffect(r) \/ ConfirmWithoutEffect(r)
        PROVE  [Market!MarketNext]_<<clock, SeatView>>
    <2>1. UNCHANGED <<clock, rows, groups>>
      BY <1>5 DEF BeginCancel, BeginConfirm, Begin, CancelReleased,
         CancelWithoutEffect, ConfirmWithoutEffect
    <2>2. QED
      BY <1>1, <2>1, Stutters
  <1>6. QED
    BY <1>2, <1>3, <1>4, <1>5 DEF RequestStep

LEMMA MarketSteps == Books /\ [Next]_vars => [Market!MarketNext]_<<clock, SeatView>>
  <1> SUFFICES ASSUME Books, [Next]_vars
               PROVE  [Market!MarketNext]_<<clock, SeatView>>
    OBVIOUS
  <1>1. TypeOK /\ Ledger /\ due \subseteq Orders
    BY DEF Books, Typed, TypeOK
  <1>2. Exclusive(rows')
    BY BooksStep DEF Books, Ledger
  <1>3. CASE Tick
    <2>1. clock < MaxTime /\ clock' = clock + 1 /\ UNCHANGED <<rows, groups>>
      BY <1>3 DEF Tick
    <2>2. SeatView' = SeatView
      BY <1>1, <1>2, <2>1, Stutters
    <2>3. QED
      BY <2>1, <2>2 DEF Market!MarketNext, Market!Pass
  <1>4. ASSUME NEW o \in Orders, FailPending(o) \/ ExpireOrder(o)
        PROVE  [Market!MarketNext]_<<clock, SeatView>>
    <2>1. PICK status : ReleaseOrder(o, status)
      BY <1>4 DEF FailPending, ExpireOrder
    <2>2. UNCHANGED clock
      BY <1>4 DEF FailPending, ExpireOrder
    <2>3. QED
      BY <1>2, <2>1, <2>2, MarketReleases
  <1>5. ASSUME \/ EventStep \/ ScanDueOrders \/ WorkerCrash
               \/ \E o \in due : SkipOrder(o) \/ AbortPass(o)
               \/ UNCHANGED vars
        PROVE  [Market!MarketNext]_<<clock, SeatView>>
    <2>1. UNCHANGED <<clock, rows, groups>>
      BY <1>5 DEF EventStep, PublishEvent, UnpublishEvent, CancelEvent, SetVisibility,
         EventEdit, ScanDueOrders, WorkerCrash, SkipOrder, AbortPass, vars
    <2>2. QED
      BY <1>1, <1>2, <2>1, Stutters
  <1>6. CASE HoldStep \/ HoldExpiry \/ PlaceStep \/ RequestStep
    BY <1>2, <1>6, MarketHolds, MarketPlaces, MarketRequests
  <1>7. CASE WorkerStep \/ \E o \in Orders : FailPending(o)
    BY <1>1, <1>4, <1>5, <1>7 DEF WorkerStep, HandleDueOrder
  <1>8. QED
    BY <1>3, <1>5, <1>6, <1>7 DEF Next

(* Assigned seating implements the seat market, for every number of users,  *)
(* seats, groups, orders and requests: a seat on hold is nobody else's until*)
(* the hold has run out or was given up, is sold to its holder only, and is *)
(* for sale again only after its registration was cancelled.               *)
THEOREM SeatsImplementMarket == Spec => ImplementsMarket
  <1>1. Init => Market!MarketInit
    <2> SUFFICES ASSUME Init PROVE Market!MarketInit
      OBVIOUS
    <2>1. clock = 0 /\ \A g \in Groups, s \in Seats : rows[g][s] \notin Active
      BY DEF Init, Active
    <2>2. \A s \in Seats : ViewOf(rows, groups)[s] = FreeSeat
      BY <2>1, SeatFree
    <2>3. SeatView = [s \in Seats |-> Market!FreeSeat]
      BY <2>2, ViewNow, ViewIsFunction DEF FreeSeat, Market!FreeSeat
    <2>4. QED
      BY <2>1, <2>3 DEF Market!MarketInit
  <1>2. QED
    BY <1>1, MarketSteps, BooksAlways, PTL DEF Spec, ImplementsMarket, Market!MarketSpec
=============================================================================

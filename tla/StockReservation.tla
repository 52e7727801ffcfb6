-------------------------- MODULE StockReservation --------------------------
(***************************************************************************)
(* POST /orders up to the order's transaction.  Item by item a request     *)
(* reads the stock, drops the expired members of the product's sorted set  *)
(* in Redis, counts the rest, and adds a member per unit when the headroom *)
(* of 120 % allows.  Nothing ties these calls together, and nothing but    *)
(* its expiry takes a reservation away.  The saga later takes the units of *)
(* the placed order from the stock, or turns the order away, and it may    *)
(* put the units of one order back more than once (see OrderSaga).         *)
(***************************************************************************)
EXTENDS Integers, FiniteSets, Sequences

CONSTANTS
  Requests,     \* the orders somebody asks for
  Products,
  Items,        \* request |-> its items, [product, quantity] each
  InitStock,    \* product |-> units on the shelf at first
  AtOnce,       \* bound: requests the instances work on at the same time
  TTL,          \* the lifetime of a reservation (300 s)
  MaxRestores,  \* bound: times the units of one order are put back
  MaxTime       \* bound on the clock

ASSUME ReservationAssumption ==
  /\ Items \in [Requests -> Seq([product : Products, quantity : Nat \ {0}])]
  /\ \A r \in Requests : Items[r] # <<>>
  /\ InitStock \in [Products -> Nat]
  /\ AtOnce \in Nat \ {0}
  /\ TTL \in Nat \ {0}
  /\ MaxRestores \in Nat
  /\ MaxTime \in Nat

VARIABLES
  clock,
  stock,      \* product |-> units in MySQL
  peak,       \* for the properties only: product |-> the most units there were
  restores,   \* request |-> times the saga has put its units back
  reserved,   \* product |-> members of its sorted set: [id, score], and for
              \* the properties only the time of the ZADD, added
  asOf,       \* request |-> the time it purges by
  room,       \* request |-> the units it believes free, at first all the headroom
  score,      \* request |-> the expiries of its items so far
  unit,       \* request |-> the unit it adds next
  pc          \* request |-> how far it is

vars == <<clock, stock, peak, restores, reserved, asOf, room, score, unit, pc>>
shelf == <<stock, peak, restores>>

InFlight == {"stock", "purge", "count", "decide", "add", "create"}
Placed == {"ordered", "taken", "restored", "short"}
Ended == {"refused", "failed"} \cup Placed

GoTo(r, s) == pc' = [pc EXCEPT ![r] = s]

\* The item a request works on, its product and quantity.  The expiry of an
\* item is fixed when its units are about to be added.
Item(r) == IF pc[r] = "add" THEN Len(score[r]) ELSE Len(score[r]) + 1
Product(r) == Items[r][Item(r)].product
Quantity(r) == Items[r][Item(r)].quantity

Headroom(units) == (units * 6) \div 5

\* ZADD: a member that is already in the set only gets a new score.
ZAdd(set, id, at) ==
  {m \in set : m.id # id} \cup {[id |-> id, score |-> at, added |-> clock]}

Init ==
  /\ clock = 0
  /\ stock = InitStock
  /\ peak = InitStock
  /\ restores = [r \in Requests |-> 0]
  /\ reserved = [p \in Products |-> {}]
  /\ asOf = [r \in Requests |-> 0]
  /\ room = [r \in Requests |-> 0]
  /\ score = [r \in Requests |-> <<>>]
  /\ unit = [r \in Requests |-> 0]
  /\ pc = [r \in Requests |-> "idle"]

Tick ==
  /\ clock < MaxTime
  /\ clock' = clock + 1
  /\ UNCHANGED <<shelf, reserved, asOf, room, score, unit, pc>>

-----------------------------------------------------------------------------
\* order(): the loop over the items builds every purge at once, so all of
\* them use the time of the request.
Start(r) ==
  /\ pc[r] = "idle"
  /\ Cardinality({q \in Requests : pc[q] \in InFlight}) < AtOnce
  /\ asOf' = [asOf EXCEPT ![r] = clock]
  /\ GoTo(r, "stock")
  /\ UNCHANGED <<clock, shelf, reserved, room, score, unit>>

ReadStock(r) ==
  /\ pc[r] = "stock"
  /\ room' = [room EXCEPT ![r] = Headroom(stock[Product(r)])]
  /\ GoTo(r, "purge")
  /\ UNCHANGED <<clock, shelf, reserved, asOf, score, unit>>

\* Mutant: the bound of the range is left out.
PurgeBefore(r) ==
  /\ pc[r] = "purge"
  /\ reserved' = [reserved EXCEPT ![Product(r)] = {m \in @ : m.score >= asOf[r]}]
  /\ GoTo(r, "count")
  /\ UNCHANGED <<clock, shelf, asOf, room, score, unit>>

\* countReservedStock: ZREMRANGEBYSCORE -inf now
Purge(r) ==
  /\ pc[r] = "purge"
  /\ reserved' = [reserved EXCEPT ![Product(r)] = {m \in @ : m.score > asOf[r]}]
  /\ GoTo(r, "count")
  /\ UNCHANGED <<clock, shelf, asOf, room, score, unit>>

\* Mutant: only what the stock says is compared.
CountNothing(r) ==
  /\ pc[r] = "count"
  /\ room' = room
  /\ GoTo(r, "decide")
  /\ UNCHANGED <<clock, shelf, reserved, asOf, score, unit>>

\* countReservedStock: ZCOUNT -inf +inf
Count(r) ==
  /\ pc[r] = "count"
  /\ room' = [room EXCEPT ![r] = @ - Cardinality(reserved[Product(r)])]
  /\ GoTo(r, "decide")
  /\ UNCHANGED <<clock, shelf, reserved, asOf, score, unit>>

\* Mutant: the loop over the units starts at 0.
AcceptFromZero(r) ==
  /\ pc[r] = "decide"
  /\ room[r] >= Quantity(r)
  /\ score' = [score EXCEPT ![r] = Append(@, clock + TTL)]
  /\ unit' = [unit EXCEPT ![r] = 0]
  /\ GoTo(r, "add")
  /\ UNCHANGED <<clock, shelf, reserved, asOf, room>>

\* ProductStockCacheStore.reserveStock begins: the units expire together.
Accept(r) ==
  /\ pc[r] = "decide"
  /\ room[r] >= Quantity(r)
  /\ score' = [score EXCEPT ![r] = Append(@, clock + TTL)]
  /\ unit' = [unit EXCEPT ![r] = 1]
  /\ GoTo(r, "add")
  /\ UNCHANGED <<clock, shelf, reserved, asOf, room>>

\* What a request had in memory is gone with it.
Leave(r, s) ==
  /\ GoTo(r, s)
  /\ asOf' = [asOf EXCEPT ![r] = 0]
  /\ room' = [room EXCEPT ![r] = 0]
  /\ unit' = [unit EXCEPT ![r] = 0]
  /\ UNCHANGED <<clock, shelf, reserved, score>>

\* TEMPORARY_OUT_OF_STOCK; what earlier items reserved stays.
Refuse(r) ==
  /\ pc[r] = "decide"
  /\ room[r] < Quantity(r)
  /\ Leave(r, "refused")

\* After its last unit an item is done, after its last item the reservation.
NextUnit(r) ==
  \/ /\ unit[r] < Quantity(r)
     /\ unit' = [unit EXCEPT ![r] = @ + 1]
     /\ UNCHANGED pc
  \/ /\ unit[r] = Quantity(r)
     /\ unit' = unit
     /\ GoTo(r, IF Item(r) = Len(Items[r]) THEN "create" ELSE "stock")

\* Mutant: members of one user are told apart by their number only.
AddUnitOfUser(r) ==
  /\ pc[r] = "add"
  /\ reserved' = [reserved EXCEPT ![Product(r)] = ZAdd(@, <<unit[r]>>, score[r][Item(r)])]
  /\ NextUnit(r)
  /\ UNCHANGED <<clock, shelf, asOf, room, score>>

\* One ZADD a unit, one name a reservation and unit.
AddUnit(r) ==
  /\ pc[r] = "add"
  /\ reserved' = [reserved EXCEPT ![Product(r)] =
       ZAdd(@, <<r, Item(r), unit[r]>>, score[r][Item(r)])]
  /\ NextUnit(r)
  /\ UNCHANGED <<clock, shelf, asOf, room, score>>

\* The order and its items, at most one of a product.
CreateOrder(r) ==
  /\ pc[r] = "create"
  /\ \A i, j \in DOMAIN Items[r] : Items[r][i].product = Items[r][j].product => i = j
  /\ Leave(r, "ordered")

\* A stock row that is not there, any call to Redis or MySQL, the reads of the
\* products and the transaction of the order may fail; nothing is taken back.  An
\* error of the order's insert ends the request without an answer (HttpLayer).
Fail(r) ==
  /\ pc[r] \in InFlight
  /\ Leave(r, "failed")

-----------------------------------------------------------------------------
\* What the saga does to the stock for the order (see AtomicStock).
LinesOf(r, p) == {i \in DOMAIN Items[r] : Items[r][i].product = p}

\* CreateOrder has left one line of a product at most.
Ordered(r, p) ==
  IF LinesOf(r, p) = {} THEN 0 ELSE Items[r][CHOOSE i \in LinesOf(r, p) : TRUE].quantity

\* Mutant: the stock is not checked again.
TakeUnchecked(r) ==
  /\ pc[r] = "ordered"
  /\ stock' = [p \in Products |-> stock[p] - Ordered(r, p)]
  /\ GoTo(r, "taken")
  /\ UNCHANGED <<clock, peak, restores, reserved, asOf, room, score, unit>>

Take(r) ==
  /\ pc[r] = "ordered"
  /\ \A p \in Products : stock[p] >= Ordered(r, p)
  /\ stock' = [p \in Products |-> stock[p] - Ordered(r, p)]
  /\ GoTo(r, "taken")
  /\ UNCHANGED <<clock, peak, restores, reserved, asOf, room, score, unit>>

\* executeCompensation for a payment that failed.  Another poller that has read
\* the event, or a round after one that did not mark it, does it again.
Restore(r) ==
  /\ pc[r] \in {"taken", "restored"}
  /\ restores[r] < MaxRestores
  /\ restores' = [restores EXCEPT ![r] = @ + 1]
  /\ stock' = [p \in Products |-> stock[p] + Ordered(r, p)]
  /\ peak' = [p \in Products |-> IF stock'[p] > peak[p] THEN stock'[p] ELSE peak[p]]
  /\ GoTo(r, "restored")
  /\ UNCHANGED <<clock, reserved, asOf, room, score, unit>>

Short(r) ==
  /\ pc[r] = "ordered"
  /\ \E p \in Products : stock[p] < Ordered(r, p)
  /\ GoTo(r, "short")
  /\ UNCHANGED <<clock, shelf, reserved, asOf, room, score, unit>>

Step(r) ==
  \/ Start(r)
  \/ ReadStock(r)
  \/ Purge(r)
  \/ Count(r)
  \/ Accept(r)
  \/ Refuse(r)
  \/ AddUnit(r)
  \/ CreateOrder(r)
  \/ Fail(r)
  \/ Take(r)
  \/ Restore(r)
  \/ Short(r)

Next == Tick \/ \E r \in Requests : Step(r)

Spec == Init /\ [][Next]_vars

-----------------------------------------------------------------------------
Members == [id : Requests \X (Nat \ {0}) \X (Nat \ {0}), score : Nat, added : Nat]

\* The requests and the sorted sets.
BooksTyped ==
  /\ clock \in Nat
  /\ reserved \in [Products -> SUBSET Members]
  /\ asOf \in [Requests -> Nat]
  /\ score \in [Requests -> Seq(Nat)]
  /\ unit \in [Requests -> Nat]
  /\ pc \in [Requests -> {"idle"} \cup InFlight \cup Ended]

\* Above all, the stock is never negative.
TypeOK ==
  /\ BooksTyped
  /\ stock \in [Products -> Nat]
  /\ peak \in [Products -> Nat]
  /\ restores \in [Requests -> Nat]
  /\ room \in [Requests -> Int]

Quantities(p) == UNION {{Items[r][i].quantity : i \in LinesOf(r, p)} : r \in Requests}

\* product |-> the most that one request asks of it at once, if there is a most.
Most == [p \in Products |->
  {most \in {0} \cup Quantities(p) : \A n \in Quantities(p) : n <= most}]

\* Counting and adding are separate calls, so two requests may both find room
\* for the last units.  The reservations exceed the headroom all the same by no
\* more than one item of every other request that is worked on at the time.  The
\* headroom is that of the fullest shelf so far: a compensation that runs twice
\* fills it beyond the first stock, and the reservations follow.
OverbookingBounded ==
  \A p \in Products : \A most \in Most[p] :
    Cardinality(reserved[p]) <= Headroom(peak[p]) + (AtOnce - 1) * most

\* Nothing but time gives a reservation back, so the units of an abandoned, a
\* half-reserved or a long-paid order stand in the way of others.  They do so no
\* longer than their lifetime: what a request counts was added less than TTL
\* before it came in.
RoomComesBack ==
  \A r \in Requests :
    pc[r] \in {"count", "decide"} =>
      \A m \in reserved[Product(r)] : asOf[r] < m.added + TTL

\* Units added are in the set under their own name and their own expiry until
\* that has passed, whatever other requests purge and add: no purge that is late
\* or by an old time takes a live one, no other order's unit replaces it.
UnitAdded(r, i, k) ==
  \/ i < Len(score[r])
  \/ i = Len(score[r]) /\ (pc[r] = "add" => k < unit[r])

UnitsStand ==
  \A r \in Requests : \A i \in 1..Len(score[r]) : \A k \in 1..Items[r][i].quantity :
    UnitAdded(r, i, k) /\ pc[r] # "failed" =>
      \/ \E m \in reserved[Items[r][i].product] : m.id = <<r, i, k>> /\ m.score = score[r][i]
      \/ score[r][i] <= clock

\* The invariant behind these: who is at which item, every member of a set is a
\* unit some request has added under the expiry of its item, and a member that
\* is counted was alive at the time of the purge or has come since.
AtItem(r) ==
  /\ asOf[r] <= clock
  /\ Len(score[r]) <= Len(Items[r])
  /\ pc[r] \in {"idle", "stock", "purge", "count", "decide"} => Len(score[r]) < Len(Items[r])
  /\ pc[r] = "add" =>
       /\ Len(score[r]) > 0
       /\ unit[r] \in 1..Quantity(r)
       /\ score[r][Len(score[r])] <= clock + TTL

MemberSound(p, m) ==
  /\ m.score <= m.added + TTL
  /\ \E r \in Requests : \E i \in 1..Len(score[r]) : \E k \in 1..Items[r][i].quantity :
       /\ m.id = <<r, i, k>>
       /\ m.score = score[r][i]
       /\ Items[r][i].product = p
       /\ m.added <= clock
       /\ i = Len(score[r]) /\ pc[r] = "add" => k < unit[r]

CountedAlive ==
  \A r \in Requests :
    pc[r] \in {"count", "decide"} =>
      \A m \in reserved[Product(r)] : m.score > asOf[r] \/ m.added >= asOf[r]

BooksInv ==
  /\ BooksTyped
  /\ \A r \in Requests : AtItem(r)
  /\ \A p \in Products : \A m \in reserved[p] : MemberSound(p, m)
  /\ CountedAlive

\* The invariant behind OverbookingBounded.  Booked are the units in the set of
\* p and those a request has found room for and is still to add.
ToAdd(r) ==
  IF pc[r] = "add" THEN unit[r] .. Quantity(r)
  ELSE IF room[r] >= Quantity(r) THEN 1 .. Quantity(r) ELSE {}

Promised(p) ==
  UNION {{<<r, Item(r), k>> : k \in ToAdd(r)} :
           r \in {q \in Requests : pc[q] \in {"decide", "add"} /\ Product(q) = p}}

Booked(p) == {m.id : m \in reserved[p]} \cup Promised(p)

BookedBounded(p) ==
  /\ \A m, n \in reserved[p] : m.id = n.id => m = n
  /\ \A most \in Most[p] :
       /\ IsFiniteSet(Booked(p))
       /\ Cardinality(Booked(p)) <= Headroom(peak[p]) + (AtOnce - 1) * most

\* While no order's units have been put back twice, the shelf and the taken orders
\* have all the units of p between them, and the first stock is the most there was.
RestoredTwice == \E r \in Requests : restores[r] > 1

TakenUnits(p) == UNION {{r} \X (1 .. Ordered(r, p)) : r \in {q \in Requests : pc[q] = "taken"}}

ShelfKept(p) ==
  /\ stock[p] <= peak[p]
  /\ RestoredTwice \/ /\ IsFiniteSet(TakenUnits(p))
                      /\ stock[p] + Cardinality(TakenUnits(p)) = InitStock[p]
                      /\ peak[p] = InitStock[p]

Working == {q \in Requests : pc[q] \in InFlight}

BookingInv ==
  /\ IsFiniteSet(Working) /\ Cardinality(Working) <= AtOnce
  /\ \A r \in Requests :
       /\ pc[r] \in {"purge", "count"} => room[r] <= Headroom(peak[Product(r)])
       /\ pc[r] = "restored" => restores[r] > 0
  /\ \A p \in Products : ShelfKept(p) /\ BookedBounded(p)

\* The inductive invariant: both.
ReservationInv == BooksInv /\ BookingInv
=============================================================================

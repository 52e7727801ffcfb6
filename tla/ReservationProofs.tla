------------------------- MODULE ReservationProofs -------------------------
(***************************************************************************)
(* Proofs about StockReservation, for any orders, stock, lifetime and any  *)
(* number of requests at once: what a request counts was alive when it     *)
(* came in, an added unit stands until it expires, the stock is never      *)
(* negative, and overbooking is bounded.                                   *)
(***************************************************************************)
EXTENDS StockReservation, FiniteSetTheorems, TLAPS

Inv == BooksInv /\ UnitsStand

Waiting == {"idle", "stock", "purge", "count", "decide"}

LEMMA ElementOfSeq ==
  ASSUME NEW S, NEW s \in Seq(S), NEW i \in 1..Len(s)
  PROVE  s[i] \in S
OBVIOUS

LEMMA LineOK ==
  ASSUME NEW r \in Requests, NEW i \in 1..Len(Items[r])
  PROVE  Items[r][i].product \in Products /\ Items[r][i].quantity \in Nat \ {0}
<1>1. Items[r] \in Seq([product : Products, quantity : Nat \ {0}])
  BY ReservationAssumption
<1>2. Items[r][i] \in [product : Products, quantity : Nat \ {0}]
  BY <1>1, ElementOfSeq
<1> QED BY <1>2

LEMMA LenItems == ASSUME NEW r \in Requests PROVE Len(Items[r]) \in Nat \ {0}
<1>1. Items[r] \in Seq([product : Products, quantity : Nat \ {0}]) /\ Items[r] # <<>>
  BY ReservationAssumption
<1> QED BY <1>1

\* The item a request works on is one of its order.
LEMMA AtItemOK ==
  ASSUME BooksTyped, NEW r \in Requests, AtItem(r), pc[r] \in Waiting \cup {"add"}
  PROVE  /\ Item(r) \in 1..Len(Items[r])
         /\ Len(score[r]) \in Nat /\ Len(Items[r]) \in Nat
         /\ Product(r) \in Products
         /\ Quantity(r) \in Nat \ {0}
<1>1. Len(score[r]) \in Nat /\ Len(Items[r]) \in Nat
  BY LenItems DEF BooksTyped
<1>2. Item(r) \in 1..Len(Items[r])
  BY <1>1 DEF Item, AtItem, Waiting
<1> QED BY <1>1, <1>2, LineOK DEF Product, Quantity

LEMMA InitInv == Init => Inv
<1>1. SUFFICES ASSUME Init PROVE Inv
  OBVIOUS
<1>2. BooksTyped
  BY <1>1 DEF Init, BooksTyped
<1>3. ASSUME NEW r \in Requests PROVE AtItem(r)
  <2>1. Len(Items[r]) \in Nat \ {0}
    BY LenItems
  <2> QED BY <1>1, <2>1 DEF Init, AtItem
<1>4. CountedAlive /\ UnitsStand
  BY <1>1 DEF Init, CountedAlive, UnitsStand
<1> QED BY <1>1, <1>2, <1>3, <1>4 DEF Init, Inv, BooksInv

-----------------------------------------------------------------------------
LEMMA LaterEnough == \A a, b, c, d \in Nat : a <= b + d /\ c >= b => a <= c + d
OBVIOUS

\* What is said of a request, kept by a step of another one.
LEMMA OtherAtItem ==
  ASSUME Inv, NEW q \in Requests,
         asOf'[q] = asOf[q], score'[q] = score[q], unit'[q] = unit[q], pc'[q] = pc[q],
         clock' \in Nat, clock' >= clock
  PROVE  AtItem(q)' /\ Product(q)' = Product(q)
<1>1. Item(q)' = Item(q)
  BY DEF Item
<1>2. Product(q)' = Product(q) /\ Quantity(q)' = Quantity(q)
  BY <1>1 DEF Product, Quantity
<1>3. AtItem(q) /\ asOf[q] \in Nat /\ clock \in Nat /\ score[q] \in Seq(Nat)
  BY DEF Inv, BooksInv, BooksTyped
<1>4. asOf[q] <= clock'
  BY <1>3 DEF AtItem
<1>5. ASSUME pc[q] = "add" PROVE score[q][Len(score[q])] <= clock' + TTL
  <2>1. Len(score[q]) \in 1..Len(score[q]) /\ score[q][Len(score[q])] <= clock + TTL
    BY <1>3, <1>5 DEF AtItem
  <2>2. score[q][Len(score[q])] \in Nat
    BY <1>3, <2>1, ElementOfSeq
  <2>3. TTL \in Nat
    BY ReservationAssumption
  <2> QED BY <1>3, <2>1, <2>2, <2>3, LaterEnough
<1> QED BY <1>2, <1>3, <1>4, <1>5 DEF AtItem

\* A step of r that leaves the sets, the expiries and the clock alone.
LEMMA QuietInv ==
  ASSUME Inv, NEW r \in Requests, NEW s \in InFlight \cup Ended, s # "add", GoTo(r, s),
         NEW a \in Nat, NEW u \in Nat, a <= clock,
         asOf' = [asOf EXCEPT ![r] = a], unit' = [unit EXCEPT ![r] = u],
         UNCHANGED <<clock, reserved, score>>,
         s \in Waiting => pc[r] \in Waiting,
         s \in {"count", "decide"} => pc[r] \in {"count", "decide"} /\ a = asOf[r],
         pc[r] = "add" => s = "failed",
         pc[r] = "failed" => s = "failed"
  PROVE  Inv'
<1>1. BooksTyped
  BY DEF Inv, BooksInv
<1>2. BooksTyped'
  BY <1>1 DEF BooksTyped, GoTo
<1>3. pc'[r] = s /\ asOf'[r] = a
  BY <1>1 DEF BooksTyped, GoTo
<1>4. \A q \in Requests \ {r} : pc'[q] = pc[q] /\ asOf'[q] = asOf[q] /\ unit'[q] = unit[q]
  BY <1>1 DEF BooksTyped, GoTo
<1>5. ASSUME NEW q \in Requests PROVE AtItem(q)'
  <2>1. CASE q = r
    <3>1. AtItem(r)
      BY DEF Inv, BooksInv
    <3> QED BY <2>1, <3>1, <1>3 DEF AtItem, Waiting
  <2>2. CASE q # r
    BY <1>1, <1>4, <2>2, OtherAtItem DEF BooksTyped
  <2> QED BY <2>1, <2>2
<1>6. ASSUME NEW p \in Products, NEW m \in reserved'[p] PROVE MemberSound(p, m)'
  <2>1. MemberSound(p, m)
    BY <1>6 DEF Inv, BooksInv
  <2>2. \A q \in Requests : pc'[q] = "add" => pc[q] = "add" /\ unit'[q] = unit[q]
    BY <1>3, <1>4
  <2> QED BY <2>1, <2>2 DEF MemberSound
<1>7. CountedAlive'
  <2>1. SUFFICES ASSUME NEW q \in Requests, pc'[q] \in {"count", "decide"}, NEW m \in reserved'[Product(q)']
                 PROVE  m.score > asOf'[q] \/ m.added >= asOf'[q]
    BY DEF CountedAlive
  <2>2. pc[q] \in {"count", "decide"} /\ asOf'[q] = asOf[q]
    BY <1>3, <1>4, <2>1
  <2>3. Product(q)' = Product(q)
    BY <2>1, <2>2 DEF Product, Item
  <2> QED BY <2>1, <2>2, <2>3 DEF Inv, BooksInv, CountedAlive
<1>8. UnitsStand'
  <2>1. SUFFICES ASSUME NEW q \in Requests, NEW i \in 1..Len(score[q]), NEW k \in 1..Items[q][i].quantity,
                        UnitAdded(q, i, k)', pc'[q] # "failed"
                 PROVE  \/ \E m \in reserved[Items[q][i].product] : m.id = <<q, i, k>> /\ m.score = score[q][i]
                        \/ score[q][i] <= clock
    BY DEF UnitsStand
  <2>2. pc[q] # "failed" /\ UnitAdded(q, i, k)
    BY <1>3, <1>4, <2>1 DEF UnitAdded
  <2> QED BY <2>2 DEF Inv, UnitsStand
<1> QED BY <1>2, <1>5, <1>6, <1>7, <1>8 DEF Inv, BooksInv

LEMMA StartInv == ASSUME Inv, NEW r \in Requests, Start(r) PROVE Inv'
<1>1. BooksTyped
  BY DEF Inv, BooksInv
<1>2. unit' = [unit EXCEPT ![r] = unit[r]]
  BY <1>1 DEF Start, BooksTyped
<1>3. clock \in Nat /\ unit[r] \in Nat
  BY <1>1 DEF BooksTyped
<1>4. /\ GoTo(r, "stock") /\ pc[r] = "idle"
      /\ asOf' = [asOf EXCEPT ![r] = clock]
      /\ UNCHANGED <<clock, reserved, score>>
  BY DEF Start
<1>5. clock <= clock
  BY <1>3
<1>6. "stock" \in InFlight \cup Ended /\ "stock" # "add" /\ pc[r] \in Waiting
      /\ "stock" \notin {"count", "decide"} /\ pc[r] \notin {"add", "failed"}
  BY <1>4 DEF InFlight, Waiting
<1> QED BY <1>2, <1>3, <1>4, <1>5, <1>6, QuietInv

LEMMA MoveInv ==
  ASSUME Inv, NEW r \in Requests,
         ReadStock(r) \/ Count(r) \/ Take(r) \/ Restore(r) \/ Short(r)
  PROVE  Inv'
<1>1. BooksTyped /\ AtItem(r)
  BY DEF Inv, BooksInv
<1>2. /\ asOf' = [asOf EXCEPT ![r] = asOf[r]]
      /\ unit' = [unit EXCEPT ![r] = unit[r]]
      /\ UNCHANGED <<clock, reserved, score>>
  BY <1>1 DEF ReadStock, Count, Take, Restore, Short, BooksTyped
<1>3. asOf[r] \in Nat /\ unit[r] \in Nat /\ asOf[r] <= clock
  BY <1>1 DEF BooksTyped, AtItem
<1>4. CASE ReadStock(r)
  <2>1. GoTo(r, "purge") /\ pc[r] = "stock"
    BY <1>4 DEF ReadStock
  <2>2. "purge" \in InFlight \cup Ended /\ "purge" # "add" /\ pc[r] \in Waiting
        /\ "purge" \notin {"count", "decide"} /\ pc[r] \notin {"add", "failed"}
    BY <2>1 DEF InFlight, Waiting
  <2> QED BY <1>2, <1>3, <2>1, <2>2, QuietInv
<1>5. CASE Count(r)
  BY <1>2, <1>3, <1>5, QuietInv DEF Count, InFlight, Waiting
<1>6. CASE Take(r) \/ Restore(r) \/ Short(r)
  <2>1. PICK s \in Placed : GoTo(r, s) /\ pc[r] \in {"ordered", "taken", "restored"}
    BY <1>6 DEF Take, Restore, Short, Placed
  <2> QED BY <1>2, <1>3, <2>1, QuietInv DEF Placed, Ended, Waiting
<1> QED BY <1>4, <1>5, <1>6

LEMMA LeaveInv ==
  ASSUME Inv, NEW r \in Requests, Refuse(r) \/ CreateOrder(r) \/ Fail(r)
  PROVE  Inv'
<1>1. BooksTyped
  BY DEF Inv, BooksInv
<1>2. PICK s \in {"refused", "ordered", "failed"} :
        /\ Leave(r, s)
        /\ pc[r] \in InFlight
        /\ pc[r] = "add" => s = "failed"
  BY DEF Refuse, CreateOrder, Fail, InFlight
<1>3. clock \in Nat
  BY <1>1 DEF BooksTyped
<1>4. /\ GoTo(r, s)
      /\ asOf' = [asOf EXCEPT ![r] = 0]
      /\ unit' = [unit EXCEPT ![r] = 0]
      /\ UNCHANGED <<clock, reserved, score>>
  BY <1>2 DEF Leave
<1>5. s \in Ended /\ 0 <= clock /\ 0 \in Nat /\ s \notin Waiting /\ s # "add"
  BY <1>3 DEF Ended, Placed, Waiting
<1>6. pc[r] # "failed"
  BY <1>2 DEF InFlight
<1> QED BY <1>2, <1>4, <1>5, <1>6, QuietInv DEF Waiting

LEMMA TickInv == ASSUME Inv, Tick PROVE Inv'
<1>1. BooksTyped /\ clock \in Nat /\ clock' = clock + 1
  BY DEF Inv, BooksInv, BooksTyped, Tick
<1>2. BooksTyped'
  BY <1>1 DEF BooksTyped, Tick
<1>3. \A q \in Requests : AtItem(q)' /\ Product(q)' = Product(q)
  BY <1>1, OtherAtItem DEF Tick
<1>4. ASSUME NEW p \in Products, NEW m \in reserved'[p] PROVE MemberSound(p, m)'
  <2>1. MemberSound(p, m) /\ m.added \in Nat
    BY <1>1, <1>4 DEF Inv, BooksInv, BooksTyped, Members, Tick
  <2> QED BY <1>1, <2>1 DEF MemberSound, Tick
<1>5. CountedAlive'
  BY <1>3 DEF Inv, BooksInv, CountedAlive, Tick
<1>6. UnitsStand'
  <2>1. \A q \in Requests : \A i \in 1..Len(score[q]) : score[q][i] \in Nat
    BY <1>1, ElementOfSeq DEF BooksTyped
  <2>2. SUFFICES ASSUME NEW q \in Requests, NEW i \in 1..Len(score[q]), NEW k \in 1..Items[q][i].quantity,
                        UnitAdded(q, i, k), pc[q] # "failed"
                 PROVE  \/ \E m \in reserved[Items[q][i].product] : m.id = <<q, i, k>> /\ m.score = score[q][i]
                        \/ score[q][i] <= clock'
    BY DEF UnitsStand, UnitAdded, Tick
  <2>3. \/ \E m \in reserved[Items[q][i].product] : m.id = <<q, i, k>> /\ m.score = score[q][i]
        \/ score[q][i] <= clock
    BY <2>2 DEF Inv, UnitsStand
  <2>4. score[q][i] \in Nat
    BY <2>1
  <2>5. score[q][i] <= clock => score[q][i] <= clock'
    BY <1>1, <2>4
  <2> QED BY <2>3, <2>5
<1> QED BY <1>2, <1>3, <1>4, <1>5, <1>6 DEF Inv, BooksInv

\* A purge takes only members that have expired.
LEMMA PurgeInv == ASSUME Inv, NEW r \in Requests, Purge(r) PROVE Inv'
<1>1. BooksTyped /\ AtItem(r) /\ pc[r] = "purge"
  BY DEF Inv, BooksInv, Purge
<1>2. pc' = [pc EXCEPT ![r] = "count"] /\ UNCHANGED <<clock, asOf, score, unit>>
  BY DEF Purge, GoTo
<1>3. Product(r) \in Products
  BY <1>1, AtItemOK DEF Waiting
<1>4. /\ \A p \in Products : reserved'[p] \subseteq reserved[p]
      /\ \A m \in reserved'[Product(r)] : m.score > asOf[r]
      /\ \A p \in Products : \A m \in reserved[p] \ reserved'[p] : ~(m.score > asOf[r])
      /\ reserved' \in [Products -> SUBSET Members]
  BY <1>1, <1>3 DEF BooksTyped, Purge
<1>5. BooksTyped'
  BY <1>1, <1>2, <1>4 DEF BooksTyped, InFlight
<1>6. \A q \in Requests : pc'[q] = IF q = r THEN "count" ELSE pc[q]
  BY <1>1, <1>2 DEF BooksTyped
<1>7. ASSUME NEW q \in Requests PROVE AtItem(q)' /\ Product(q)' = Product(q)
  <2>1. CASE q = r
    BY <1>1, <1>2, <1>6, <2>1 DEF AtItem, Product, Item
  <2>2. CASE q # r
    BY <1>1, <1>2, <1>6, <2>2, OtherAtItem DEF BooksTyped
  <2> QED BY <2>1, <2>2
<1>8. ASSUME NEW p \in Products, NEW m \in reserved'[p] PROVE MemberSound(p, m)'
  <2>1. MemberSound(p, m)
    BY <1>4, <1>8 DEF Inv, BooksInv
  <2> QED BY <1>2, <1>6, <2>1 DEF MemberSound
<1>9. CountedAlive'
  <2>1. SUFFICES ASSUME NEW q \in Requests, pc'[q] \in {"count", "decide"}, NEW m \in reserved'[Product(q)]
                 PROVE  m.score > asOf[q] \/ m.added >= asOf[q]
    BY <1>2, <1>7 DEF CountedAlive
  <2>2. CASE q = r
    BY <1>4, <2>1, <2>2
  <2>3. CASE q # r
    <3>1. pc[q] \in {"count", "decide"}
      BY <1>6, <2>1, <2>3
    <3>2. Product(q) \in Products
      BY <1>1, <3>1, AtItemOK DEF Waiting, Inv, BooksInv
    <3> QED BY <1>4, <2>1, <3>1, <3>2 DEF Inv, BooksInv, CountedAlive
  <2> QED BY <2>2, <2>3
<1>10. UnitsStand'
  <2>1. SUFFICES ASSUME NEW q \in Requests, NEW i \in 1..Len(score[q]), NEW k \in 1..Items[q][i].quantity,
                        UnitAdded(q, i, k)', pc'[q] # "failed"
                 PROVE  \/ \E m \in reserved'[Items[q][i].product] : m.id = <<q, i, k>> /\ m.score = score[q][i]
                        \/ score[q][i] <= clock
    BY <1>2 DEF UnitsStand
  <2>2. pc[q] # "failed" /\ UnitAdded(q, i, k)
    BY <1>1, <1>2, <1>6, <2>1 DEF UnitAdded
  <2>3. \/ \E m \in reserved[Items[q][i].product] : m.id = <<q, i, k>> /\ m.score = score[q][i]
        \/ score[q][i] <= clock
    BY <2>1, <2>2 DEF Inv, UnitsStand
  <2>4. Items[q][i].product \in Products
    <3>1. Len(score[q]) \in Nat /\ Len(Items[q]) \in Nat
      BY <1>1, LenItems DEF BooksTyped
    <3>2. Len(score[q]) <= Len(Items[q])
      BY DEF Inv, BooksInv, AtItem
    <3>3. i \in 1..Len(Items[q])
      BY <3>1, <3>2
    <3> QED BY <3>3, LineOK
  <2>5. asOf[r] <= clock /\ asOf[r] \in Nat /\ clock \in Nat
    BY <1>1 DEF AtItem, BooksTyped
  <2>6. score[q][i] \in Nat
    BY <1>1, ElementOfSeq DEF BooksTyped
  <2>7. ~(score[q][i] <= clock) => score[q][i] > asOf[r]
    BY <2>5, <2>6
  <2> QED BY <1>4, <2>3, <2>4, <2>7
<1> QED BY <1>5, <1>7, <1>8, <1>9, <1>10 DEF Inv, BooksInv

LEMMA AcceptInv == ASSUME Inv, NEW r \in Requests, Accept(r) PROVE Inv'
<1>1. BooksTyped /\ AtItem(r) /\ pc[r] = "decide"
  BY DEF Inv, BooksInv, Accept
<1>2. /\ UNCHANGED <<clock, reserved, asOf>>
      /\ score' = [score EXCEPT ![r] = Append(score[r], clock + TTL)]
      /\ unit' = [unit EXCEPT ![r] = 1]
      /\ pc' = [pc EXCEPT ![r] = "add"]
  BY DEF Accept, GoTo
<1>3. /\ clock + TTL \in Nat /\ score[r] \in Seq(Nat) /\ Len(score[r]) \in Nat
      /\ Len(score[r]) < Len(Items[r]) /\ Len(Items[r]) \in Nat
  BY <1>1, LenItems, ReservationAssumption DEF BooksTyped, AtItem
<1>4. /\ score'[r] \in Seq(Nat) /\ Len(score'[r]) = Len(score[r]) + 1
      /\ \A i \in 1..Len(score[r]) : score'[r][i] = score[r][i]
  BY <1>1, <1>2, <1>3 DEF BooksTyped
<1>5. BooksTyped'
  BY <1>1, <1>2, <1>4 DEF BooksTyped, InFlight
<1>6. \A q \in Requests \ {r} : score'[q] = score[q] /\ unit'[q] = unit[q] /\ pc'[q] = pc[q]
  BY <1>1, <1>2 DEF BooksTyped
<1>7. pc'[r] = "add" /\ unit'[r] = 1
  BY <1>1, <1>2 DEF BooksTyped
<1>8. AtItem(r)'
  <2>1. Item(r)' = Item(r)
    BY <1>1, <1>3, <1>4, <1>7 DEF Item
  <2>2. Quantity(r)' = Quantity(r) /\ Quantity(r) \in Nat \ {0}
    BY <1>1, <2>1, AtItemOK DEF Quantity, Waiting
  <2>3. 1 \in 1..Quantity(r)
    BY <2>2
  <2>4. asOf[r] <= clock
    BY <1>1 DEF AtItem
  <2> QED BY <1>2, <1>3, <1>4, <1>7, <2>2, <2>3, <2>4 DEF AtItem
<1>9. ASSUME NEW q \in Requests, q # r PROVE AtItem(q)' /\ Product(q)' = Product(q)
  BY <1>1, <1>2, <1>6, <1>9, OtherAtItem DEF BooksTyped
<1>10. ASSUME NEW p \in Products, NEW m \in reserved'[p] PROVE MemberSound(p, m)'
  <2>1. MemberSound(p, m)
    BY <1>2, <1>10 DEF Inv, BooksInv
  <2>2. PICK q \in Requests : \E i \in 1..Len(score[q]) : \E k \in 1..Items[q][i].quantity :
          /\ m.id = <<q, i, k>>
          /\ m.score = score[q][i]
          /\ Items[q][i].product = p
          /\ m.added <= clock
          /\ i = Len(score[q]) /\ pc[q] = "add" => k < unit[q]
    BY <2>1 DEF MemberSound
  <2>w. PICK i \in 1..Len(score[q]) : \E k \in 1..Items[q][i].quantity :
          /\ m.id = <<q, i, k>>
          /\ m.score = score[q][i]
          /\ Items[q][i].product = p
          /\ m.added <= clock
          /\ i = Len(score[q]) /\ pc[q] = "add" => k < unit[q]
    BY <2>2
  <2>3. PICK k \in 1..Items[q][i].quantity :
          /\ m.id = <<q, i, k>>
          /\ m.score = score[q][i]
          /\ Items[q][i].product = p
          /\ m.added <= clock
          /\ i = Len(score[q]) /\ pc[q] = "add" => k < unit[q]
    BY <2>w
  <2>4. /\ i \in 1..Len(score'[q])
        /\ score'[q][i] = score[q][i]
        /\ i = Len(score'[q]) /\ pc'[q] = "add" => k < unit'[q]
    <3>1. CASE q = r
      BY <1>3, <1>4, <2>3, <3>1
    <3>2. CASE q # r
      BY <1>6, <2>3, <3>2
    <3> QED BY <3>1, <3>2
  <2>5. m.score <= m.added + TTL
    BY <2>1 DEF MemberSound
  <2> QED BY <1>2, <2>3, <2>4, <2>5 DEF MemberSound
<1>11. CountedAlive'
  BY <1>2, <1>7, <1>6, <1>9 DEF Inv, BooksInv, CountedAlive
<1>12. UnitsStand'
  <2>1. SUFFICES ASSUME NEW q \in Requests, NEW i \in 1..Len(score'[q]), NEW k \in 1..Items[q][i].quantity,
                        UnitAdded(q, i, k)', pc'[q] # "failed"
                 PROVE  \/ \E m \in reserved[Items[q][i].product] : m.id = <<q, i, k>> /\ m.score = score'[q][i]
                        \/ score'[q][i] <= clock
    BY <1>2 DEF UnitsStand
  <2>2. CASE q = r
    <3>1. i # Len(score'[r])
      <4>1. ~(k < 1)
        BY <2>1
      <4> QED BY <1>3, <1>4, <1>7, <2>1, <2>2, <4>1 DEF UnitAdded
    <3>2. i \in 1..Len(score[r])
      BY <1>3, <1>4, <2>1, <2>2, <3>1
    <3>3. UnitAdded(r, i, k)
      BY <1>1, <1>3, <3>2 DEF UnitAdded
    <3>4. \/ \E m \in reserved[Items[r][i].product] : m.id = <<r, i, k>> /\ m.score = score[r][i]
          \/ score[r][i] <= clock
      BY <1>1, <2>1, <2>2, <3>2, <3>3 DEF Inv, UnitsStand
    <3> QED BY <1>4, <2>2, <3>2, <3>4
  <2>3. CASE q # r
    BY <1>6, <2>1, <2>3 DEF Inv, UnitsStand, UnitAdded
  <2> QED BY <2>2, <2>3
<1> QED BY <1>5, <1>8, <1>9, <1>10, <1>11, <1>12 DEF Inv, BooksInv

\* The unit added is the next one of r's item; the rest of its set stays.
LEMMA AddUnitInv == ASSUME Inv, NEW r \in Requests, AddUnit(r) PROVE Inv'
<1>1. BooksTyped /\ AtItem(r) /\ pc[r] = "add"
  BY DEF Inv, BooksInv, AddUnit
<1> DEFINE I == Len(score[r])
           P == Product(r)
           id == <<r, I, unit[r]>>
           new == [id |-> id, score |-> score[r][I], added |-> clock]
<1>2. /\ I \in Nat \ {0} /\ I <= Len(Items[r]) /\ Len(Items[r]) \in Nat
      /\ Item(r) = I /\ P = Items[r][I].product /\ Quantity(r) = Items[r][I].quantity
  BY <1>1, LenItems DEF BooksTyped, AtItem, Item, Product, Quantity
<1>3. P \in Products /\ Quantity(r) \in Nat \ {0}
  BY <1>1, AtItemOK
<1>4. unit[r] \in Nat \ {0} /\ unit[r] \in 1..Quantity(r) /\ score[r][I] \in Nat /\ clock \in Nat
  <2>1. score[r] \in Seq(Nat) /\ I \in 1..Len(score[r])
    BY <1>1, <1>2 DEF BooksTyped
  <2> QED BY <1>1, <1>3, <2>1, ElementOfSeq DEF AtItem, BooksTyped
<1>5. /\ UNCHANGED <<clock, asOf, score>>
      /\ reserved' = [reserved EXCEPT ![P] = {m \in reserved[P] : m.id # id} \cup {new}]
  BY <1>2 DEF AddUnit, ZAdd
<1>6. \/ /\ unit[r] < Quantity(r)
         /\ unit' = [unit EXCEPT ![r] = unit[r] + 1]
         /\ pc' = pc
      \/ /\ unit[r] = Quantity(r)
         /\ unit' = unit
         /\ \/ GoTo(r, "create")
            \/ I < Len(Items[r]) /\ GoTo(r, "stock")
  BY <1>2 DEF AddUnit, NextUnit
<1>7. new \in Members
  BY <1>2, <1>4 DEF Members
<1>8. /\ reserved' \in [Products -> SUBSET Members]
      /\ new \in reserved'[P]
      /\ \A p \in Products : reserved'[p] \subseteq reserved[p] \cup {new}
      /\ \A p \in Products : p # P => reserved'[p] = reserved[p]
      /\ \A p \in Products : \A m \in reserved[p] : m.id # id => m \in reserved'[p]
  BY <1>1, <1>3, <1>5, <1>7 DEF BooksTyped
<1>9. BooksTyped'
  <2>1. unit' \in [Requests -> Nat]
    <3>1. unit \in [Requests -> Nat] /\ unit[r] + 1 \in Nat
      BY <1>1, <1>4 DEF BooksTyped
    <3> QED BY <1>6, <3>1
  <2>2. pc' \in [Requests -> {"idle"} \cup InFlight \cup Ended]
    BY <1>1, <1>6 DEF BooksTyped, GoTo, InFlight
  <2> QED BY <1>1, <1>5, <1>8, <2>1, <2>2 DEF BooksTyped
<1>10. \A q \in Requests \ {r} : pc'[q] = pc[q] /\ unit'[q] = unit[q]
  BY <1>1, <1>6 DEF BooksTyped, GoTo
<1>11. \/ pc'[r] = "add" /\ unit[r] < Quantity(r) /\ unit'[r] = unit[r] + 1
       \/ pc'[r] = "create" /\ unit[r] = Quantity(r)
       \/ pc'[r] = "stock" /\ unit[r] = Quantity(r) /\ I < Len(Items[r])
  BY <1>1, <1>6 DEF BooksTyped, GoTo
<1>12. AtItem(r)'
  <2>1. asOf[r] <= clock
    BY <1>1 DEF AtItem
  <2>2. CASE pc'[r] = "add" /\ unit[r] < Quantity(r) /\ unit'[r] = unit[r] + 1
    <3>1. Quantity(r)' = Quantity(r)
      BY <1>1, <1>5, <2>2 DEF Quantity, Item
    <3>2. unit[r] + 1 \in 1..Quantity(r)
      BY <1>3, <1>4, <2>2
    <3>3. score[r][I] <= clock + TTL
      BY <1>1 DEF AtItem
    <3> QED BY <1>2, <1>5, <2>1, <2>2, <3>1, <3>2, <3>3 DEF AtItem
  <2>3. CASE pc'[r] \in {"create", "stock"}
    BY <1>2, <1>5, <1>11, <2>1, <2>3 DEF AtItem
  <2> QED BY <1>11, <2>2, <2>3
<1>13. ASSUME NEW q \in Requests, q # r PROVE AtItem(q)' /\ Product(q)' = Product(q)
  BY <1>1, <1>4, <1>5, <1>10, <1>13, OtherAtItem
<1>14. ASSUME NEW p \in Products, NEW m \in reserved'[p] PROVE MemberSound(p, m)'
  <2>1. CASE m = new /\ p = P
    <3>1. /\ m.id = <<r, I, unit[r]>> /\ m.score = score[r][I] /\ m.added <= clock
          /\ I \in 1..Len(score[r]) /\ unit[r] \in 1..Items[r][I].quantity
          /\ Items[r][I].product = p
      BY <1>2, <1>4, <2>1
    <3>2. pc'[r] = "add" => unit[r] < unit'[r]
      BY <1>4, <1>11
    <3>3. m.score <= m.added + TTL
      BY <1>1, <2>1 DEF AtItem
    <3> QED BY <1>5, <3>1, <3>2, <3>3 DEF MemberSound
  <2>2. CASE m \in reserved[p]
    <3>1. MemberSound(p, m)
      BY <2>2 DEF Inv, BooksInv
    <3>2. PICK q \in Requests : \E i \in 1..Len(score[q]) : \E k \in 1..Items[q][i].quantity :
            /\ m.id = <<q, i, k>>
            /\ m.score = score[q][i]
            /\ Items[q][i].product = p
            /\ m.added <= clock
            /\ i = Len(score[q]) /\ pc[q] = "add" => k < unit[q]
      BY <3>1 DEF MemberSound
    <3>w. PICK i \in 1..Len(score[q]) : \E k \in 1..Items[q][i].quantity :
            /\ m.id = <<q, i, k>>
            /\ m.score = score[q][i]
            /\ Items[q][i].product = p
            /\ m.added <= clock
            /\ i = Len(score[q]) /\ pc[q] = "add" => k < unit[q]
      BY <3>2
    <3>3. PICK k \in 1..Items[q][i].quantity :
            /\ m.id = <<q, i, k>>
            /\ m.score = score[q][i]
            /\ Items[q][i].product = p
            /\ m.added <= clock
            /\ i = Len(score[q]) /\ pc[q] = "add" => k < unit[q]
      BY <3>w
    <3>4. i = Len(score[q]) /\ pc'[q] = "add" => k < unit'[q]
      <4>1. CASE q = r
        <5>1. k \in Int
          BY <3>3
        <5> QED BY <1>1, <1>4, <1>11, <3>3, <4>1, <5>1
      <4>2. CASE q # r
        BY <1>10, <3>3, <4>2
      <4> QED BY <4>1, <4>2
    <3>5. m.score <= m.added + TTL
      BY <3>1 DEF MemberSound
    <3> QED BY <1>5, <3>3, <3>4, <3>5 DEF MemberSound
  <2> QED BY <1>8, <1>14, <2>1, <2>2
<1>15. CountedAlive'
  <2>1. SUFFICES ASSUME NEW q \in Requests, pc'[q] \in {"count", "decide"}, NEW m \in reserved'[Product(q)']
                 PROVE  m.score > asOf'[q] \/ m.added >= asOf'[q]
    BY DEF CountedAlive
  <2>2. q # r
    BY <1>11, <2>1
  <2>3. pc[q] \in {"count", "decide"} /\ m \in reserved'[Product(q)] /\ asOf'[q] = asOf[q]
    BY <1>5, <1>10, <1>13, <2>1, <2>2
  <2>4. Product(q) \in Products
    BY <1>1, <2>3, AtItemOK DEF Waiting, Inv, BooksInv
  <2>5. CASE m \in reserved[Product(q)]
    BY <2>3, <2>5 DEF Inv, BooksInv, CountedAlive
  <2>6. CASE m = new
    <3>1. m.added = clock
      BY <2>6
    <3>2. asOf[q] <= clock /\ asOf[q] \in Nat
      BY <1>1 DEF Inv, BooksInv, AtItem, BooksTyped
    <3> QED BY <1>4, <2>3, <3>1, <3>2
  <2> QED BY <1>8, <2>3, <2>4, <2>5, <2>6
<1>16. UnitsStand'
  <2>1. SUFFICES ASSUME NEW q \in Requests, NEW i \in 1..Len(score[q]), NEW k \in 1..Items[q][i].quantity,
                        UnitAdded(q, i, k)', pc'[q] # "failed"
                 PROVE  \/ \E m \in reserved'[Items[q][i].product] : m.id = <<q, i, k>> /\ m.score = score[q][i]
                        \/ score[q][i] <= clock
    BY <1>5 DEF UnitsStand
  <2>2. i \in 1..Len(Items[q]) /\ Items[q][i].product \in Products
    <3>1. Len(score[q]) \in Nat /\ Len(Items[q]) \in Nat
      BY <1>1, LenItems DEF BooksTyped
    <3>2. Len(score[q]) <= Len(Items[q])
      BY DEF Inv, BooksInv, AtItem
    <3>3. i \in 1..Len(Items[q])
      BY <3>1, <3>2
    <3> QED BY <3>3, LineOK
  <2>3. CASE q = r /\ i = I /\ k = unit[r]
    BY <1>2, <1>8, <2>3
  <2>4. CASE ~(q = r /\ i = I /\ k = unit[r])
    <3>1. UnitAdded(q, i, k)
      <4>1. CASE q = r /\ i = I
        <5>1. k \in Int /\ k <= Quantity(r) /\ k # unit[r]
          BY <1>2, <1>3, <2>4, <4>1
        <5>2. pc'[r] = "add" => k < unit'[r]
          BY <1>5, <2>1, <4>1 DEF UnitAdded
        <5>3. k < unit[r]
          BY <1>3, <1>4, <1>11, <5>1, <5>2
        <5> QED BY <4>1, <5>3 DEF UnitAdded
      <4>2. CASE q = r /\ i # I
        BY <1>2, <4>2 DEF UnitAdded
      <4>3. CASE q # r
        BY <1>5, <1>10, <2>1, <4>3 DEF UnitAdded
      <4> QED BY <4>1, <4>2, <4>3
    <3>2. pc[q] # "failed"
      BY <1>1, <1>10, <2>1
    <3>3. \/ \E m \in reserved[Items[q][i].product] : m.id = <<q, i, k>> /\ m.score = score[q][i]
          \/ score[q][i] <= clock
      BY <3>1, <3>2 DEF Inv, UnitsStand
    <3>4. <<q, i, k>> # id
      BY <2>4
    <3> QED BY <1>8, <2>2, <3>3, <3>4
  <2> QED BY <2>3, <2>4
<1> QED BY <1>9, <1>12, <1>13, <1>14, <1>15, <1>16 DEF Inv, BooksInv

LEMMA NextInv == Inv /\ [Next]_vars => Inv'
<1>1. SUFFICES ASSUME Inv, [Next]_vars PROVE Inv'
  OBVIOUS
<1>2. CASE UNCHANGED vars
  <2>1. UNCHANGED <<clock, reserved, asOf, score, unit, pc>>
    BY <1>2 DEF vars
  <2>2. \A r \in Requests : Item(r)' = Item(r) /\ Product(r)' = Product(r) /\ Quantity(r)' = Quantity(r)
    BY <2>1 DEF Item, Product, Quantity
  <2>3. BooksTyped' /\ \A r \in Requests : AtItem(r)'
    BY <1>1, <2>1, <2>2 DEF Inv, BooksInv, BooksTyped, AtItem
  <2>4. \A p \in Products : \A m \in reserved'[p] : MemberSound(p, m)'
    BY <1>1, <2>1 DEF Inv, BooksInv, MemberSound
  <2>5. CountedAlive'
    BY <1>1, <2>1, <2>2 DEF Inv, BooksInv, CountedAlive
  <2>6. UnitsStand'
    BY <1>1, <2>1 DEF Inv, UnitsStand, UnitAdded
  <2> QED BY <2>3, <2>4, <2>5, <2>6 DEF Inv, BooksInv
<1>3. ASSUME NEW r \in Requests, Step(r) PROVE Inv'
  BY <1>1, <1>3, StartInv, MoveInv, PurgeInv, AcceptInv, LeaveInv, AddUnitInv DEF Step
<1> QED BY <1>1, <1>2, <1>3, TickInv DEF Next

\* The invariant behind the two: every member of a set is some request's unit.
THEOREM BooksSound == Spec => []BooksInv
<1>1. Inv => BooksInv
  BY DEF Inv
<1> QED BY <1>1, InitInv, NextInv, PTL DEF Spec

LEMMA InvImpliesRoom == Inv => RoomComesBack
<1>1. SUFFICES ASSUME Inv, NEW r \in Requests, pc[r] \in {"count", "decide"},
                      NEW m \in reserved[Product(r)]
               PROVE  asOf[r] < m.added + TTL
  BY DEF RoomComesBack
<1>2. BooksTyped /\ AtItem(r) /\ CountedAlive
  BY <1>1 DEF Inv, BooksInv
<1>3. Product(r) \in Products
  BY <1>1, <1>2, AtItemOK DEF Waiting
<1>4. MemberSound(Product(r), m) /\ m \in Members
  BY <1>1, <1>2, <1>3 DEF Inv, BooksInv, BooksTyped
<1>5. m.score <= m.added + TTL /\ m.score \in Nat /\ m.added \in Nat /\ asOf[r] \in Nat
  BY <1>2, <1>4 DEF MemberSound, Members, BooksTyped
<1>6. m.score > asOf[r] \/ m.added >= asOf[r]
  BY <1>1, <1>2 DEF CountedAlive
<1> QED BY <1>5, <1>6, ReservationAssumption

\* What a request counts was added less than TTL before it came in: the room of
\* every reservation, whatever became of its order, comes back with its expiry.
THEOREM ExpiredNotCounted == Spec => []RoomComesBack
BY InitInv, NextInv, InvImpliesRoom, PTL DEF Spec

\* However the requests overlap, a unit that was added stands until it expires.
THEOREM ReservationsStand == Spec => []UnitsStand
<1>1. Inv => UnitsStand
  BY DEF Inv
<1> QED BY <1>1, InitInv, NextInv, PTL DEF Spec

-----------------------------------------------------------------------------
\* The stock the saga takes from and gives back to, and the room read from it.
ShelfInv == TypeOK /\ \A p \in Products : IsFiniteSet(reserved[p])

LEMMA OrderedOK == ASSUME NEW r \in Requests, NEW p \in Products PROVE Ordered(r, p) \in Nat
<1>1. LinesOf(r, p) \subseteq 1..Len(Items[r])
  BY ReservationAssumption DEF LinesOf
<1>2. CASE LinesOf(r, p) # {}
  <2>1. (CHOOSE i \in LinesOf(r, p) : TRUE) \in LinesOf(r, p)
    BY <1>2
  <2>2. Items[r][CHOOSE i \in LinesOf(r, p) : TRUE].quantity \in Nat
    BY <1>1, <2>1, LineOK
  <2> QED BY <1>2, <2>2 DEF Ordered
<1> QED BY <1>2 DEF Ordered

\* Every step keeps the sets finite: a request adds one member at a time.
LEMMA StillFinite ==
  ASSUME Inv, ShelfInv, NEW r \in Requests, Step(r), NEW p \in Products
  PROVE  IsFiniteSet(reserved'[p])
<1>1. IsFiniteSet(reserved[p]) /\ reserved \in [Products -> SUBSET Members]
  BY DEF ShelfInv, TypeOK, BooksTyped
<1>2. CASE Purge(r)
  <2>1. reserved'[p] \subseteq reserved[p]
    BY <1>1, <1>2 DEF Purge
  <2> QED BY <1>1, <2>1, FS_Subset
<1>3. CASE AddUnit(r)
  <2> DEFINE id == <<r, Item(r), unit[r]>>
             new == [id |-> id, score |-> score[r][Item(r)], added |-> clock]
             kept == {m \in reserved[p] : m.id # id}
  <2>1. reserved'[p] \in {reserved[p], kept \cup {new}}
    BY <1>1, <1>3 DEF AddUnit, ZAdd
  <2>2. IsFiniteSet(kept)
    BY <1>1, FS_Subset
  <2>3. IsFiniteSet(kept \cup {new})
    BY <2>2, FS_AddElement
  <2> QED BY <1>1, <2>1, <2>3
<1> QED BY <1>1, <1>2, <1>3
    DEF Step, Start, ReadStock, Count, Accept, Refuse, CreateOrder, Fail, Leave, Take, Restore, Short

LEMMA StillTyped ==
  ASSUME Inv, ShelfInv, NEW r \in Requests, Step(r)
  PROVE  /\ stock' \in [Products -> Nat] /\ room' \in [Requests -> Int]
         /\ peak' \in [Products -> Nat] /\ restores' \in [Requests -> Nat]
<1>1. /\ BooksTyped /\ AtItem(r) /\ stock \in [Products -> Nat] /\ room \in [Requests -> Int]
      /\ peak \in [Products -> Nat] /\ restores \in [Requests -> Nat]
  BY DEF Inv, BooksInv, ShelfInv, TypeOK
<1>2. CASE ReadStock(r)
  <2>1. Product(r) \in Products
    BY <1>1, <1>2, AtItemOK DEF Waiting, ReadStock
  <2>2. Headroom(stock[Product(r)]) \in Int
    BY <1>1, <2>1 DEF Headroom
  <2> QED BY <1>1, <1>2, <2>2 DEF ReadStock, shelf
<1>3. CASE Count(r)
  <2>1. Product(r) \in Products
    BY <1>1, <1>3, AtItemOK DEF Waiting, Count
  <2>2. Cardinality(reserved[Product(r)]) \in Nat
    BY <2>1, FS_CardinalityType DEF ShelfInv
  <2>3. room[r] - Cardinality(reserved[Product(r)]) \in Int
    BY <1>1, <2>2
  <2> QED BY <1>1, <1>3, <2>3 DEF Count, shelf
<1>4. CASE Take(r)
  <2>1. \A p \in Products : stock[p] >= Ordered(r, p)
    BY <1>4 DEF Take
  <2>2. \A p \in Products : stock[p] - Ordered(r, p) \in Nat
    BY <1>1, <2>1, OrderedOK
  <2> QED BY <1>1, <1>4, <2>2 DEF Take
<1>5. CASE Restore(r)
  <2>1. \A p \in Products : stock[p] + Ordered(r, p) \in Nat
    BY <1>1, OrderedOK
  <2>2. stock' \in [Products -> Nat]
    BY <1>5, <2>1 DEF Restore
  <2>3. peak' \in [Products -> Nat]
    BY <1>1, <1>5, <2>2 DEF Restore
  <2> QED BY <1>1, <1>5, <2>2, <2>3 DEF Restore
<1> QED BY <1>1, <1>2, <1>3, <1>4, <1>5
    DEF Step, Start, Purge, Accept, Refuse, AddUnit, CreateOrder, Fail, Leave, Short, shelf

LEMMA InitShelfInv == Init => ShelfInv
BY InitInv, ReservationAssumption, FS_EmptySet DEF Init, Inv, BooksInv, ShelfInv, TypeOK

LEMMA NextShelfInv == Inv /\ Inv' /\ ShelfInv /\ [Next]_vars => ShelfInv'
<1> SUFFICES ASSUME Inv, Inv', ShelfInv, [Next]_vars PROVE ShelfInv'
  OBVIOUS
<1>2. BooksTyped'
  BY DEF Inv, BooksInv
<1>3. CASE UNCHANGED vars \/ Tick
  BY <1>2, <1>3 DEF vars, Tick, shelf, ShelfInv, TypeOK
<1>4. ASSUME NEW r \in Requests, Step(r) PROVE ShelfInv'
  BY <1>2, <1>4, StillFinite, StillTyped DEF ShelfInv, TypeOK
<1> QED BY <1>3, <1>4 DEF Next

\* However the orders overlap, what they take never drives the stock below
\* nothing, and the room a request works with is a number, if a negative one.
THEOREM StockNeverNegative == Spec => []TypeOK
<1>1. ShelfInv => TypeOK
  BY DEF ShelfInv
<1> QED BY <1>1, InitInv, NextInv, InitShelfInv, NextShelfInv, PTL DEF Spec

-----------------------------------------------------------------------------
\* What a step of r leaves to the others, and where it may take r.
LEMMA OthersStay ==
  ASSUME TypeOK, NEW r \in Requests, Step(r), NEW q \in Requests, q # r
  PROVE  /\ pc'[q] = pc[q] /\ room'[q] = room[q] /\ score'[q] = score[q] /\ unit'[q] = unit[q]
         /\ Item(q)' = Item(q) /\ Product(q)' = Product(q) /\ Quantity(q)' = Quantity(q)
<1>t. /\ pc \in [Requests -> {"idle"} \cup InFlight \cup Ended] /\ room \in [Requests -> Int]
      /\ score \in [Requests -> Seq(Nat)] /\ unit \in [Requests -> Nat]
  BY DEF TypeOK, BooksTyped
<1>1. pc'[q] = pc[q] /\ room'[q] = room[q] /\ score'[q] = score[q] /\ unit'[q] = unit[q]
  BY <1>t DEF Step, Start, ReadStock, Purge, Count, Accept, Refuse, AddUnit, NextUnit,
              CreateOrder, Fail, Leave, Take, Restore, Short, GoTo
<1>2. Item(q)' = Item(q)
  BY <1>1 DEF Item
<1> QED BY <1>1, <1>2 DEF Product, Quantity

LEMMA NextOf ==
  ASSUME TypeOK, NEW r \in Requests, Step(r)
  PROVE  \/ pc[r] = "idle" /\ pc'[r] = "stock"
         \/ pc[r] = "stock" /\ pc'[r] = "purge"
         \/ pc[r] = "purge" /\ pc'[r] = "count"
         \/ pc[r] = "count" /\ pc'[r] = "decide"
         \/ pc[r] = "decide" /\ pc'[r] = "add"
         \/ pc[r] = "add" /\ pc'[r] \in {"add", "create", "stock"}
         \/ pc[r] \in InFlight /\ pc'[r] \in {"refused", "failed", "ordered"}
         \/ pc[r] = "ordered" /\ pc'[r] \in {"taken", "short"}
         \/ pc[r] \in {"taken", "restored"} /\ pc'[r] = "restored"
<1>t. pc \in [Requests -> {"idle"} \cup InFlight \cup Ended]
  BY DEF TypeOK, BooksTyped
<1> QED
  BY <1>t DEF Step, Start, ReadStock, Purge, Count, Accept, Refuse, AddUnit, NextUnit,
              CreateOrder, Fail, Leave, Take, Restore, Short, GoTo, InFlight

\* The step that took r where it is.
LEMMA ArrivesBy ==
  ASSUME TypeOK, NEW r \in Requests, Step(r)
  PROVE  /\ pc'[r] = "purge" => pc[r] = "stock" /\ ReadStock(r)
         /\ pc'[r] = "count" => pc[r] = "purge" /\ Purge(r)
         /\ pc'[r] = "decide" => pc[r] = "count" /\ Count(r)
         /\ pc'[r] = "add" => (pc[r] = "decide" /\ Accept(r)) \/ (pc[r] = "add" /\ AddUnit(r))
         /\ pc'[r] = "taken" => pc[r] = "ordered" /\ Take(r)
<1>t. pc \in [Requests -> {"idle"} \cup InFlight \cup Ended]
  BY DEF TypeOK, BooksTyped
<1> USE <1>t DEF Step, Start, ReadStock, Purge, Count, Accept, Refuse, AddUnit, NextUnit,
              CreateOrder, Fail, Leave, Take, Restore, Short, GoTo
<1>1. ASSUME pc'[r] = "purge" PROVE pc[r] = "stock" /\ ReadStock(r)
  BY <1>1
<1>2. ASSUME pc'[r] = "count" PROVE pc[r] = "purge" /\ Purge(r)
  BY <1>2
<1>3. ASSUME pc'[r] = "decide" PROVE pc[r] = "count" /\ Count(r)
  BY <1>3
<1>4. ASSUME pc'[r] = "add" PROVE (pc[r] = "decide" /\ Accept(r)) \/ (pc[r] = "add" /\ AddUnit(r))
  BY <1>4
<1>5. ASSUME pc'[r] = "taken" PROVE pc[r] = "ordered" /\ Take(r)
  BY <1>5
<1> QED BY <1>1, <1>2, <1>3, <1>4, <1>5

\* Only Start lets a request in, and it sees how many are there.
LEMMA WorkingKept ==
  ASSUME TypeOK, IsFiniteSet(Working), Cardinality(Working) <= AtOnce,
         NEW r \in Requests, Step(r)
  PROVE  IsFiniteSet(Working') /\ Cardinality(Working') <= AtOnce
<1>1. CASE pc[r] = "idle"
  <2>1. Start(r)
    BY <1>1 DEF Step, Start, ReadStock, Purge, Count, Accept, Refuse, AddUnit, CreateOrder,
                Fail, InFlight, Take, Restore, Short
  <2>2. Working' = Working \cup {r}
    BY <2>1 DEF Start, GoTo, Working, TypeOK, BooksTyped, InFlight
  <2>3. Cardinality(Working) < AtOnce
    BY <2>1 DEF Start, Working
  <2>4. /\ IsFiniteSet(Working \cup {r})
        /\ Cardinality(Working \cup {r}) = IF r \in Working THEN Cardinality(Working) ELSE Cardinality(Working) + 1
    BY FS_AddElement
  <2>5. Cardinality(Working) \in Nat
    BY FS_CardinalityType
  <2> QED BY <2>2, <2>3, <2>4, <2>5, ReservationAssumption
<1>2. CASE pc[r] # "idle"
  <2>1. pc'[r] \in InFlight => pc[r] \in InFlight
    BY <1>2, NextOf DEF InFlight
  <2>2. Working' \in SUBSET Working
    BY <2>1, OthersStay DEF Working
  <2>3. IsFiniteSet(Working') /\ Cardinality(Working') <= Cardinality(Working)
    BY <2>2, FS_Subset
  <2>4. Cardinality(Working) \in Nat /\ Cardinality(Working') \in Nat
    BY <2>3, FS_CardinalityType
  <2> QED BY <2>3, <2>4, ReservationAssumption
<1> QED BY <1>1, <1>2

-----------------------------------------------------------------------------
\* The shelf and the taken orders keep the units between them.
UnitsTaken(S, p) == UNION {{r} \X (1 .. Ordered(r, p)) : r \in S}
TakenBy == {q \in Requests : pc[q] = "taken"}

LEMMA UpTo ==
  ASSUME NEW n \in Nat
  PROVE  IsFiniteSet(1 .. n) /\ Cardinality(1 .. n) = n
<1>1. IsFiniteSet(1 .. n) /\ Cardinality(1 .. n) = IF 1 > n THEN 0 ELSE n - 1 + 1
  BY FS_Interval
<1> QED BY <1>1

\* One order more stands for its units more.
LEMMA OneTakenMore ==
  ASSUME NEW S \in SUBSET Requests, NEW r \in Requests \ S, NEW p \in Products,
         IsFiniteSet(UnitsTaken(S, p))
  PROVE  /\ IsFiniteSet(UnitsTaken(S \cup {r}, p))
         /\ Cardinality(UnitsTaken(S \cup {r}, p)) = Cardinality(UnitsTaken(S, p)) + Ordered(r, p)
<1> DEFINE own == {r} \X (1 .. Ordered(r, p))
<1>1. Cardinality(UnitsTaken(S, p)) \in Nat
  BY FS_CardinalityType
<1>2. IsFiniteSet(own) /\ Cardinality(own) = Ordered(r, p) /\ Ordered(r, p) \in Nat
  <2>1. Ordered(r, p) \in Nat
    BY OrderedOK
  <2>2. IsFiniteSet({r}) /\ Cardinality({r}) = 1
    BY FS_Singleton
  <2>3. IsFiniteSet(1 .. Ordered(r, p)) /\ Cardinality(1 .. Ordered(r, p)) = Ordered(r, p)
    BY <2>1, UpTo
  <2>4. IsFiniteSet(own) /\ Cardinality(own) = Cardinality({r}) * Cardinality(1 .. Ordered(r, p))
    BY <2>2, <2>3, FS_Product
  <2> QED BY <2>1, <2>2, <2>3, <2>4
<1>3. UnitsTaken(S \cup {r}, p) = UnitsTaken(S, p) \cup own
  BY DEF UnitsTaken
<1>4. Cardinality(UnitsTaken(S, p) \cap own) = 0
  <2>1. UnitsTaken(S, p) \cap own = {}
    BY DEF UnitsTaken
  <2> QED BY <2>1, FS_EmptySet
<1>5. /\ IsFiniteSet(UnitsTaken(S, p) \cup own)
      /\ Cardinality(UnitsTaken(S, p) \cup own) =
           Cardinality(UnitsTaken(S, p)) + Cardinality(own) - Cardinality(UnitsTaken(S, p) \cap own)
  BY <1>2, FS_Union
<1>6. Cardinality(UnitsTaken(S, p) \cup own) = Cardinality(UnitsTaken(S, p)) + Ordered(r, p)
  <2> HIDE DEF own
  <2> QED BY <1>1, <1>2, <1>4, <1>5
<1> QED BY <1>3, <1>5, <1>6

SharedShelf(p) ==
  /\ IsFiniteSet(TakenUnits(p))
  /\ stock[p] + Cardinality(TakenUnits(p)) = InitStock[p]
  /\ peak[p] = InitStock[p]

\* Only a compensation fills the shelf, and it raises the peak with it.
LEMMA PeakStep ==
  ASSUME TypeOK, NEW p \in Products, stock[p] <= peak[p], NEW r \in Requests, Step(r)
  PROVE  stock'[p] <= peak'[p] /\ peak[p] <= peak'[p]
<1>1. stock[p] \in Nat /\ peak[p] \in Nat /\ Ordered(r, p) \in Nat
  BY OrderedOK DEF TypeOK
<1>2. CASE Restore(r)
  <2>1. /\ stock'[p] = stock[p] + Ordered(r, p)
        /\ peak'[p] = IF stock'[p] > peak[p] THEN stock'[p] ELSE peak[p]
    BY <1>2 DEF Restore
  <2> QED BY <1>1, <2>1
<1>3. CASE Take(r)
  <2>1. stock'[p] = stock[p] - Ordered(r, p) /\ peak' = peak
    BY <1>3 DEF Take
  <2> QED BY <1>1, <2>1
<1> QED BY <1>1, <1>2, <1>3
    DEF Step, Start, ReadStock, Purge, Count, Accept, Refuse, AddUnit, CreateOrder, Fail, Leave,
        Short, shelf

LEMMA SharedShelfStep ==
  ASSUME TypeOK, NEW p \in Products, SharedShelf(p), NEW r \in Requests, Step(r),
         pc[r] = "restored" => restores[r] > 0, ~RestoredTwice'
  PROVE  SharedShelf(p)'
<1> DEFINE S == TakenBy
           T == TakenBy'
           o == Ordered(r, p)
<1>1. /\ TakenUnits(p) = UnitsTaken(S, p)
      /\ TakenUnits(p)' = UnitsTaken(T, p)
  BY DEF TakenUnits, UnitsTaken, TakenBy
<1>2. /\ IsFiniteSet(UnitsTaken(S, p)) /\ stock[p] + Cardinality(UnitsTaken(S, p)) = InitStock[p]
      /\ peak[p] = InitStock[p]
  BY <1>1 DEF SharedShelf
<1>3. stock[p] \in Nat /\ o \in Nat /\ Cardinality(UnitsTaken(S, p)) \in Nat /\ InitStock[p] \in Nat
  BY <1>2, OrderedOK, FS_CardinalityType, ReservationAssumption DEF TypeOK
<1>4. \A q \in Requests \ {r} : q \in S <=> q \in T
  BY OthersStay DEF TakenBy
<1>5. CASE pc[r] # "taken" /\ pc'[r] = "taken"
  <2>1. Take(r)
    BY <1>5, ArrivesBy
  <2>2. stock'[p] = stock[p] - o /\ peak' = peak
    BY <2>1 DEF Take
  <2>3. T = S \cup {r} /\ r \notin S /\ S \in SUBSET Requests
    BY <1>4, <1>5 DEF TakenBy
  <2>4. IsFiniteSet(UnitsTaken(T, p)) /\ Cardinality(UnitsTaken(T, p)) = Cardinality(UnitsTaken(S, p)) + o
    BY <1>2, <2>3, OneTakenMore
  <2>5. stock'[p] + Cardinality(UnitsTaken(T, p)) = InitStock[p]
    <3> HIDE DEF S, T, o
    <3> QED BY <1>2, <1>3, <2>2, <2>4
  <2> QED BY <1>1, <1>2, <2>2, <2>4, <2>5 DEF SharedShelf
<1>6. CASE pc[r] = "taken"
  <2>1. Restore(r)
    BY <1>6 DEF Step, Start, ReadStock, Purge, Count, Accept, Refuse, AddUnit,
              CreateOrder, Fail, InFlight, Take, Restore, Short
  <2>2. stock'[p] = stock[p] + o /\ pc'[r] = "restored"
    BY <2>1 DEF Restore, GoTo, TypeOK, BooksTyped
  <2>3. S = T \cup {r} /\ r \notin T /\ T \in SUBSET Requests
    BY <1>4, <1>6, <2>2 DEF TakenBy
  <2>4. IsFiniteSet(UnitsTaken(T, p))
    <3>1. UnitsTaken(T, p) \in SUBSET UnitsTaken(S, p)
      BY <2>3 DEF UnitsTaken
    <3> QED BY <1>2, <3>1, FS_Subset
  <2>5. Cardinality(UnitsTaken(S, p)) = Cardinality(UnitsTaken(T, p)) + o
    <3>1. Cardinality(UnitsTaken(T \cup {r}, p)) = Cardinality(UnitsTaken(T, p)) + o
      BY <2>3, <2>4, OneTakenMore
    <3> QED BY <2>3, <3>1
  <2>6. Cardinality(UnitsTaken(T, p)) \in Nat
    BY <2>4, FS_CardinalityType
  <2>7. stock'[p] + Cardinality(UnitsTaken(T, p)) = InitStock[p]
    <3> HIDE DEF S, T, o
    <3> QED BY <1>2, <1>3, <2>2, <2>5, <2>6
  <2>8. peak'[p] = InitStock[p]
    <3>1. stock'[p] <= InitStock[p]
      <4> HIDE DEF S, T, o
      <4> QED BY <1>3, <2>2, <2>6, <2>7
    <3>2. peak'[p] = IF stock'[p] > peak[p] THEN stock'[p] ELSE peak[p]
      BY <2>1 DEF Restore
    <3>3. stock'[p] \in Nat
      <4> HIDE DEF S, T, o
      <4> QED BY <1>3, <2>2
    <3> QED BY <1>2, <1>3, <3>1, <3>2, <3>3
  <2> QED BY <1>1, <2>4, <2>7, <2>8 DEF SharedShelf
<1>7. CASE pc[r] # "taken" /\ pc'[r] # "taken"
  <2>1. ~Take(r) /\ ~Restore(r)
    <3>1. ~Take(r)
      BY <1>7 DEF Take, GoTo, TypeOK, BooksTyped
    <3>2. ASSUME Restore(r) PROVE FALSE
      <4>1. pc[r] = "restored" /\ restores[r] \in Nat /\ restores[r] > 0
        BY <1>7, <3>2 DEF Restore, TypeOK
      <4>2. restores'[r] = restores[r] + 1
        BY <3>2 DEF Restore, TypeOK
      <4>3. restores'[r] > 1
        BY <4>1, <4>2
      <4> QED BY <4>3 DEF RestoredTwice
    <3> QED BY <3>1, <3>2
  <2>2. stock' = stock /\ peak' = peak
    BY <2>1 DEF Step, Start, ReadStock, Purge, Count, Accept, Refuse, AddUnit,
                CreateOrder, Fail, Leave, Short, shelf
  <2>3. T = S
    BY <1>4, <1>7 DEF TakenBy
  <2> QED BY <1>1, <1>2, <2>2, <2>3 DEF SharedShelf
<1> QED BY <1>5, <1>6, <1>7

LEMMA ShelfKeptStep ==
  ASSUME TypeOK, NEW p \in Products, ShelfKept(p), NEW r \in Requests, Step(r),
         pc[r] = "restored" => restores[r] > 0
  PROVE  ShelfKept(p)'
<1>1. RestoredTwice => RestoredTwice'
  <2>1. \A q \in Requests : restores[q] \in Nat /\ restores'[q] \in {restores[q], restores[q] + 1}
    BY DEF TypeOK, Step, Start, ReadStock, Purge, Count, Accept, Refuse, AddUnit, CreateOrder,
           Fail, Leave, Take, Restore, Short, shelf
  <2> QED BY <2>1 DEF RestoredTwice
<1>2. stock'[p] <= peak'[p]
  BY PeakStep DEF ShelfKept
<1>3. ASSUME ~RestoredTwice' PROVE SharedShelf(p)'
  BY <1>1, <1>3, SharedShelfStep DEF ShelfKept, SharedShelf
<1> QED BY <1>2, <1>3 DEF ShelfKept, SharedShelf

-----------------------------------------------------------------------------
LEMMA HeadroomGrows ==
  ASSUME NEW a \in Nat, NEW b \in Nat, a <= b
  PROVE  Headroom(a) \in Nat /\ Headroom(a) <= Headroom(b)
BY DEF Headroom

LEMMA TimesGrows ==
  ASSUME NEW a \in Nat, NEW b \in Nat, NEW n \in Nat, a <= b
  PROVE  a * n \in Nat /\ a * n <= b * n
<1>1. b - a \in Nat /\ b = a + (b - a)
  OBVIOUS
<1>2. \A c \in Nat : c * n \in Nat
  OBVIOUS
<1>3. b * n = a * n + (b - a) * n
  OBVIOUS
<1> QED BY <1>1, <1>2, <1>3

\* The room of a request that has not counted yet is no more than the headroom
\* of the fullest shelf so far.
Roomy(r) == pc[r] \in {"purge", "count"} => room[r] <= Headroom(peak[Product(r)])

LEMMA RoomyStep ==
  ASSUME TypeOK, \A p \in Products : ShelfKept(p), \A q \in Requests : AtItem(q) /\ Roomy(q),
         NEW r \in Requests, Step(r), peak' \in [Products -> Nat], NEW q \in Requests
  PROVE  Roomy(q)'
<1>g. ASSUME NEW p \in Products
      PROVE  /\ peak[p] \in Nat /\ peak'[p] \in Nat
             /\ Headroom(peak[p]) \in Nat /\ Headroom(peak'[p]) \in Nat
             /\ Headroom(peak[p]) <= Headroom(peak'[p])
  <2>1. peak[p] \in Nat /\ peak'[p] \in Nat /\ peak[p] <= peak'[p]
    BY PeakStep DEF TypeOK, ShelfKept
  <2> QED BY <2>1, HeadroomGrows
<1>1. CASE q # r
  <2>1. pc'[q] = pc[q] /\ room'[q] = room[q] /\ Product(q)' = Product(q)
    BY <1>1, OthersStay
  <2>2. SUFFICES ASSUME pc[q] \in {"purge", "count"}
                 PROVE  room[q] <= Headroom(peak'[Product(q)])
    BY <2>1 DEF Roomy
  <2>3. Product(q) \in Products /\ room[q] \in Int /\ room[q] <= Headroom(peak[Product(q)])
    BY <2>2, AtItemOK DEF Waiting, TypeOK, Roomy
  <2> QED BY <1>g, <2>3
<1>2. CASE q = r /\ pc'[r] = "purge"
  <2>1. ReadStock(r) /\ pc[r] = "stock"
    BY <1>2, ArrivesBy
  <2> DEFINE p == Product(r)
  <2>2. p \in Products
    BY <2>1, AtItemOK DEF Waiting, TypeOK
  <2>3. Product(r)' = p
    BY <1>2, <2>1 DEF ReadStock, Product, Item
  <2>4. room'[r] = Headroom(stock[p])
    BY <2>1 DEF ReadStock, TypeOK
  <2>5. stock[p] \in Nat /\ peak[p] \in Nat /\ stock[p] <= peak[p]
    BY <2>2 DEF ShelfKept, TypeOK
  <2>6. peak' = peak
    BY <2>1 DEF ReadStock, shelf
  <2> QED BY <1>2, <2>3, <2>4, <2>5, <2>6, HeadroomGrows DEF Roomy
<1>3. CASE q = r /\ pc'[r] = "count"
  <2>1. Purge(r) /\ pc[r] = "purge"
    BY <1>3, ArrivesBy
  <2>2. Product(r)' = Product(r) /\ room' = room /\ peak' = peak
    BY <1>3, <2>1 DEF Purge, Product, Item, shelf
  <2> QED BY <1>3, <2>1, <2>2 DEF Roomy
<1> QED BY <1>1, <1>2, <1>3 DEF Roomy

-----------------------------------------------------------------------------
\* Units are booked by a request that counts, and by no other step.
LEMMA PromisedStays ==
  ASSUME Inv, ShelfInv, NEW r \in Requests, Step(r), NEW p \in Products,
         NEW x \in Promised(p)', Count(r) => Product(r) # p \/ room'[r] < Quantity(r)
  PROVE  x \in Promised(p)
<1>t. TypeOK
  BY DEF ShelfInv
<1>1. PICK q \in Requests : /\ pc'[q] \in {"decide", "add"} /\ Product(q)' = p
                            /\ \E k \in ToAdd(q)' : x = <<q, Item(q)', k>>
  BY DEF Promised
<1>2. PICK k \in ToAdd(q)' : x = <<q, Item(q)', k>>
  BY <1>1
<1>3. CASE q # r
  <2>1. ToAdd(q)' = ToAdd(q)
    BY <1>t, <1>3, OthersStay DEF ToAdd
  <2> QED BY <1>t, <1>1, <1>2, <1>3, <2>1, OthersStay DEF Promised
<1>4. CASE q = r /\ pc[r] = "decide"
  <2>1. Accept(r) /\ pc'[r] = "add"
    BY <1>t, <1>1, <1>4, ArrivesBy
  <2>2. Item(r)' = Item(r)
    BY <1>t, <1>4, <2>1 DEF Accept, Item, TypeOK, BooksTyped
  <2>3. Product(r)' = Product(r) /\ Quantity(r)' = Quantity(r)
    BY <2>2 DEF Product, Quantity
  <2>4. ToAdd(r)' = 1 .. Quantity(r)
    BY <1>t, <2>1, <2>3 DEF ToAdd, Accept, TypeOK, BooksTyped
  <2>5. ToAdd(r) = 1 .. Quantity(r)
    BY <1>4, <2>1 DEF ToAdd, Accept
  <2> QED BY <1>1, <1>2, <1>4, <2>2, <2>3, <2>4, <2>5 DEF Promised
<1>5. CASE q = r /\ pc[r] = "add"
  <2>1. AddUnit(r) /\ pc'[r] = "add"
    BY <1>t, <1>1, <1>5, ArrivesBy
  <2>2. unit'[r] = unit[r] + 1
    BY <1>t, <1>5, <2>1 DEF AddUnit, NextUnit, GoTo, TypeOK, BooksTyped
  <2>3. Item(r)' = Item(r)
    BY <1>5, <2>1 DEF AddUnit, Item
  <2>4. Product(r)' = Product(r) /\ Quantity(r)' = Quantity(r)
    BY <2>3 DEF Product, Quantity
  <2>5. unit[r] \in Nat /\ Quantity(r) \in Nat
    BY <1>5, AtItemOK DEF TypeOK, BooksTyped, Inv, BooksInv
  <2>6. k \in ToAdd(r)
    BY <1>2, <1>5, <2>1, <2>2, <2>4, <2>5 DEF ToAdd
  <2> QED BY <1>1, <1>2, <1>5, <2>3, <2>4, <2>6 DEF Promised
<1>6. CASE q = r /\ pc[r] = "count"
  <2>1. Count(r) /\ pc'[r] = "decide"
    BY <1>t, <1>1, <1>6, ArrivesBy
  <2>2. Item(r)' = Item(r)
    BY <1>6, <2>1 DEF Count, Item
  <2>3. Product(r)' = Product(r) /\ Quantity(r)' = Quantity(r)
    BY <2>2 DEF Product, Quantity
  <2>4. room'[r] < Quantity(r) /\ room'[r] \in Int /\ Quantity(r) \in Nat
    <3>1. Quantity(r) \in Nat
      BY <1>6, AtItemOK DEF TypeOK, Inv, BooksInv, Waiting
    <3>2. room' \in [Requests -> Int]
      BY StillTyped
    <3> QED BY <1>1, <1>6, <2>1, <2>3, <3>1, <3>2
  <2>5. ToAdd(r)' = {}
    BY <2>1, <2>3, <2>4 DEF ToAdd
  <2> QED BY <1>2, <1>6, <2>5
<1>7. pc[r] \in {"decide", "add", "count"} \/ q # r
  BY <1>t, <1>1, ArrivesBy
<1> QED BY <1>3, <1>4, <1>5, <1>6, <1>7

\* A set changes by what a request has promised to add, or shrinks.
LEMMA MembersStay ==
  ASSUME Inv, TypeOK, NEW r \in Requests, Step(r), NEW p \in Products, NEW m \in reserved'[p],
         \A a, b \in reserved[p] : a.id = b.id => a = b
  PROVE  /\ m.id \in Booked(p)
         /\ \A n \in reserved'[p] : m.id = n.id => m = n
<1>t. reserved \in [Products -> SUBSET Members] /\ BooksTyped /\ AtItem(r)
  BY DEF TypeOK, BooksTyped, Inv, BooksInv
<1>1. CASE AddUnit(r) /\ p = Product(r)
  <2> DEFINE id == <<r, Item(r), unit[r]>>
             new == [id |-> id, score |-> score[r][Item(r)], added |-> clock]
  <2>1. reserved'[p] = {n \in reserved[p] : n.id # id} \cup {new}
    BY <1>t, <1>1 DEF AddUnit, ZAdd
  <2>2. pc[r] = "add" /\ unit[r] \in ToAdd(r)
    <3>1. pc[r] = "add" /\ unit[r] \in 1 .. Quantity(r)
      BY <1>t, <1>1 DEF AddUnit, AtItem
    <3> QED BY <3>1 DEF ToAdd
  <2>3. id \in Promised(p)
    BY <1>1, <2>2 DEF Promised
  <2>4. new.id = id
    OBVIOUS
  <2> QED BY <2>1, <2>3, <2>4 DEF Booked
<1>2. CASE ~(AddUnit(r) /\ p = Product(r))
  <2>1. reserved'[p] \subseteq reserved[p]
    <3>1. CASE Purge(r)
      BY <1>t, <3>1 DEF Purge
    <3>2. CASE AddUnit(r)
      BY <1>t, <1>2, <3>2 DEF AddUnit
    <3>3. CASE ~Purge(r) /\ ~AddUnit(r)
      BY <3>3 DEF Step, Start, ReadStock, Count, Accept, Refuse, CreateOrder, Fail, Leave,
                  Take, Restore, Short
    <3> QED BY <3>1, <3>2, <3>3
  <2> QED BY <2>1 DEF Booked
<1> QED BY <1>1, <1>2

LEMMA QuantitiesOK ==
  ASSUME TypeOK, NEW q \in Requests, AtItem(q), pc[q] \in Waiting \cup {"add"}
  PROVE  Product(q) \in Products /\ Quantity(q) \in Nat \ {0} /\ Quantity(q) \in Quantities(Product(q))
<1>1. Item(q) \in 1 .. Len(Items[q]) /\ Product(q) \in Products /\ Quantity(q) \in Nat \ {0}
  BY AtItemOK DEF TypeOK
<1>2. DOMAIN Items[q] = 1 .. Len(Items[q])
  BY ReservationAssumption
<1>3. Item(q) \in LinesOf(q, Product(q))
  BY <1>1, <1>2 DEF LinesOf, Product
<1> QED BY <1>1, <1>3 DEF Quantities, Quantity

LEMMA MostTyped ==
  ASSUME NEW p \in Products
  PROVE  /\ Most[p] \subseteq Nat
         /\ \A most \in Most[p] : \A n \in Quantities(p) : n <= most
<1>1. ASSUME NEW r \in Requests, NEW i \in LinesOf(r, p) PROVE Items[r][i].quantity \in Nat
  <2>1. i \in 1 .. Len(Items[r])
    BY ReservationAssumption DEF LinesOf
  <2> QED BY <2>1, LineOK
<1>2. Quantities(p) \subseteq Nat
  BY <1>1 DEF Quantities
<1> QED BY <1>2 DEF Most

\* What the others have promised fits in AtOnce - 1 times the largest quantity.
LEMMA PromisesOfOthers ==
  ASSUME Inv, TypeOK, IsFiniteSet(Working), Cardinality(Working) <= AtOnce,
         NEW r \in Working, pc[r] = "count", NEW p \in Products,
         NEW most \in Most[p]
  PROVE  /\ IsFiniteSet(Promised(p))
         /\ Cardinality(Promised(p)) \in Nat
         /\ Cardinality(Promised(p)) <= (AtOnce - 1) * most
<1> DEFINE others == Working \ {r}
           slots == others \X (1 .. most)
           slot == [x \in Promised(p) |-> <<x[1], x[3]>>]
<1>1. most \in Nat /\ AtOnce \in Nat \ {0}
  BY MostTyped, ReservationAssumption
<1>2. IsFiniteSet(others) /\ Cardinality(others) \in Nat /\ Cardinality(others) <= AtOnce - 1
  <2>1. IsFiniteSet(others) /\ Cardinality(others) = Cardinality(Working) - 1
    BY FS_RemoveElement
  <2>2. Cardinality(others) \in Nat /\ Cardinality(Working) \in Nat
    BY <2>1, FS_CardinalityType
  <2> QED BY <1>1, <2>1, <2>2
<1>3. /\ IsFiniteSet(slots)
      /\ Cardinality(slots) = Cardinality(others) * most
  <2>1. IsFiniteSet(1 .. most) /\ Cardinality(1 .. most) = most
    BY <1>1, UpTo
  <2> QED BY <1>2, <2>1, FS_Product
<1>4. ASSUME NEW x \in Promised(p)
      PROVE  /\ x[1] \in others /\ x[3] \in 1 .. most
             /\ x = <<x[1], Item(x[1]), x[3]>>
  <2>1. PICK q \in Requests : /\ pc[q] \in {"decide", "add"} /\ Product(q) = p
                              /\ \E k \in ToAdd(q) : x = <<q, Item(q), k>>
    BY <1>4 DEF Promised
  <2>2. PICK k \in ToAdd(q) : x = <<q, Item(q), k>>
    BY <2>1
  <2>3. q \in others
    BY <2>1 DEF Working, InFlight
  <2>4. Quantity(q) \in Nat /\ Quantity(q) <= most /\ unit[q] \in Nat
    BY <2>1, QuantitiesOK, MostTyped DEF Inv, BooksInv, BooksTyped, Waiting
  <2>5. pc[q] = "add" => unit[q] \in 1 .. Quantity(q)
    BY DEF Inv, BooksInv, AtItem
  <2>6. k \in 1 .. most
    BY <1>1, <2>1, <2>2, <2>4, <2>5 DEF ToAdd
  <2> QED BY <2>2, <2>3, <2>6
<1>5. slot \in Injection(Promised(p), slots)
  <2>1. slot \in [Promised(p) -> slots]
    BY <1>4
  <2>2. ASSUME NEW x \in Promised(p), NEW y \in Promised(p), slot[x] = slot[y] PROVE x = y
    <3>1. x[1] = y[1] /\ x[3] = y[3]
      BY <2>2
    <3> QED BY <1>4, <3>1
  <2> QED BY <2>1, <2>2 DEF Injection, IsInjective
<1>6. IsFiniteSet(Promised(p)) /\ Cardinality(Promised(p)) <= Cardinality(slots)
  BY <1>3, <1>5, FS_Injection
<1>7. Cardinality(Promised(p)) \in Nat
  BY <1>6, FS_CardinalityType
<1>8. AtOnce - 1 \in Nat /\ Cardinality(others) * most \in Nat
      /\ Cardinality(others) * most <= (AtOnce - 1) * most /\ (AtOnce - 1) * most \in Nat
  <2>1. AtOnce - 1 \in Nat
    BY <1>1
  <2> HIDE DEF others
  <2> QED BY <1>1, <1>2, <2>1, TimesGrows
<1> QED
  <2> HIDE DEF others, slots
  <2> QED BY <1>3, <1>6, <1>7, <1>8

\* A request that counts books its own quantity where it saw room for it.
LEMMA CountBooks ==
  ASSUME Inv, ShelfInv, BookingInv, NEW r \in Requests, Count(r), room'[r] >= Quantity(r),
         NEW p \in Products, p = Product(r), NEW most \in Most[p]
  PROVE  /\ IsFiniteSet(Booked(p)')
         /\ Cardinality(Booked(p)') <= Headroom(peak'[p]) + (AtOnce - 1) * most
<1> DEFINE ids == {m.id : m \in reserved[p]}
           n == Quantity(r)
           own == {<<r, Item(r), k>> : k \in 1 .. n}
           head == Headroom(peak[p])
           extra == (AtOnce - 1) * most
<1>1. /\ TypeOK /\ BooksTyped /\ pc[r] = "count" /\ n \in Nat
      /\ IsFiniteSet(Working) /\ Cardinality(Working) <= AtOnce /\ r \in Working
  <2>1. TypeOK /\ BooksTyped /\ pc[r] = "count"
    BY DEF ShelfInv, TypeOK, Count
  <2>2. n \in Nat
    BY <2>1, QuantitiesOK DEF Inv, BooksInv, Waiting
  <2> QED BY <2>1, <2>2 DEF BookingInv, Working, InFlight
<1>2. /\ IsFiniteSet(Promised(p)) /\ Cardinality(Promised(p)) \in Nat
      /\ Cardinality(Promised(p)) <= extra
  BY <1>1, PromisesOfOthers
<1>3. /\ IsFiniteSet(ids) /\ Cardinality(ids) \in Nat
      /\ Cardinality(ids) <= Cardinality(reserved[p]) /\ Cardinality(reserved[p]) \in Nat
  <2> DEFINE name == [m \in reserved[p] |-> m.id]
  <2>1. name \in Surjection(reserved[p], ids)
    BY DEF Surjection
  <2>2. IsFiniteSet(reserved[p])
    BY DEF ShelfInv
  <2>3. IsFiniteSet(ids) /\ Cardinality(ids) <= Cardinality(reserved[p])
    BY <2>1, <2>2, FS_Surjection
  <2> QED BY <2>2, <2>3, FS_CardinalityType
<1>4. IsFiniteSet(own) /\ Cardinality(own) \in Nat /\ Cardinality(own) <= n
  <2> DEFINE name == [k \in 1 .. n |-> <<r, Item(r), k>>]
  <2>1. name \in Surjection(1 .. n, own)
    BY DEF Surjection
  <2>2. IsFiniteSet(1 .. n) /\ Cardinality(1 .. n) = n
    BY <1>1, UpTo
  <2>3. IsFiniteSet(own) /\ Cardinality(own) <= n
    BY <2>1, <2>2, FS_Surjection
  <2> QED BY <2>3, FS_CardinalityType
<1>5. room'[r] = room[r] - Cardinality(reserved[p]) /\ room[r] <= head /\ room[r] \in Int /\ head \in Nat
  <2>1. room[r] \in Int /\ room'[r] = room[r] - Cardinality(reserved[p])
    BY <1>1 DEF Count, TypeOK
  <2>2. room[r] <= head
    BY <1>1 DEF BookingInv
  <2>3. head \in Nat
    BY <1>1, HeadroomGrows DEF TypeOK
  <2> QED BY <2>1, <2>2, <2>3
<1>6. Booked(p)' \in SUBSET (ids \cup own \cup Promised(p))
  <2>1. reserved' = reserved /\ UNCHANGED <<score, unit>> /\ pc' = [pc EXCEPT ![r] = "decide"]
    BY DEF Count, GoTo
  <2>2. pc'[r] = "decide" /\ \A q \in Requests \ {r} : pc'[q] = pc[q] /\ room'[q] = room[q]
    BY <1>1, <2>1 DEF BooksTyped, Count, TypeOK
  <2>3. ASSUME NEW x \in Promised(p)' PROVE x \in own \cup Promised(p)
    <3>1. PICK q \in Requests : /\ pc'[q] \in {"decide", "add"} /\ Product(q)' = p
                                /\ \E k \in ToAdd(q)' : x = <<q, Item(q)', k>>
      BY <2>3 DEF Promised
    <3>2. PICK k \in ToAdd(q)' : x = <<q, Item(q)', k>>
      BY <3>1
    <3>3. Item(q)' = Item(q)
      BY <1>1, <2>1, <2>2 DEF Item
    <3>4. Product(q)' = Product(q) /\ Quantity(q)' = Quantity(q)
      BY <3>3 DEF Product, Quantity
    <3>5. CASE q = r
      BY <2>2, <3>2, <3>3, <3>4, <3>5 DEF ToAdd
    <3>6. CASE q # r
      <4>1. ToAdd(q)' = ToAdd(q)
        BY <2>1, <2>2, <3>4, <3>6 DEF ToAdd
      <4> QED BY <2>2, <3>1, <3>2, <3>3, <3>4, <3>6, <4>1 DEF Promised
    <3> QED BY <3>5, <3>6
  <2> QED BY <2>1, <2>3 DEF Booked
<1>7. /\ IsFiniteSet(ids \cup own) /\ Cardinality(ids \cup own) \in Nat
      /\ Cardinality(ids \cup own) <= head
  <2>1. /\ IsFiniteSet(ids \cup own)
        /\ Cardinality(ids \cup own) = Cardinality(ids) + Cardinality(own) - Cardinality(ids \cap own)
    BY <1>3, <1>4, FS_Union
  <2>2. Cardinality(ids \cup own) \in Nat /\ Cardinality(ids \cap own) \in Nat
    <3>1. IsFiniteSet(ids \cap own)
      BY <1>3, FS_Subset
    <3> QED BY <2>1, <3>1, FS_CardinalityType
  <2> HIDE DEF ids, own, head, n
  <2>3. room'[r] >= n
    BY DEF n
  <2> QED BY <1>1, <1>3, <1>4, <1>5, <2>1, <2>2, <2>3
<1>8. /\ IsFiniteSet(ids \cup own \cup Promised(p))
      /\ Cardinality(ids \cup own \cup Promised(p)) \in Nat
      /\ Cardinality(ids \cup own \cup Promised(p)) <= head + extra
  <2> HIDE DEF ids, own, head, extra
  <2>1. /\ IsFiniteSet(ids \cup own \cup Promised(p))
        /\ Cardinality(ids \cup own \cup Promised(p)) =
             Cardinality(ids \cup own) + Cardinality(Promised(p)) - Cardinality((ids \cup own) \cap Promised(p))
    BY <1>2, <1>7, FS_Union
  <2>2. Cardinality(ids \cup own \cup Promised(p)) \in Nat
    BY <2>1, FS_CardinalityType
  <2>3. Cardinality((ids \cup own) \cap Promised(p)) \in Nat
    <3>1. IsFiniteSet((ids \cup own) \cap Promised(p))
      BY <1>7, FS_Subset
    <3> QED BY <3>1, FS_CardinalityType
  <2>4. extra \in Int
    BY ReservationAssumption, MostTyped DEF extra
  <2> QED BY <1>2, <1>5, <1>7, <2>1, <2>2, <2>3, <2>4
<1>9. IsFiniteSet(Booked(p)') /\ Cardinality(Booked(p)') <= Cardinality(ids \cup own \cup Promised(p))
  BY <1>6, <1>8, FS_Subset
<1>10. Cardinality(Booked(p)') \in Nat /\ extra \in Int
  BY <1>9, FS_CardinalityType, ReservationAssumption, MostTyped
<1>11. peak' = peak
  BY DEF Count, shelf
<1> QED
  <2> HIDE DEF ids, own
  <2> QED BY <1>5, <1>8, <1>9, <1>10, <1>11

LEMMA BookedBoundedStep ==
  ASSUME Inv, ShelfInv, BookingInv, NEW r \in Requests, Step(r), NEW p \in Products
  PROVE  BookedBounded(p)'
<1>t. TypeOK /\ BookedBounded(p)
  BY DEF ShelfInv, BookingInv
<1>1. ASSUME NEW m \in reserved'[p], NEW n \in reserved'[p], m.id = n.id PROVE m = n
  BY <1>t, <1>1, MembersStay DEF BookedBounded
<1>2. CASE Count(r) /\ Product(r) = p /\ room'[r] >= Quantity(r)
  <2>1. \A most \in Most[p] :
          /\ IsFiniteSet(Booked(p)')
          /\ Cardinality(Booked(p)') <= Headroom(peak'[p]) + (AtOnce - 1) * most
    BY <1>2, CountBooks
  <2> QED BY <1>1, <2>1 DEF BookedBounded
<1>3. CASE Count(r) => Product(r) # p \/ room'[r] < Quantity(r)
  <2>1. \A x \in Promised(p)' : x \in Promised(p)
    BY <1>3, PromisedStays
  <2>2. \A m \in reserved'[p] : m.id \in Booked(p)
    BY <1>t, MembersStay DEF BookedBounded
  <2>3. Booked(p)' \in SUBSET Booked(p)
    BY <2>1, <2>2 DEF Booked
  <2>4. ASSUME NEW most \in Most[p]
        PROVE  /\ IsFiniteSet(Booked(p)')
               /\ Cardinality(Booked(p)') <= Headroom(peak'[p]) + (AtOnce - 1) * most
    <3>1. /\ IsFiniteSet(Booked(p))
          /\ Cardinality(Booked(p)) <= Headroom(peak[p]) + (AtOnce - 1) * most
      BY <1>t, <2>4 DEF BookedBounded
    <3>2. IsFiniteSet(Booked(p)') /\ Cardinality(Booked(p)') <= Cardinality(Booked(p))
      BY <2>3, <3>1, FS_Subset
    <3>3. Cardinality(Booked(p)) \in Nat /\ Cardinality(Booked(p)') \in Nat
      BY <3>1, <3>2, FS_CardinalityType
    <3>4. /\ Headroom(peak[p]) \in Int /\ Headroom(peak'[p]) \in Int
          /\ Headroom(peak[p]) <= Headroom(peak'[p])
      <4>1. peak[p] \in Nat /\ peak'[p] \in Nat /\ peak[p] <= peak'[p]
        BY <1>t, PeakStep, StillTyped DEF TypeOK, BookingInv, ShelfKept
      <4> QED BY <4>1, HeadroomGrows
    <3>5. (AtOnce - 1) * most \in Int
      BY <2>4, ReservationAssumption, MostTyped
    <3> QED BY <3>1, <3>2, <3>3, <3>4, <3>5
  <2> QED BY <1>1, <2>4 DEF BookedBounded
<1>4. Count(r) => room'[r] \in Int /\ Quantity(r) \in Nat
  BY <1>t, StillTyped, QuantitiesOK DEF Inv, BooksInv, Waiting, Count
<1> QED BY <1>2, <1>3, <1>4

LEMMA InitBookingInv == Init => BookingInv
<1> SUFFICES ASSUME Init PROVE BookingInv
  OBVIOUS
<1>1. IsFiniteSet(Working) /\ Cardinality(Working) <= AtOnce
  <2>1. Working = {}
    BY DEF Init, Working, InFlight
  <2> QED BY <2>1, FS_EmptySet, ReservationAssumption
<1>2. ASSUME NEW p \in Products PROVE ShelfKept(p)
  <2>1. TakenUnits(p) = {}
    BY DEF Init, TakenUnits
  <2>2. stock[p] \in Nat /\ stock[p] = InitStock[p] /\ peak[p] = InitStock[p]
    BY ReservationAssumption DEF Init
  <2> QED BY <2>1, <2>2, FS_EmptySet DEF ShelfKept
<1>3. ASSUME NEW p \in Products PROVE BookedBounded(p)
  <2>1. Promised(p) = {} /\ reserved[p] = {}
    BY DEF Init, Promised
  <2>2. IsFiniteSet(Booked(p)) /\ Cardinality(Booked(p)) = 0
    <3>1. Booked(p) = {}
      BY <2>1 DEF Booked
    <3> QED BY <3>1, FS_EmptySet
  <2>3. ASSUME NEW most \in Most[p]
        PROVE  0 <= Headroom(peak[p]) + (AtOnce - 1) * most
    <3>1. most \in Nat /\ AtOnce - 1 \in Nat /\ 0 <= AtOnce - 1
      BY MostTyped, ReservationAssumption
    <3>2. (AtOnce - 1) * most \in Nat
      BY <3>1, TimesGrows
    <3>3. Headroom(peak[p]) \in Nat
      BY ReservationAssumption, HeadroomGrows DEF Init
    <3> QED BY <3>2, <3>3
  <2> QED BY <2>1, <2>2, <2>3 DEF BookedBounded
<1> QED BY <1>1, <1>2, <1>3 DEF Init, BookingInv

LEMMA NextBookingInv == Inv /\ ShelfInv /\ BookingInv /\ [Next]_vars => BookingInv'
<1> SUFFICES ASSUME Inv, ShelfInv, BookingInv, [Next]_vars PROVE BookingInv'
  OBVIOUS
<1>1. CASE UNCHANGED vars \/ Tick
  <2>1. UNCHANGED <<stock, peak, restores, reserved, room, score, unit, pc>>
    BY <1>1 DEF vars, Tick, shelf
  <2>2. \A q \in Requests : Item(q)' = Item(q) /\ Product(q)' = Product(q) /\ Quantity(q)' = Quantity(q)
    BY <2>1 DEF Item, Product, Quantity
  <2>3. \A q \in Requests : ToAdd(q)' = ToAdd(q)
    BY <2>1, <2>2 DEF ToAdd
  <2>4. Working' = Working
    BY <2>1 DEF Working
  <2>5. ASSUME NEW p \in Products PROVE ShelfKept(p)'
    <3>1. TakenUnits(p)' = TakenUnits(p)
      BY <2>1 DEF TakenUnits
    <3> QED BY <2>1, <3>1 DEF BookingInv, ShelfKept, RestoredTwice
  <2>6. ASSUME NEW p \in Products PROVE BookedBounded(p)'
    <3>1. Promised(p)' = Promised(p)
      BY <2>1, <2>2, <2>3 DEF Promised
    <3>2. Booked(p)' = Booked(p)
      BY <2>1, <3>1 DEF Booked
    <3>3. BookedBounded(p)
      BY DEF BookingInv
    <3> QED BY <2>1, <3>2, <3>3 DEF BookedBounded
  <2> QED BY <2>1, <2>2, <2>4, <2>5, <2>6 DEF BookingInv
<1>2. ASSUME NEW r \in Requests, Step(r) PROVE BookingInv'
  <2>1. TypeOK
    BY DEF ShelfInv
  <2>2. IsFiniteSet(Working') /\ Cardinality(Working') <= AtOnce
    BY <1>2, <2>1, WorkingKept DEF BookingInv
  <2>3. \A p \in Products : ShelfKept(p)'
    BY <1>2, <2>1, ShelfKeptStep DEF BookingInv
  <2>4. \A p \in Products : BookedBounded(p)'
    BY <1>2, BookedBoundedStep
  <2>5. \A q \in Requests : Roomy(q)'
    BY <1>2, <2>1, RoomyStep, StillTyped DEF BookingInv, Roomy, Inv, BooksInv
  <2>6. \A q \in Requests : pc'[q] = "restored" => restores'[q] > 0
    <3>1. SUFFICES ASSUME NEW q \in Requests, pc'[q] = "restored" PROVE restores'[q] > 0
      OBVIOUS
    <3>2. restores[q] \in Nat /\ restores \in [Requests -> Nat]
      BY <2>1 DEF TypeOK
    <3>3. CASE Restore(r) /\ q = r
      BY <3>2, <3>3 DEF Restore
    <3>4. CASE q # r
      <4>1. pc[q] = "restored"
        BY <1>2, <2>1, <3>1, <3>4, OthersStay
      <4>2. restores'[q] = restores[q]
        BY <1>2, <3>2, <3>4 DEF Step, Start, ReadStock, Purge, Count, Accept, Refuse, AddUnit,
           CreateOrder, Fail, Leave, Take, Restore, Short, shelf
      <4> QED BY <4>1, <4>2 DEF BookingInv
    <3>5. CASE q = r /\ ~Restore(r)
      <4>1. pc[r] \in {"taken", "restored"} /\ pc'[r] = "restored"
        BY <1>2, <2>1, <3>1, <3>5, NextOf
      <4>2. ~Start(r) /\ ~ReadStock(r) /\ ~Purge(r) /\ ~Count(r) /\ ~Accept(r) /\ ~Refuse(r)
            /\ ~AddUnit(r) /\ ~CreateOrder(r) /\ ~Fail(r) /\ ~Take(r) /\ ~Short(r)
        BY <4>1 DEF Start, ReadStock, Purge, Count, Accept, Refuse, AddUnit, CreateOrder, Fail,
           Take, Short, InFlight
      <4> QED BY <1>2, <3>5, <4>2 DEF Step
    <3> QED BY <3>3, <3>4, <3>5
  <2> QED BY <2>2, <2>3, <2>4, <2>5, <2>6 DEF BookingInv, Roomy
<1> QED BY <1>1, <1>2 DEF Next

\* The invariant behind the bound: the units in a product's set and those that
\* some request has found room for and is still to add, together.  The peak of the
\* shelf in it is the first stock as long as no order's units came back twice.
THEOREM BookingKept == Spec => []BookingInv
BY InitInv, NextInv, InitShelfInv, NextShelfInv, InitBookingInv, NextBookingInv, PTL DEF Spec

\* Both inductive invariants of the reservation at once.
THEOREM ReservationKept == Spec => []ReservationInv
BY BooksSound, BookingKept, PTL DEF ReservationInv

LEMMA BookingBoundsSets == ShelfInv /\ BookingInv => OverbookingBounded
<1> SUFFICES ASSUME ShelfInv, BookingInv, NEW p \in Products,
                    NEW most \in Most[p]
             PROVE  Cardinality(reserved[p]) <= Headroom(peak[p]) + (AtOnce - 1) * most
  BY DEF OverbookingBounded
<1> DEFINE name == [m \in reserved[p] |-> m.id]
<1>1. /\ IsFiniteSet(Booked(p))
      /\ Cardinality(Booked(p)) <= Headroom(peak[p]) + (AtOnce - 1) * most
      /\ \A m, n \in reserved[p] : m.id = n.id => m = n
  BY DEF BookingInv, BookedBounded
<1>2. name \in Injection(reserved[p], Booked(p))
  BY <1>1 DEF Injection, IsInjective, Booked
<1>3. IsFiniteSet(reserved[p]) /\ Cardinality(reserved[p]) <= Cardinality(Booked(p))
  BY <1>1, <1>2, FS_Injection
<1>4. /\ Cardinality(reserved[p]) \in Nat /\ Cardinality(Booked(p)) \in Nat
      /\ Headroom(peak[p]) \in Int /\ (AtOnce - 1) * most \in Int
  BY <1>1, <1>3, FS_CardinalityType, ReservationAssumption, HeadroomGrows, MostTyped DEF ShelfInv, TypeOK
<1> QED BY <1>1, <1>3, <1>4

\* However the counting and the adding of concurrent orders interleave, and
\* whatever fails or is compensated twice, no product is reserved beyond the
\* headroom of its fullest shelf so far by more than one item of every other order
\* that is worked on at the time.
THEOREM OverbookingStaysBounded == Spec => []OverbookingBounded
BY InitInv, NextInv, InitShelfInv, NextShelfInv, BookingKept, BookingBoundsSets, PTL DEF Spec
=============================================================================

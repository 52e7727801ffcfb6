------------------------- MODULE MCStockReservation -------------------------
(* Instances of StockReservation for TLC. *)
EXTENDS StockReservation, TLC

CONSTANTS r1, r2, r3

Line(p, n) == [product |-> p, quantity |-> n]

\* Three orders for the last units of product 1, one of them of two items.
Rush == (r1 :> <<Line(1, 2), Line(2, 1)>>) @@ (r2 :> <<Line(1, 2)>>) @@ (r3 :> <<Line(1, 1)>>)
RushShelf == <<2, 1>>
=============================================================================

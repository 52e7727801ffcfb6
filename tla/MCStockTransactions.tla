------------------------ MODULE MCStockTransactions ------------------------
(* Instances of StockTransactions for TLC. *)
EXTENDS StockTransactions, TLC

CONSTANTS d1, d2, r1

\* Two orders over the same two products, which the shelf cannot serve both,
\* and a compensation that brings back some of each.
Orders == (d1 :> <<1, 2>>) @@ (d2 :> <<2, 1>>) @@ (r1 :> <<1, 1>>)
Shelf == <<2, 2>>
=============================================================================

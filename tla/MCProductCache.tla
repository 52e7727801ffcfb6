--------------------------- MODULE MCProductCache ---------------------------
(* Instances of ProductCache for TLC. *)
EXTENDS ProductCache, TLC

CONSTANTS r1, r2, r3

\* A product page twice and an order for two products, the first of which
\* changes its price.
Readers == (r1 :> <<1>>) @@ (r2 :> <<1>>) @@ (r3 :> <<1, 2>>)
Changes == [p \in Products |-> IF p = 1 THEN 1 ELSE 0]
=============================================================================

------------------------------ MODULE MCWallet ------------------------------
(* Instances of Wallet for TLC. *)
EXTENDS Wallet, TLC

CONSTANTS c1, c2, d1, d2

\* Two charges and two payments: either payment alone can be paid from the
\* initial points, both only after a charge.  One charge comes with half a
\* hundredth.
Points == (c1 :> 1) @@ (c2 :> 2) @@ (d1 :> 3) @@ (d2 :> 3)
=============================================================================

--------------------------- MODULE OrderLifecycle ---------------------------
(***************************************************************************)
(* What the order saga promises about one order, whatever the number of    *)
(* instances and whatever fails: the order of the business events, each at *)
(* most once.  Stock is held before money is taken, an order is confirmed  *)
(* only after the charge, and held stock is released only while the order  *)
(* has not been charged.  OrderSaga implements this module.                *)
(***************************************************************************)
CONSTANT Orders

VARIABLE phase

Phases == {"none", "placed", "held", "charged", "paid", "released", "rejected"}

Init == phase = [o \in Orders |-> "none"]

Move(o, from, to) ==
  /\ phase[o] = from
  /\ phase' = [phase EXCEPT ![o] = to]

Place(o)   == Move(o, "none", "placed")
Hold(o)    == Move(o, "placed", "held")
Reject(o)  == Move(o, "placed", "rejected")
Charge(o)  == Move(o, "held", "charged")
Release(o) == Move(o, "held", "released")
Confirm(o) == Move(o, "charged", "paid")

Next ==
  \E o \in Orders :
    \/ Place(o)
    \/ Hold(o)
    \/ Reject(o)
    \/ Charge(o)
    \/ Release(o)
    \/ Confirm(o)

Spec == Init /\ [][Next]_phase
=============================================================================

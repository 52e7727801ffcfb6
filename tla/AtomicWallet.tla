---------------------------- MODULE AtomicWallet ----------------------------
(***************************************************************************)
(* What a wallet promises: every charge and every payment takes effect at  *)
(* one moment or not at all, and a payment only when the points are there. *)
(* Wallet implements this module.                                          *)
(***************************************************************************)
EXTENDS Naturals

CONSTANTS
  Charges,      \* requests that add points
  Payments,     \* requests that take points
  Amount,       \* request |-> hundredths of a point
  Halves,       \* charges of half a hundredth more, which is rounded up or down
  InitPoint     \* points before the first request

VARIABLES total, outcome

Requests == Charges \cup Payments

Init ==
  /\ total = InitPoint
  /\ outcome = [r \in Requests |-> "none"]

End(r, result) ==
  /\ outcome[r] = "none"
  /\ outcome' = [outcome EXCEPT ![r] = result]

Charge(r) ==
  /\ r \in Charges
  /\ End(r, "done")
  /\ \/ total' = total + Amount[r]
     \/ r \in Halves /\ total' = total + Amount[r] + 1

Pay(r) ==
  /\ r \in Payments
  /\ total >= Amount[r]
  /\ End(r, "done")
  /\ total' = total - Amount[r]

Fail(r) == End(r, "failed") /\ UNCHANGED total

Next == \E r \in Requests : Charge(r) \/ Pay(r) \/ Fail(r)

Spec == Init /\ [][Next]_<<total, outcome>>
=============================================================================

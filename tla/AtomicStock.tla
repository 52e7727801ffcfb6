---------------------------- MODULE AtomicStock ----------------------------
(***************************************************************************)
(* What the stock transactions promise: an order's lines are taken all at  *)
(* once when every one of them is in stock, given back all at once, and    *)
(* turned away only when some line is short at that moment.  This is the   *)
(* step OrderSaga takes for them; StockTransactions implements it.         *)
(***************************************************************************)
EXTENDS Naturals

CONSTANTS Products, Deducts, Restores, Qty, InitStock

VARIABLES stock, outcome

Txs == Deducts \cup Restores

Init ==
  /\ stock = InitStock
  /\ outcome = [t \in Txs |-> "none"]

End(t, result) ==
  /\ outcome[t] = "none"
  /\ outcome' = [outcome EXCEPT ![t] = result]

InStock(t) == \A p \in Products : stock[p] >= Qty[t][p]

Deduct(t) ==
  /\ t \in Deducts
  /\ InStock(t)
  /\ End(t, "done")
  /\ stock' = [p \in Products |-> stock[p] - Qty[t][p]]

Restore(t) ==
  /\ t \in Restores
  /\ End(t, "done")
  /\ stock' = [p \in Products |-> stock[p] + Qty[t][p]]

OutOfStock(t) ==
  /\ t \in Deducts
  /\ ~InStock(t)
  /\ End(t, "outOfStock")
  /\ UNCHANGED stock

Fail(t) == End(t, "failed") /\ UNCHANGED stock

Next == \E t \in Txs : Deduct(t) \/ Restore(t) \/ OutOfStock(t) \/ Fail(t)

Spec == Init /\ [][Next]_<<stock, outcome>>
=============================================================================

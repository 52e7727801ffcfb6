------------------------- MODULE StockTransactions -------------------------
(***************************************************************************)
(* The stock transactions row by row: ProductService.deductStock and the   *)
(* restoring transaction of the poller's compensation.  Each locks the     *)
(* rows of its products (SELECT ... FOR UPDATE), computes the new values   *)
(* in memory, writes them one updateMany at a time and commits.            *)
(***************************************************************************)
EXTENDS Integers, FiniteSets

CONSTANTS
  Products,     \* product ids; InnoDB locks rows in the order of the key
  Deducts,      \* transactions that take an order's units
  Restores,     \* transactions that give an order's units back
  Qty,          \* transaction |-> product |-> units (0: not in the order)
  InitStock,    \* product |-> units before the first transaction
  NoOne         \* holder of a row nobody has locked

Txs == Deducts \cup Restores

ASSUME TransactionsAssumption ==
  /\ Products \subseteq Nat
  /\ IsFiniteSet(Products)
  /\ IsFiniteSet(Txs)
  /\ Deducts \cap Restores = {}
  /\ Qty \in [Txs -> [Products -> Nat]]
  /\ InitStock \in [Products -> Nat]
  /\ NoOne \notin Txs

VARIABLES
  stock,    \* product |-> committed units
  lock,     \* product |-> the transaction that holds the row
  model,    \* transaction |-> product |-> the units of its ProductStockModel
  wrote,    \* transaction |-> products whose new value it has written
  pc        \* transaction |-> how far it is

vars == <<stock, lock, model, wrote, pc>>

Ended == {"committed", "outOfStock", "aborted"}
Running == {"locking", "writing"}

GoTo(t, s) == pc' = [pc EXCEPT ![t] = s]

Lines(t) == {p \in Products : Qty[t][p] > 0}
Locked(t) == {p \in Products : lock[p] = t}

Init ==
  /\ stock = InitStock
  /\ lock = [p \in Products |-> NoOne]
  /\ model = [t \in Txs |-> InitStock]
  /\ wrote = [t \in Txs |-> {}]
  /\ pc = [t \in Txs |-> "idle"]

\* The first of the rows S that t has yet to handle.
First(p, S) == p \in S /\ \A q \in S : p <= q

Begin(t) ==
  /\ pc[t] = "idle"
  /\ GoTo(t, "locking")
  /\ UNCHANGED <<stock, lock, model, wrote>>

-----------------------------------------------------------------------------
\* Mutant: no FOR UPDATE.
LockRowNoWait(t) ==
  /\ pc[t] = "locking"
  /\ \E p \in Products :
       /\ First(p, Lines(t) \ Locked(t))
       /\ lock' = [lock EXCEPT ![p] = t]
       /\ model' = [model EXCEPT ![t][p] = stock[p]]
  /\ UNCHANGED <<stock, wrote, pc>>

\* Mutant: the rows are locked in the order of the order's lines.
LockRowOfOrder(t) ==
  /\ pc[t] = "locking"
  /\ \E p \in Lines(t) \ Locked(t) :
       /\ lock[p] = NoOne
       /\ lock' = [lock EXCEPT ![p] = t]
       /\ model' = [model EXCEPT ![t][p] = stock[p]]
  /\ UNCHANGED <<stock, wrote, pc>>

\* findByIdsWithXLock: one row after the other in key order, waiting for each;
\* a locking read returns the committed value.
LockRow(t) ==
  /\ pc[t] = "locking"
  /\ \E p \in Products :
       /\ First(p, Lines(t) \ Locked(t))
       /\ lock[p] = NoOne
       /\ lock' = [lock EXCEPT ![p] = t]
       /\ model' = [model EXCEPT ![t][p] = stock[p]]
  /\ UNCHANGED <<stock, wrote, pc>>

HasAllRows(t) == pc[t] = "locking" /\ Lines(t) \subseteq Locked(t)

\* ProductStockModel.inStock for every line
InStock(t) == \A p \in Lines(t) : model[t][p] >= Qty[t][p]

\* Mutant: ProductStockModel.deduct without its check.
ComputeUnchecked(t) ==
  /\ HasAllRows(t)
  /\ model' = [model EXCEPT ![t] = [p \in Products |->
       IF t \in Deducts THEN @[p] - Qty[t][p] ELSE @[p] + Qty[t][p]]]
  /\ GoTo(t, "writing")
  /\ UNCHANGED <<stock, lock, wrote>>

\* ProductStockModel.deduct or add, line by line, in memory.
Compute(t) ==
  /\ HasAllRows(t)
  /\ t \in Deducts => InStock(t)
  /\ model' = [model EXCEPT ![t] = [p \in Products |->
       IF p \notin Lines(t) THEN @[p]
       ELSE IF t \in Deducts THEN @[p] - Qty[t][p] ELSE @[p] + Qty[t][p]]]
  /\ GoTo(t, "writing")
  /\ UNCHANGED <<stock, lock, wrote>>

Unlocked(t) == [p \in Products |-> IF lock[p] = t THEN NoOne ELSE lock[p]]

\* Mutant: an order that is turned away keeps the rows it has looked at.
OutOfStockKeepsRows(t) ==
  /\ HasAllRows(t)
  /\ t \in Deducts
  /\ ~InStock(t)
  /\ GoTo(t, "outOfStock")
  /\ UNCHANGED <<stock, lock, model, wrote>>

OutOfStock(t) ==
  /\ HasAllRows(t)
  /\ t \in Deducts
  /\ ~InStock(t)
  /\ lock' = Unlocked(t)
  /\ GoTo(t, "outOfStock")
  /\ UNCHANGED <<stock, model, wrote>>

\* Mutant: updateBulk without the transaction (as compensate calls it).
WriteRowAtOnce(t) ==
  /\ pc[t] = "writing"
  /\ \E p \in Products :
       /\ First(p, Lines(t) \ wrote[t])
       /\ wrote' = [wrote EXCEPT ![t] = @ \cup {p}]
       /\ stock' = [stock EXCEPT ![p] = model[t][p]]
  /\ UNCHANGED <<lock, model, pc>>

\* updateBulk: the value is absolute and nobody else sees it before the commit.
WriteRow(t) ==
  /\ pc[t] = "writing"
  /\ \E p \in Products :
       /\ First(p, Lines(t) \ wrote[t])
       /\ wrote' = [wrote EXCEPT ![t] = @ \cup {p}]
  /\ UNCHANGED <<stock, lock, model, pc>>

Commit(t) ==
  /\ pc[t] = "writing"
  /\ wrote[t] = Lines(t)
  /\ stock' = [p \in Products |-> IF p \in wrote[t] THEN model[t][p] ELSE stock[p]]
  /\ lock' = Unlocked(t)
  /\ GoTo(t, "committed")
  /\ UNCHANGED <<model, wrote>>

\* The transaction's timeout, a lost connection, any database error, also the
\* unique key of the event inserted before the commit: all of it is undone.
Abort(t) ==
  /\ pc[t] \in Running
  /\ lock' = Unlocked(t)
  /\ GoTo(t, "aborted")
  /\ UNCHANGED <<stock, model, wrote>>

Step(t) ==
  \/ Begin(t)
  \/ LockRow(t)
  \/ Compute(t)
  \/ OutOfStock(t)
  \/ WriteRow(t)
  \/ Commit(t)

Next == \E t \in Txs : Step(t) \/ Abort(t)

Spec == Init /\ [][Next]_vars

\* A transaction that can go on does; the aborts need not happen, so what ends
\* ends without the help of a timeout.
FairSpec == Spec /\ \A t \in Txs : WF_vars(Step(t))

-----------------------------------------------------------------------------
TypeOK ==
  /\ stock \in [Products -> Nat]
  /\ lock \in [Products -> Txs \cup {NoOne}]
  /\ model \in [Txs -> [Products -> Nat]]
  /\ wrote \in [Txs -> SUBSET Products]
  /\ pc \in [Txs -> {"idle"} \cup Running \cup Ended]

Committed(S) == {t \in S : pc[t] = "committed"}

\* The units of product p the transactions S stand for, counted one by one.
Units(S, p) == Cardinality(UNION {{t} \X (1..Qty[t][p]) : t \in S})

\* No update is lost: the stock is what the committed transactions make it.
StockAgrees ==
  \A p \in Products :
    stock[p] = InitStock[p] - Units(Committed(Deducts), p) + Units(Committed(Restores), p)

\* t is held up at a row u has locked.
WaitsFor(t, u) ==
  /\ pc[t] = "locking"
  /\ \E p \in Products : First(p, Lines(t) \ Locked(t)) /\ lock[p] = u

\* No deadlock: among any transactions there is one that waits for none of them,
\* so that InnoDB never has to pick a victim and no caller sees its error.
NoWaitCycle ==
  \A S \in SUBSET Txs : S # {} => \E t \in S : \A u \in S : ~WaitsFor(t, u)

\* No one waits for ever: every transaction that began comes to its end, however the
\* transactions overlap and even if no timeout breaks them up.
EveryTransactionEnds == \A t \in Txs : pc[t] # "idle" ~> pc[t] \in Ended

\* Row by row or all at once makes no difference: an order is deducted in full
\* or not at all, and turned away only when it is short.
Outcome(t) ==
  CASE pc[t] = "committed"  -> "done"
    [] pc[t] = "outOfStock" -> "outOfStock"
    [] pc[t] = "aborted"    -> "failed"
    [] OTHER -> "none"

Atomic == INSTANCE AtomicStock WITH outcome <- [t \in Txs |-> Outcome(t)]

ImplementsAtomicStock == Atomic!Spec

-----------------------------------------------------------------------------
\* The invariant behind it: only running transactions hold rows, and what a
\* transaction has in memory is the row it holds, before or after its change.
ModelInv(t) ==
  /\ wrote[t] \subseteq Lines(t)
  /\ pc[t] \notin Running => Locked(t) = {}
  /\ pc[t] = "locking" =>
       /\ Locked(t) \subseteq Lines(t)
       /\ \A p \in Locked(t) : model[t][p] = stock[p]
  /\ pc[t] = "writing" =>
       /\ Locked(t) = Lines(t)
       /\ \A p \in Lines(t) :
            IF t \in Deducts
              THEN stock[p] >= Qty[t][p] /\ model[t][p] = stock[p] - Qty[t][p]
              ELSE model[t][p] = stock[p] + Qty[t][p]

StockInv == TypeOK /\ \A t \in Txs : ModelInv(t)

\* What keeps the waits in one direction: a transaction that still asks for rows
\* holds none above the ones it asks for.
RowsInOrder ==
  \A t \in Txs : pc[t] = "locking" =>
    \A p \in Locked(t), q \in Lines(t) \ Locked(t) : p < q
=============================================================================

---------------------------- MODULE StockProofs ----------------------------
(***************************************************************************)
(* Proofs about StockTransactions, for any products, orders and amounts:   *)
(* the inductive invariant StockInv, the books, that no transactions wait  *)
(* for each other, and the refinement of AtomicStock.                      *)
(***************************************************************************)
EXTENDS StockTransactions, FiniteSetTheorems, WellFoundedInduction, TLAPS

LEMMA UpTo == ASSUME NEW n \in Nat PROVE IsFiniteSet(1..n) /\ Cardinality(1..n) = n
<1>1. 1 \in Int /\ n \in Int
  OBVIOUS
<1>2. Cardinality(1..n) = IF 1 > n THEN 0 ELSE n - 1 + 1
  BY <1>1, FS_Interval
<1> QED BY <1>1, <1>2, FS_Interval

USE TransactionsAssumption

LEMMA InitInv == Init => StockInv
<1>1. SUFFICES ASSUME Init PROVE StockInv
  OBVIOUS
<1>2. TypeOK
  BY <1>1 DEF Init, TypeOK
<1>3. ASSUME NEW t \in Txs PROVE ModelInv(t)
  BY <1>1, <1>3 DEF Init, ModelInv, Running, Locked
<1> QED BY <1>2, <1>3 DEF StockInv

\* Facts about constants, and what typing says of one transaction.
LEMMA Typed ==
  ASSUME TypeOK, NEW t \in Txs
  PROVE  /\ t # NoOne
         /\ Lines(t) \subseteq Products
         /\ Qty[t] \in [Products -> Nat]
         /\ model[t] \in [Products -> Nat]
BY DEF TypeOK, Lines

\* What a step leaves alone of a transaction other than the one it belongs to.
LEMMA OthersKept ==
  ASSUME StockInv, NEW t \in Txs, NEW q \in Txs, q # t,
         model'[q] = model[q], wrote'[q] = wrote[q], pc'[q] = pc[q],
         \A p \in Products : lock'[p] = q <=> lock[p] = q,
         \A p \in Products : lock[p] = q => stock'[p] = stock[p]
  PROVE  ModelInv(q)'
<1>1. Locked(q)' = Locked(q)
  BY DEF Locked
<1>2. ModelInv(q)
  BY DEF StockInv
<1>3. Lines(q) \subseteq Products
  BY DEF Lines
<1>4. pc[q] = "locking" => \A p \in Locked(q) : model'[q][p] = stock'[p]
  BY <1>2 DEF ModelInv, Locked
<1>5. pc[q] = "writing" => \A p \in Lines(q) : stock'[p] = stock[p]
  BY <1>2, <1>3 DEF ModelInv, Locked
<1>6. Lines(q)' = Lines(q)
  BY DEF Lines
<1> QED BY <1>1, <1>2, <1>4, <1>5, <1>6 DEF ModelInv

LEMMA BeginInv == ASSUME StockInv, NEW t \in Txs, Begin(t) PROVE StockInv'
<1>1. TypeOK /\ ModelInv(t)
  BY DEF StockInv
<1>2. TypeOK'
  BY <1>1 DEF TypeOK, Begin, GoTo, Running
<1>3. ModelInv(t)'
  BY <1>1 DEF TypeOK, ModelInv, Begin, GoTo, Running, Locked, Lines
<1>4. ASSUME NEW q \in Txs, q # t PROVE ModelInv(q)'
  BY <1>1, <1>4, OthersKept DEF TypeOK, Begin, GoTo
<1> QED BY <1>2, <1>3, <1>4 DEF StockInv

LEMMA LockRowInv == ASSUME StockInv, NEW t \in Txs, LockRow(t) PROVE StockInv'
<1>1. TypeOK /\ ModelInv(t)
  BY DEF StockInv
<1>2. PICK p \in Products :
        /\ p \in Lines(t)
        /\ lock[p] = NoOne
        /\ lock' = [lock EXCEPT ![p] = t]
        /\ model' = [model EXCEPT ![t][p] = stock[p]]
  BY DEF LockRow, First
<1>3. TypeOK'
  <2>1. stock[p] \in Nat
    BY <1>1 DEF TypeOK
  <2>2. model' \in [Txs -> [Products -> Nat]]
    BY <1>1, <1>2, <2>1 DEF TypeOK
  <2>3. lock' \in [Products -> Txs \cup {NoOne}]
    BY <1>1, <1>2 DEF TypeOK
  <2> QED BY <1>1, <2>2, <2>3 DEF TypeOK, LockRow
<1>4. ModelInv(t)'
  <2>1. pc'[t] = "locking" /\ pc[t] = "locking" /\ wrote' = wrote /\ stock' = stock
    BY DEF LockRow
  <2>2. Locked(t)' = Locked(t) \cup {p}
    BY <1>1, <1>2 DEF TypeOK, Locked
  <2>3. \A x \in Products : model'[t][x] = IF x = p THEN stock[p] ELSE model[t][x]
    BY <1>1, <1>2 DEF TypeOK
  <2>4. \A x \in Locked(t)' : model'[t][x] = stock'[x]
    BY <1>1, <2>1, <2>2, <2>3 DEF ModelInv, Locked
  <2>5. Lines(t)' = Lines(t)
    BY DEF Lines
  <2> QED BY <1>1, <1>2, <2>1, <2>2, <2>4, <2>5 DEF ModelInv, Running
<1>5. ASSUME NEW q \in Txs, q # t PROVE ModelInv(q)'
  <2>1. model'[q] = model[q]
    BY <1>1, <1>2, <1>5 DEF TypeOK
  <2>2. \A x \in Products : lock'[x] = q <=> lock[x] = q
    BY <1>1, <1>2, <1>5 DEF TypeOK
  <2> QED BY <1>5, <2>1, <2>2, OthersKept DEF LockRow
<1> QED BY <1>3, <1>4, <1>5 DEF StockInv

LEMMA ComputeInv == ASSUME StockInv, NEW t \in Txs, Compute(t) PROVE StockInv'
<1>1. TypeOK /\ ModelInv(t)
  BY DEF StockInv
<1>2. /\ Locked(t) = Lines(t)
      /\ \A p \in Lines(t) : model[t][p] = stock[p]
  BY <1>1 DEF Compute, HasAllRows, ModelInv
<1>3. \A p \in Lines(t) : /\ p \in Products
                          /\ stock[p] \in Nat
                          /\ Qty[t][p] \in Nat
                          /\ t \in Deducts => stock[p] >= Qty[t][p]
  BY <1>1, <1>2, Typed DEF TypeOK, Compute, InStock
<1>4. model' = [model EXCEPT ![t] = [p \in Products |->
        IF p \notin Lines(t) THEN model[t][p]
        ELSE IF t \in Deducts THEN stock[p] - Qty[t][p] ELSE stock[p] + Qty[t][p]]]
  BY <1>2 DEF Compute
<1>5. \A p \in Products :
        (IF p \notin Lines(t) THEN model[t][p]
         ELSE IF t \in Deducts THEN stock[p] - Qty[t][p] ELSE stock[p] + Qty[t][p]) \in Nat
  <2>1. ASSUME NEW p \in Products PROVE model[t][p] \in Nat
    BY <1>1, Typed
  <2>2. ASSUME NEW p \in Lines(t), t \in Deducts PROVE stock[p] - Qty[t][p] \in Nat
    BY <1>3, <2>2
  <2>3. ASSUME NEW p \in Lines(t) PROVE stock[p] + Qty[t][p] \in Nat
    BY <1>3
  <2> QED BY <2>1, <2>2, <2>3
<1>6. TypeOK'
  BY <1>1, <1>4, <1>5 DEF TypeOK, Compute, GoTo, Running
<1>7. ModelInv(t)'
  <2>1. pc'[t] = "writing" /\ Locked(t)' = Locked(t) /\ wrote' = wrote /\ stock' = stock
    BY <1>1 DEF Compute, GoTo, TypeOK, Locked
  <2>2. \A p \in Lines(t) :
          model'[t][p] = IF t \in Deducts THEN stock[p] - Qty[t][p] ELSE stock[p] + Qty[t][p]
    BY <1>1, <1>3, <1>4 DEF TypeOK
  <2>3. Lines(t)' = Lines(t)
    BY DEF Lines
  <2> QED BY <1>1, <1>2, <1>3, <2>1, <2>2, <2>3 DEF ModelInv, Running
<1>8. ASSUME NEW q \in Txs, q # t PROVE ModelInv(q)'
  BY <1>1, <1>4, <1>8, OthersKept DEF TypeOK, Compute, GoTo
<1> QED BY <1>6, <1>7, <1>8 DEF StockInv

\* A transaction that lets go of its rows without a change to the stock.
LEMMA EndedInv ==
  ASSUME StockInv, NEW t \in Txs, NEW s \in Ended,
         GoTo(t, s), lock' = Unlocked(t), UNCHANGED <<stock, model, wrote>>
  PROVE  StockInv'
<1>1. TypeOK /\ ModelInv(t)
  BY DEF StockInv
<1>2. lock' \in [Products -> Txs \cup {NoOne}]
  BY <1>1 DEF TypeOK, Unlocked
<1>3. TypeOK'
  BY <1>1, <1>2 DEF TypeOK, GoTo
<1>4. ModelInv(t)'
  BY <1>1, Typed DEF TypeOK, ModelInv, GoTo, Ended, Running, Locked, Unlocked, Lines
<1>5. ASSUME NEW q \in Txs, q # t PROVE ModelInv(q)'
  <2>1. \A p \in Products : lock'[p] = q <=> lock[p] = q
    BY <1>1, <1>5, Typed DEF Unlocked
  <2> QED BY <1>1, <1>5, <2>1, OthersKept DEF TypeOK, GoTo
<1> QED BY <1>3, <1>4, <1>5 DEF StockInv

LEMMA WriteRowInv == ASSUME StockInv, NEW t \in Txs, WriteRow(t) PROVE StockInv'
<1>1. TypeOK /\ ModelInv(t)
  BY DEF StockInv
<1>2. PICK p \in Lines(t) : wrote' = [wrote EXCEPT ![t] = @ \cup {p}]
  BY DEF WriteRow, First
<1>3. TypeOK'
  BY <1>1, <1>2, Typed DEF TypeOK, WriteRow
<1>4. ModelInv(t)'
  BY <1>1, <1>2 DEF TypeOK, ModelInv, WriteRow, Locked, Lines
<1>5. ASSUME NEW q \in Txs, q # t PROVE ModelInv(q)'
  BY <1>1, <1>2, <1>5, OthersKept DEF TypeOK, WriteRow
<1> QED BY <1>3, <1>4, <1>5 DEF StockInv

\* What a commit makes of the stock.
LEMMA CommitStock ==
  ASSUME StockInv, NEW t \in Txs, Commit(t), NEW p \in Products
  PROVE  /\ stock[p] \in Nat /\ Qty[t][p] \in Nat
         /\ t \in Deducts => /\ stock[p] >= Qty[t][p]
                             /\ stock'[p] = stock[p] - Qty[t][p]
         /\ t \in Restores => stock'[p] = stock[p] + Qty[t][p]
         /\ lock[p] # t => stock'[p] = stock[p]
<1>1. TypeOK /\ ModelInv(t) /\ pc[t] = "writing" /\ wrote[t] = Lines(t)
  BY DEF StockInv, Commit
<1>2. stock[p] \in Nat /\ Qty[t][p] \in Nat
  BY <1>1 DEF TypeOK
<1>3. CASE p \in Lines(t)
  <2>1. /\ IF t \in Deducts
             THEN stock[p] >= Qty[t][p] /\ model[t][p] = stock[p] - Qty[t][p]
             ELSE model[t][p] = stock[p] + Qty[t][p]
        /\ lock[p] = t
    BY <1>1, <1>3 DEF ModelInv, Locked
  <2>2. stock'[p] = model[t][p]
    BY <1>1, <1>3 DEF Commit
  <2> QED BY <1>2, <2>1, <2>2
<1>4. CASE p \notin Lines(t)
  <2>1. Qty[t][p] = 0
    BY <1>2, <1>4 DEF Lines
  <2>2. stock'[p] = stock[p]
    BY <1>1, <1>4 DEF Commit
  <2> QED BY <1>2, <2>1, <2>2
<1> QED BY <1>3, <1>4

LEMMA CommitInv == ASSUME StockInv, NEW t \in Txs, Commit(t) PROVE StockInv'
<1>1. TypeOK /\ ModelInv(t)
  BY DEF StockInv
<1>2. TypeOK'
  <2>1. stock' \in [Products -> Nat]
    <3>1. \A p \in Products : stock'[p] \in Nat
      BY CommitStock DEF Txs
    <3> QED BY <3>1 DEF Commit
  <2>2. lock' \in [Products -> Txs \cup {NoOne}]
    BY <1>1 DEF TypeOK, Commit, Unlocked
  <2> QED BY <1>1, <2>1, <2>2 DEF TypeOK, Commit, GoTo, Ended
<1>3. ModelInv(t)'
  BY <1>1, Typed DEF TypeOK, ModelInv, Commit, GoTo, Running, Locked, Unlocked, Lines
<1>4. ASSUME NEW q \in Txs, q # t PROVE ModelInv(q)'
  <2>1. \A p \in Products : lock'[p] = q <=> lock[p] = q
    BY <1>1, <1>4, Typed DEF Commit, Unlocked
  <2>2. \A p \in Products : lock[p] = q => stock'[p] = stock[p]
    BY <1>4, CommitStock
  <2> QED BY <1>1, <1>4, <2>1, <2>2, OthersKept DEF TypeOK, Commit, GoTo
<1> QED BY <1>2, <1>3, <1>4 DEF StockInv

LEMMA NextInv == StockInv /\ [Next]_vars => StockInv'
<1>1. SUFFICES ASSUME StockInv, [Next]_vars PROVE StockInv'
  OBVIOUS
<1>2. CASE UNCHANGED vars
  BY <1>1, <1>2 DEF vars, StockInv, TypeOK, ModelInv, Locked, Lines
<1>3. ASSUME NEW t \in Txs, OutOfStock(t) \/ Abort(t) PROVE StockInv'
  BY <1>1, <1>3, EndedInv DEF OutOfStock, Abort, Ended
<1>4. ASSUME NEW t \in Txs, Step(t) \/ Abort(t) PROVE StockInv'
  BY <1>1, <1>3, <1>4, BeginInv, LockRowInv, ComputeInv, WriteRowInv, CommitInv DEF Step
<1> QED BY <1>1, <1>2, <1>4 DEF Next

\* What a transaction computed in memory is about the rows it holds, so the
\* absolute values it writes undo nobody's change, and none is negative.
THEOREM ModelsSound == Spec => []StockInv
BY InitInv, NextInv, PTL DEF Spec

-----------------------------------------------------------------------------
\* The books

UnitsOf(S, p) == UNION {{t} \X (1..Qty[t][p]) : t \in S}

LEMMA UnitsFinite ==
  ASSUME NEW S \in SUBSET Txs, NEW p \in Products
  PROVE  IsFiniteSet(UnitsOf(S, p)) /\ Units(S, p) \in Nat
<1> DEFINE of == [t \in S |-> {t} \X (1..Qty[t][p])]
           sets == {{t} \X (1..Qty[t][p]) : t \in S}
<1>1. IsFiniteSet(S)
  BY FS_Subset
<1>2. of \in Surjection(S, sets)
  BY DEF Surjection
<1>3. IsFiniteSet(sets)
  BY <1>1, <1>2, FS_Surjection
<1>4. ASSUME NEW t \in S PROVE IsFiniteSet({t} \X (1..Qty[t][p]))
  <2>1. IsFiniteSet({t})
    BY FS_Singleton
  <2>2. t \in Txs /\ Qty[t][p] \in Nat
    BY <1>4
  <2>3. IsFiniteSet(1..Qty[t][p])
    BY <2>2, FS_Interval
  <2> QED BY <2>1, <2>3, FS_Product
<1>5. IsFiniteSet(UnitsOf(S, p))
  BY <1>3, <1>4, FS_UNION DEF UnitsOf
<1> QED BY <1>5, FS_CardinalityType DEF Units, UnitsOf

\* One transaction more stands for its units more.
LEMMA UnitsOne ==
  ASSUME NEW S \in SUBSET Txs, NEW t \in Txs \ S, NEW p \in Products
  PROVE  Units(S \cup {t}, p) = Units(S, p) + Qty[t][p]
<1> DEFINE own == {t} \X (1..Qty[t][p])
<1>1. IsFiniteSet(UnitsOf(S, p)) /\ Cardinality(UnitsOf(S, p)) \in Nat
  BY UnitsFinite, FS_CardinalityType
<1>2. IsFiniteSet(own) /\ Cardinality(own) = Qty[t][p] /\ Qty[t][p] \in Nat
  <2>0. Qty[t][p] \in Nat
    OBVIOUS
  <2>1. IsFiniteSet({t}) /\ Cardinality({t}) = 1
    BY FS_Singleton
  <2>2. IsFiniteSet(1..Qty[t][p]) /\ Cardinality(1..Qty[t][p]) = Qty[t][p]
    BY <2>0, UpTo
  <2>3. IsFiniteSet(own) /\ Cardinality(own) = Cardinality({t}) * Cardinality(1..Qty[t][p])
    BY <2>1, <2>2, FS_Product
  <2> QED BY <2>0, <2>1, <2>2, <2>3
<1>3. UnitsOf(S \cup {t}, p) = UnitsOf(S, p) \cup own
  BY DEF UnitsOf
<1>4. Cardinality(UnitsOf(S, p) \cap own) = 0
  <2>1. UnitsOf(S, p) \cap own = {}
    BY DEF UnitsOf
  <2> QED BY <2>1, FS_EmptySet
<1>5. Cardinality(UnitsOf(S, p) \cup own) =
        Cardinality(UnitsOf(S, p)) + Cardinality(own) - Cardinality(UnitsOf(S, p) \cap own)
  BY <1>1, <1>2, FS_Union
<1> QED BY <1>1, <1>2, <1>3, <1>4, <1>5 DEF Units, UnitsOf

LEMMA CommitAgrees ==
  ASSUME StockInv, StockAgrees, NEW t \in Txs, Commit(t)
  PROVE  StockAgrees'
<1>1. \A q \in Txs : pc'[q] = IF q = t THEN "committed" ELSE pc[q]
  BY DEF StockInv, TypeOK, Commit, GoTo
<1>2. pc[t] # "committed"
  BY DEF Commit
<1>3. SUFFICES ASSUME NEW p \in Products
               PROVE  stock'[p] = InitStock[p] - Units(Committed(Deducts)', p) + Units(Committed(Restores)', p)
  BY DEF StockAgrees, Units
<1>4. stock[p] = InitStock[p] - Units(Committed(Deducts), p) + Units(Committed(Restores), p)
  BY DEF StockAgrees
<1>5. /\ Committed(Deducts) \in SUBSET Txs /\ Committed(Restores) \in SUBSET Txs
      /\ t \notin Committed(Deducts) /\ t \notin Committed(Restores)
  BY <1>2 DEF Committed, Txs
<1>6. /\ Units(Committed(Deducts), p) \in Nat /\ Units(Committed(Restores), p) \in Nat
      /\ stock[p] \in Nat /\ Qty[t][p] \in Nat /\ InitStock[p] \in Nat
  BY <1>5, UnitsFinite, CommitStock
<1>7. CASE t \in Deducts
  <2>1. Committed(Deducts)' = Committed(Deducts) \cup {t} /\ Committed(Restores)' = Committed(Restores)
    BY <1>1, <1>2, <1>7 DEF Committed, Txs
  <2>2. Units(Committed(Deducts)', p) = Units(Committed(Deducts), p) + Qty[t][p]
    BY <1>5, <2>1, UnitsOne
  <2>3. Units(Committed(Restores)', p) = Units(Committed(Restores), p)
    BY <2>1
  <2>4. stock'[p] = stock[p] - Qty[t][p]
    BY <1>7, CommitStock
  <2> QED BY <1>4, <1>6, <2>2, <2>3, <2>4
<1>8. CASE t \in Restores
  <2>1. Committed(Restores)' = Committed(Restores) \cup {t} /\ Committed(Deducts)' = Committed(Deducts)
    BY <1>1, <1>2, <1>8 DEF Committed, Txs
  <2>2. Units(Committed(Restores)', p) = Units(Committed(Restores), p) + Qty[t][p]
    BY <1>5, <2>1, UnitsOne
  <2>3. Units(Committed(Deducts)', p) = Units(Committed(Deducts), p)
    BY <2>1
  <2>4. stock'[p] = stock[p] + Qty[t][p]
    BY <1>8, CommitStock
  <2> QED BY <1>4, <1>6, <2>2, <2>3, <2>4
<1> QED BY <1>7, <1>8 DEF Txs

\* No update is lost: however the transactions overlap, the stock is what the
\* committed ones make it.
THEOREM StockBooksAgree == Spec => []StockAgrees
<1>1. Init => StockAgrees
  <2>1. SUFFICES ASSUME Init, NEW p \in Products
                 PROVE  stock[p] = InitStock[p] - Units(Committed(Deducts), p) + Units(Committed(Restores), p)
    BY DEF StockAgrees
  <2>2. Committed(Deducts) = {} /\ Committed(Restores) = {} /\ UnitsOf({}, p) = {}
    BY <2>1 DEF Init, Committed, Txs, UnitsOf
  <2>3. Units({}, p) = 0
    BY <2>2, FS_EmptySet DEF Units, UnitsOf
  <2>4. Units(Committed(Deducts), p) = 0 /\ Units(Committed(Restores), p) = 0
    BY <2>2, <2>3
  <2> QED BY <2>1, <2>4 DEF Init
<1>2. ASSUME StockInv, StockAgrees, [Next]_vars PROVE StockAgrees'
  <2>1. CASE stock' = stock /\ \A t \in Txs : pc'[t] = "committed" <=> pc[t] = "committed"
    <3>1. Committed(Deducts)' = Committed(Deducts) /\ Committed(Restores)' = Committed(Restores)
      BY <2>1 DEF Committed, Txs
    <3> QED BY <1>2, <2>1, <3>1 DEF StockAgrees, Units
  <2>2. ASSUME NEW t \in Txs, Step(t) \/ Abort(t), ~Commit(t)
        PROVE  stock' = stock /\ \A q \in Txs : pc'[q] = "committed" <=> pc[q] = "committed"
    <3>1. pc \in [Txs -> {"idle"} \cup Running \cup Ended]
      BY <1>2 DEF StockInv, TypeOK
    <3> QED BY <2>2, <3>1 DEF Step, Begin, LockRow, Compute, HasAllRows, OutOfStock, WriteRow, Abort, GoTo, Running
  <2>3. CASE UNCHANGED vars
    BY <2>1, <2>3 DEF vars
  <2> QED BY <1>2, <2>1, <2>2, <2>3, CommitAgrees DEF Next
<1> QED BY <1>1, <1>2, InitInv, NextInv, PTL DEF Spec

-----------------------------------------------------------------------------
\* No deadlock

LEMMA Least ==
  ASSUME NEW T \in SUBSET Nat, T # {}
  PROVE  \E x \in T : \A y \in T : x <= y
<1>1. PICK x \in T : \A y \in T : ~(<<y, x>> \in OpToRel(<, Nat))
  BY NatLessThanWellFounded, WFMin
<1>2. ASSUME NEW y \in T PROVE x <= y
  <2>1. ~(y < x)
    BY <1>1 DEF OpToRel
  <2> QED BY <2>1
<1> QED BY <1>2

\* A finite set of keys has a greatest one: the one with the fewest above it.
LEMMA Greatest ==
  ASSUME NEW K \in SUBSET Nat, IsFiniteSet(K), K # {}
  PROVE  \E x \in K : \A y \in K : y <= x
<1> DEFINE Above(x) == {y \in K : x < y}
           counts == {Cardinality(Above(x)) : x \in K}
<1>1. ASSUME NEW x \in K
      PROVE  /\ Above(x) \in SUBSET K /\ IsFiniteSet(Above(x)) /\ Cardinality(Above(x)) \in Nat
             /\ \A y \in K : y \in Above(x) <=> x < y
  <2>1. Above(x) \in SUBSET K
    OBVIOUS
  <2> QED BY <2>1, FS_Subset, FS_CardinalityType
<1> HIDE DEF Above
<1>2. counts \in SUBSET Nat /\ counts # {}
  <2>1. ASSUME NEW n \in counts PROVE n \in Nat
    <3>1. PICK x \in K : n = Cardinality(Above(x))
      OBVIOUS
    <3> QED BY <1>1, <3>1
  <2>2. PICK x \in K : TRUE
    OBVIOUS
  <2>3. Cardinality(Above(x)) \in counts
    OBVIOUS
  <2> QED BY <2>1, <2>3
<1>3. PICK x \in K : \A y \in K : Cardinality(Above(x)) <= Cardinality(Above(y))
  <2>1. PICK n \in counts : \A m \in counts : n <= m
    BY <1>2, Least
  <2> QED BY <2>1
<1>4. ASSUME NEW y \in K, x < y PROVE FALSE
  <2>1. ASSUME NEW z \in Above(y) PROVE z \in Above(x)
    <3>1. z \in K /\ y < z
      BY <1>1, <2>1
    <3>2. x < z
      BY <1>4, <3>1
    <3> QED BY <1>1, <3>1, <3>2
  <2>2. y \in Above(x) /\ y \notin Above(y)
    BY <1>1, <1>4
  <2>3. Cardinality(Above(y)) <= Cardinality(Above(x)) /\ Cardinality(Above(x)) # Cardinality(Above(y))
    BY <1>1, <2>1, <2>2, FS_Subset
  <2> QED BY <1>1, <1>3, <2>3
<1> QED BY <1>4

\* The lock is taken in the order of the key, so what t holds stays below what it
\* has yet to ask for.
LEMMA StepInOrder ==
  ASSUME StockInv, RowsInOrder, [Next]_vars
  PROVE  RowsInOrder'
<1>1. TypeOK
  BY DEF StockInv
<1>2. ASSUME NEW t \in Txs, pc'[t] = pc[t], \A p \in Products : lock'[p] = t <=> lock[p] = t,
             pc'[t] = "locking"
      PROVE  (\A p \in Locked(t), q \in Lines(t) \ Locked(t) : p < q)'
  <2>1. Locked(t)' = Locked(t) /\ Lines(t)' = Lines(t)
    BY <1>2 DEF Locked, Lines
  <2> QED BY <1>2, <2>1 DEF RowsInOrder
<1>3. ASSUME NEW u \in Txs, Step(u) \/ Abort(u), NEW t \in Txs, t # u
      PROVE  pc'[t] = pc[t] /\ \A p \in Products : lock'[p] = t <=> lock[p] = t
  <2>1. CASE Begin(u) \/ Compute(u) \/ WriteRow(u)
    BY <1>1, <1>3, <2>1 DEF TypeOK, Begin, Compute, WriteRow, GoTo
  <2>2. CASE LockRow(u)
    BY <1>1, <1>3, <2>2, Typed DEF TypeOK, LockRow
  <2>3. CASE OutOfStock(u) \/ Commit(u) \/ Abort(u)
    BY <1>1, <1>3, <2>3, Typed DEF TypeOK, OutOfStock, Commit, Abort, Unlocked, GoTo
  <2> QED BY <1>3, <2>1, <2>2, <2>3 DEF Step
<1>4. ASSUME NEW t \in Txs, Step(t) \/ Abort(t), pc'[t] = "locking"
      PROVE  (\A p \in Locked(t), q \in Lines(t) \ Locked(t) : p < q)'
  <2>1. CASE Begin(t)
    <3>1. Locked(t) = {}
      BY <2>1 DEF StockInv, ModelInv, Begin, Running
    <3> QED BY <2>1, <3>1 DEF Begin, Locked
  <2>2. CASE LockRow(t)
    <3>1. PICK p \in Products : First(p, Lines(t) \ Locked(t)) /\ lock' = [lock EXCEPT ![p] = t]
      BY <2>2 DEF LockRow
    <3>2. Locked(t)' = Locked(t) \cup {p} /\ Lines(t)' = Lines(t) /\ pc[t] = "locking"
      BY <1>1, <2>2, <3>1 DEF LockRow, TypeOK, Locked, Lines
    <3>3. \A q \in Lines(t) \ (Locked(t) \cup {p}) : p < q
      BY <3>1 DEF First, Lines
    <3> QED BY <3>2, <3>3 DEF RowsInOrder
  <2>3. CASE WriteRow(t)
    BY <1>4, <2>3 DEF WriteRow
  <2>4. CASE Compute(t) \/ OutOfStock(t) \/ Commit(t) \/ Abort(t)
    BY <1>1, <1>4, <2>4 DEF Compute, OutOfStock, Commit, Abort, GoTo, TypeOK
  <2> QED BY <1>4, <2>1, <2>2, <2>3, <2>4 DEF Step
<1>5. CASE UNCHANGED vars
  BY <1>2, <1>5 DEF vars, RowsInOrder
<1>6. ASSUME NEW u \in Txs, Step(u) \/ Abort(u) PROVE RowsInOrder'
  BY <1>2, <1>3, <1>4, <1>6 DEF RowsInOrder
<1> QED BY <1>5, <1>6 DEF Next

\* Each waits for the next at a higher row: the one that waits at the highest row
\* of all waits for nobody who waits himself.
LEMMA OrderedSoNoCycle ==
  ASSUME StockInv, RowsInOrder
  PROVE  NoWaitCycle
<1> SUFFICES ASSUME NEW S \in SUBSET Txs, S # {},
                    \A t \in S : \E u \in S : WaitsFor(t, u)
             PROVE  FALSE
  BY DEF NoWaitCycle
<1> DEFINE rows == {p \in Products : \E t \in S : pc[t] = "locking" /\ First(p, Lines(t) \ Locked(t))}
<1>1. rows \in SUBSET Nat /\ IsFiniteSet(rows)
  BY FS_Subset
<1>2. rows # {}
  BY DEF WaitsFor
<1>3. PICK p \in rows : \A q \in rows : q <= p
  BY <1>1, <1>2, Greatest
<1>4. PICK t \in S : pc[t] = "locking" /\ First(p, Lines(t) \ Locked(t))
  BY <1>3
<1>5. PICK u \in S : WaitsFor(t, u)
  OBVIOUS
<1>6. lock[p] = u /\ pc[u] = "locking"
  <2>1. PICK x \in Products : First(x, Lines(t) \ Locked(t)) /\ lock[x] = u
    BY <1>5 DEF WaitsFor
  <2>2. x = p
    BY <1>4, <2>1 DEF First, Lines
  <2> QED BY <2>1, <2>2 DEF WaitsFor
<1>7. PICK q \in Products : First(q, Lines(u) \ Locked(u))
  BY DEF WaitsFor
<1>8. p \in Locked(u) /\ q \in Lines(u) \ Locked(u)
  BY <1>6, <1>7 DEF Locked, First
<1>9. p < q
  BY <1>6, <1>8 DEF RowsInOrder
<1>10. q \in rows /\ p \in Nat /\ q \in Nat
  BY <1>6, <1>7
<1> HIDE DEF rows
<1> QED BY <1>3, <1>9, <1>10

\* findByIdsWithXLock locks the rows of an order in the order of the key: however the
\* orders overlap, and whatever their lines, no transactions wait in a circle.
THEOREM NeverDeadlocked == Spec => []NoWaitCycle
<1>1. Init => RowsInOrder
  BY DEF Init, RowsInOrder
<1>2. StockInv /\ RowsInOrder /\ [Next]_vars => StockInv' /\ RowsInOrder'
  BY NextInv, StepInOrder
<1>3. StockInv /\ RowsInOrder => NoWaitCycle
  BY OrderedSoNoCycle
<1> QED BY <1>1, <1>2, <1>3, InitInv, PTL DEF Spec

-----------------------------------------------------------------------------
\* The refinement

outcomes == [t \in Txs |-> Outcome(t)]

LEMMA AbstractTxs == Atomic!Txs = Txs
BY DEF Atomic!Txs, Txs

ResultOf(s) ==
  CASE s = "committed"  -> "done"
    [] s = "outOfStock" -> "outOfStock"
    [] s = "aborted"    -> "failed"
    [] OTHER -> "none"

\* What a step of transaction t does to the abstract outcomes.
LEMMA OutcomesMove ==
  ASSUME TypeOK, NEW t \in Txs, NEW s, GoTo(t, s)
  PROVE  outcomes' = [outcomes EXCEPT ![t] = ResultOf(s)]
<1>1. \A q \in Txs : pc'[q] = IF q = t THEN s ELSE pc[q]
  BY DEF TypeOK, GoTo
<1>2. \A q \in Txs : Outcome(q)' = IF q = t THEN ResultOf(s) ELSE Outcome(q)
  BY <1>1 DEF Outcome, ResultOf
<1> QED BY <1>2 DEF outcomes

\* A deduction takes effect when it commits and is turned away where it finds
\* some line short; a restoration when it commits; the rest stutters.
LEMMA StepRefines ==
  ASSUME StockInv, NEW t \in Txs, Step(t) \/ Abort(t)
  PROVE  Atomic!Next \/ UNCHANGED <<stock, outcomes>>
<1>0. TypeOK /\ ModelInv(t) /\ outcomes[t] = Outcome(t)
  BY DEF StockInv, outcomes
<1>1. CASE LockRow(t) \/ WriteRow(t)
  BY <1>1 DEF LockRow, WriteRow, outcomes, Outcome
<1>2. CASE Begin(t) \/ Compute(t)
  <2>1. stock' = stock /\ outcomes[t] = "none"
    BY <1>0, <1>2 DEF Begin, Compute, HasAllRows, Outcome
  <2>2. PICK s \in Running : GoTo(t, s)
    BY <1>2 DEF Begin, Compute, Running
  <2>3. outcomes' = [outcomes EXCEPT ![t] = "none"]
    BY <1>0, <2>2, OutcomesMove DEF ResultOf, Running
  <2> QED BY <2>1, <2>3 DEF outcomes
<1>3. CASE OutOfStock(t)
  <2>1. outcomes[t] = "none"
    BY <1>0, <1>3 DEF OutOfStock, HasAllRows, Outcome
  <2>2. outcomes' = [outcomes EXCEPT ![t] = "outOfStock"]
    BY <1>0, <1>3, OutcomesMove DEF OutOfStock, ResultOf
  <2>3. PICK p \in Lines(t) : ~(model[t][p] >= Qty[t][p])
    BY <1>3 DEF OutOfStock, InStock
  <2>4. p \in Products /\ model[t][p] = stock[p]
    BY <1>0, <1>3, <2>3 DEF OutOfStock, HasAllRows, ModelInv, Lines
  <2>5. ~Atomic!InStock(t)
    BY <2>3, <2>4 DEF Atomic!InStock
  <2>6. Atomic!OutOfStock(t)
    BY <1>3, <2>1, <2>2, <2>5 DEF OutOfStock, Atomic!OutOfStock, Atomic!End, outcomes
  <2> QED BY <2>6, AbstractTxs DEF Atomic!Next
<1>4. CASE Abort(t)
  <2>1. outcomes[t] = "none"
    BY <1>0, <1>4 DEF Abort, Running, Outcome
  <2>2. outcomes' = [outcomes EXCEPT ![t] = "failed"]
    BY <1>0, <1>4, OutcomesMove DEF Abort, ResultOf
  <2>3. Atomic!Fail(t)
    BY <1>4, <2>1, <2>2 DEF Abort, Atomic!Fail, Atomic!End, outcomes
  <2> QED BY <2>3, AbstractTxs DEF Atomic!Next
<1>5. CASE Commit(t)
  <2>1. outcomes[t] = "none"
    BY <1>0, <1>5 DEF Commit, Outcome
  <2>2. outcomes' = [outcomes EXCEPT ![t] = "done"]
    BY <1>0, <1>5, OutcomesMove DEF Commit, ResultOf
  <2>3. Atomic!End(t, "done")
    BY <2>1, <2>2 DEF Atomic!End, outcomes
  <2>4. stock' = [p \in Products |-> stock'[p]]
    BY <1>5 DEF Commit
  <2>5. CASE t \in Deducts
    <3>1. Atomic!InStock(t)
      BY <1>5, <2>5, CommitStock DEF Atomic!InStock
    <3>2. stock' = [p \in Products |-> stock[p] - Qty[t][p]]
      BY <1>5, <2>4, <2>5, CommitStock
    <3>3. Atomic!Deduct(t)
      BY <2>3, <2>5, <3>1, <3>2 DEF Atomic!Deduct
    <3> QED BY <3>3, AbstractTxs DEF Atomic!Next
  <2>6. CASE t \in Restores
    <3>1. stock' = [p \in Products |-> stock[p] + Qty[t][p]]
      BY <1>5, <2>4, <2>6, CommitStock
    <3>2. Atomic!Restore(t)
      BY <2>3, <2>6, <3>1 DEF Atomic!Restore
    <3> QED BY <3>2, AbstractTxs DEF Atomic!Next
  <2> QED BY <2>5, <2>6 DEF Txs
<1> QED BY <1>1, <1>2, <1>3, <1>4, <1>5 DEF Step

\* Every behaviour of the row-by-row transactions is one of AtomicStock: each
\* order is taken at one moment, in full, from stock that had it.
THEOREM StockIsAtomic == Spec => ImplementsAtomicStock
<1>1. Init => Atomic!Init
  BY AbstractTxs DEF Init, Atomic!Init, Outcome
<1>2. StockInv /\ [Next]_vars => [Atomic!Next]_<<stock, outcomes>>
  <2>1. SUFFICES ASSUME StockInv, [Next]_vars
                 PROVE  Atomic!Next \/ UNCHANGED <<stock, outcomes>>
    OBVIOUS
  <2>2. CASE UNCHANGED vars
    BY <2>2 DEF vars, outcomes, Outcome
  <2> QED BY <2>1, <2>2, StepRefines DEF Next
<1>3. StockInv /\ [Next]_vars => StockInv'
  BY NextInv
<1> QED BY <1>1, <1>2, <1>3, InitInv, PTL DEF Spec, ImplementsAtomicStock, Atomic!Spec, outcomes
=============================================================================

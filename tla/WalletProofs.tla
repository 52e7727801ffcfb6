---------------------------- MODULE WalletProofs ----------------------------
(***************************************************************************)
(* Proofs about Wallet, for any requests and amounts: the inductive        *)
(* invariant WalletInv, no overdraft, conflicts have a winner, and the     *)
(* refinement of AtomicWallet.                                             *)
(***************************************************************************)
EXTENDS Wallet, FiniteSetTheorems, TLAPS

USE RequestsAssumption

\* A committed payment took points that were there, a charge added some.
Inv == WalletInv /\ NeverOverdrawn

LEMMA InitInv == Init => Inv
<1>1. SUFFICES ASSUME Init PROVE Inv
  OBVIOUS
<1>2. TypeOK
  BY <1>1 DEF Init, TypeOK, Row
<1>3. SnapshotInv /\ HolderInv /\ RowInv
  BY <1>1 DEF Init, SnapshotInv, HolderInv, RowInv, Requests, Done
<1>4. VersionCountsCommits
  BY <1>1, FS_EmptySet DEF Init, VersionCountsCommits, Done
<1>5. NeverOverdrawn
  BY <1>1 DEF Init, NeverOverdrawn
<1> QED BY <1>2, <1>3, <1>4, <1>5 DEF Inv, WalletInv

\* A step that changes neither the row nor the points, and commits nobody.
LEMMA VersionKept ==
  ASSUME TypeOK, VersionCountsCommits, UNCHANGED <<wallet, points>>,
         NEW r \in Requests, NEW p \in {"idle"} \cup Running \cup Failed,
         pc[r] \notin Done, GoTo(r, p)
  PROVE  VersionCountsCommits'
BY DEF TypeOK, VersionCountsCommits, GoTo, Running, Failed, Ended, Done

LEMMA ReadInv == ASSUME Inv, NEW r \in Requests, Read(r) PROVE Inv'
<1>1. TypeOK'
  BY DEF Inv, WalletInv, TypeOK, Read, GoTo, Running, Ended, Failed, Done
<1>2. SnapshotInv'
  BY DEF Inv, WalletInv, TypeOK, SnapshotInv, Row, Read, GoTo
<1>3. HolderInv' /\ RowInv'
  BY DEF Inv, WalletInv, TypeOK, HolderInv, RowInv, Stored, Done, Payable, Row, Read, GoTo
<1>4. VersionCountsCommits'
  BY VersionKept DEF Inv, WalletInv, Read, Running, Done
<1>5. NeverOverdrawn'
  BY DEF Inv, NeverOverdrawn, Read
<1> QED BY <1>1, <1>2, <1>3, <1>4, <1>5 DEF Inv, WalletInv

LEMMA RefuseInv == ASSUME Inv, NEW r \in Requests, Refuse(r) PROVE Inv'
<1>1. TypeOK'
  BY DEF Inv, WalletInv, TypeOK, Refuse, GoTo, Running, Ended, Failed, Done
<1>2. SnapshotInv'
  BY DEF Inv, WalletInv, SnapshotInv, Refuse
<1>3. HolderInv' /\ RowInv'
  BY DEF Inv, WalletInv, TypeOK, HolderInv, RowInv, Stored, Done, Payable, Refuse, GoTo
<1>4. VersionCountsCommits'
  BY VersionKept DEF Inv, WalletInv, Refuse, Failed, Done
<1>5. NeverOverdrawn'
  BY DEF Inv, NeverOverdrawn, Refuse
<1> QED BY <1>1, <1>2, <1>3, <1>4, <1>5 DEF Inv, WalletInv

LEMMA CreatePointInv == ASSUME Inv, NEW r \in Requests, CreatePoint(r) PROVE Inv'
<1>1. TypeOK'
  <2>1. Stored(r) \subseteq Nat
    BY DEF Stored
  <2> QED BY <2>1 DEF Inv, WalletInv, TypeOK, CreatePoint, GoTo, Running, Ended, Failed, Done
<1>2. SnapshotInv'
  BY DEF Inv, WalletInv, SnapshotInv, CreatePoint
<1>3. HolderInv' /\ RowInv'
  BY DEF Inv, WalletInv, TypeOK, HolderInv, RowInv, Stored, Done, Payable, CreatePoint, GoTo
<1>4. VersionCountsCommits'
  BY VersionKept DEF Inv, WalletInv, CreatePoint, Running, Done
<1>5. NeverOverdrawn'
  BY DEF Inv, NeverOverdrawn, CreatePoint
<1> QED BY <1>1, <1>2, <1>3, <1>4, <1>5 DEF Inv, WalletInv

LEMMA UpdateInv == ASSUME Inv, NEW r \in Requests, Update(r) PROVE Inv'
<1>1. TypeOK'
  BY DEF Inv, WalletInv, TypeOK, Update, GoTo, Running, Ended, Failed, Done
<1>2. SnapshotInv'
  BY DEF Inv, WalletInv, SnapshotInv, Update
<1>3. HolderInv' /\ RowInv'
  BY DEF Inv, WalletInv, TypeOK, HolderInv, RowInv, Stored, Done, Payable, Update, AtUpdate, GoTo
<1>4. VersionCountsCommits'
  BY VersionKept DEF Inv, WalletInv, Update, AtUpdate, Running, Done
<1>5. NeverOverdrawn'
  BY DEF Inv, NeverOverdrawn, Update
<1> QED BY <1>1, <1>2, <1>3, <1>4, <1>5 DEF Inv, WalletInv

LEMMA ConflictInv == ASSUME Inv, NEW r \in Requests, Conflict(r) PROVE Inv'
<1>1. TypeOK'
  BY DEF Inv, WalletInv, TypeOK, Conflict, GoTo, Running, Ended, Failed, Done
<1>2. SnapshotInv'
  BY DEF Inv, WalletInv, SnapshotInv, Conflict
<1>3. HolderInv' /\ RowInv'
  BY DEF Inv, WalletInv, TypeOK, HolderInv, RowInv, Stored, Done, Payable, Conflict, GoTo
<1>4. VersionCountsCommits'
  BY VersionKept DEF Inv, WalletInv, Conflict, AtUpdate, Failed, Done
<1>5. NeverOverdrawn'
  BY DEF Inv, NeverOverdrawn, Conflict
<1> QED BY <1>1, <1>2, <1>3, <1>4, <1>5 DEF Inv, WalletInv

\* The holder's snapshot is the row, so what it writes is the row's total plus
\* or minus its amount, and for a payment that is not below zero.
LEMMA CommitTotal ==
  ASSUME Inv, NEW r \in Requests, AtCommit(r)
  PROVE  /\ read[r] = wallet
         /\ wallet.total \in Nat
         /\ r \in Charges => NewTotals(r) = {wallet.total + amount : amount \in Stored(r)}
         /\ r \in Payments => /\ wallet.total >= Amount[r]
                              /\ NewTotals(r) = {wallet.total - Amount[r]}
         /\ NewTotals(r) \subseteq Nat
<1>1. read[r] = wallet
  BY DEF Inv, WalletInv, SnapshotInv, HolderInv, AtCommit
<1>2. wallet.total \in Nat /\ Amount[r] \in Nat
  BY DEF Inv, WalletInv, TypeOK, Row, NeverOverdrawn
<1>3. r \in Payments => wallet.total >= Amount[r]
  BY <1>1 DEF Inv, WalletInv, HolderInv, AtCommit, Payable, Requests
<1>4. Stored(r) \subseteq Nat
  BY <1>2 DEF Stored
<1>5. r \in Payments => r \notin Charges
  OBVIOUS
<1>6. CASE r \in Charges
  <2>1. NewTotals(r) = {wallet.total + amount : amount \in Stored(r)}
    BY <1>1, <1>6 DEF NewTotals
  <2> QED BY <1>1, <1>2, <1>3, <1>4, <1>5, <1>6, <2>1
<1>7. CASE r \in Payments
  <2>1. NewTotals(r) = {wallet.total - Amount[r]}
    BY <1>1, <1>5, <1>7 DEF NewTotals
  <2> QED BY <1>1, <1>2, <1>3, <1>5, <1>7, <2>1
<1> QED BY <1>6, <1>7 DEF Requests

LEMMA CommitInv == ASSUME Inv, NEW r \in Requests, Commit(r) PROVE Inv'
<1>1. AtCommit(r) /\ r \notin points /\ wallet \in Row /\ wallet' \in Row
  <2>1. AtCommit(r) /\ wallet \in Row
    BY DEF Commit, Inv, WalletInv, TypeOK
  <2>2. r \notin points
    BY DEF Commit, AtCommit, Inv, WalletInv, VersionCountsCommits, Done
  <2> QED BY <2>1, <2>2, CommitTotal DEF Commit, Row
<1>2. TypeOK'
  BY <1>1 DEF Inv, WalletInv, TypeOK, Commit, GoTo, Running, Ended, Failed, Done
<1>3. SnapshotInv'
  BY <1>1 DEF Inv, WalletInv, TypeOK, SnapshotInv, Row, Commit
<1>4. HolderInv' /\ RowInv'
  <2>1. booked[r] \in Stored(r)
    BY <1>1 DEF Inv, WalletInv, RowInv, AtCommit, Requests
  <2>2. HolderInv'
    BY DEF Inv, WalletInv, TypeOK, HolderInv, Payable, Commit, GoTo, Done
  <2>3. RowInv'
    BY <2>1 DEF Inv, WalletInv, TypeOK, RowInv, Stored, Commit, GoTo, Done
  <2> QED BY <2>2, <2>3
<1>5. VersionCountsCommits'
  <2>1. IsFiniteSet(points)
    BY FS_Subset DEF Inv, WalletInv, TypeOK
  <2>2. Cardinality(points') = Cardinality(points) + 1
    BY <1>1, <2>1, FS_AddElement DEF Commit
  <2>3. wallet'.version = Cardinality(points')
    BY <1>1, <2>2 DEF Commit, Inv, WalletInv, VersionCountsCommits, Row
  <2>4. PICK end \in Done : pc' = [pc EXCEPT ![r] = end]
    BY DEF Commit, GoTo
  <2>5. \A q \in Requests : pc'[q] \in Done <=> q \in points'
    BY <2>4 DEF Commit, Inv, WalletInv, TypeOK, VersionCountsCommits
  <2> QED BY <2>3, <2>5 DEF VersionCountsCommits
<1>6. NeverOverdrawn'
  BY <1>1, CommitTotal DEF Commit, NeverOverdrawn
<1> QED BY <1>2, <1>3, <1>4, <1>5, <1>6 DEF Inv, WalletInv

LEMMA AbortInv == ASSUME Inv, NEW r \in Requests, Abort(r) PROVE Inv'
<1>1. TypeOK'
  BY DEF Inv, WalletInv, TypeOK, Abort, GoTo, Running, Ended, Failed, Done
<1>2. SnapshotInv'
  BY DEF Inv, WalletInv, SnapshotInv, Abort
<1>3. HolderInv' /\ RowInv'
  BY DEF Inv, WalletInv, TypeOK, HolderInv, RowInv, Stored, Done, Payable, Abort, GoTo
<1>4. VersionCountsCommits'
  BY VersionKept DEF Inv, WalletInv, Abort, Running, Failed, Done
<1>5. NeverOverdrawn'
  BY DEF Inv, NeverOverdrawn, Abort
<1> QED BY <1>1, <1>2, <1>3, <1>4, <1>5 DEF Inv, WalletInv

LEMMA NextInv == Inv /\ [Next]_vars => Inv'
<1>1. SUFFICES ASSUME Inv, [Next]_vars PROVE Inv'
  OBVIOUS
<1>2. CASE UNCHANGED vars
  BY <1>1, <1>2 DEF vars, Inv, WalletInv, TypeOK, SnapshotInv, HolderInv, RowInv, Payable,
                    VersionCountsCommits, NeverOverdrawn
<1>3. ASSUME NEW r \in Requests, Step(r) \/ Abort(r) PROVE Inv'
  BY <1>1, <1>3, ReadInv, RefuseInv, CreatePointInv, UpdateInv, ConflictInv,
     CommitInv, AbortInv DEF Step
<1> QED BY <1>1, <1>2, <1>3 DEF Next

\* The inductive invariant: a transaction that holds the row's lock has read
\* the row as it is, so its update never overwrites another one.
THEOREM SnapshotsSound == Spec => []WalletInv
<1>1. Inv /\ [Next]_vars => Inv'
  BY NextInv
<1> QED BY <1>1, InitInv, PTL DEF Spec, Inv

\* However many payments read the wallet at once, it is never overdrawn.
THEOREM WalletNeverOverdrawn == Spec => []NeverOverdrawn
<1>1. Inv /\ [Next]_vars => Inv'
  BY NextInv
<1> QED BY <1>1, InitInv, PTL DEF Spec, Inv

\* A conflict is an earlier reader's: someone else committed meanwhile.
LEMMA ConflictStep ==
  ASSUME Inv, Inv', ConflictHasWinner, [Next]_vars
  PROVE  ConflictHasWinner'
<1>1. CASE UNCHANGED vars
  BY <1>1 DEF vars, ConflictHasWinner
<1>2. ASSUME NEW r \in Requests, Step(r) \/ Abort(r) PROVE ConflictHasWinner'
  <2>1. SUFFICES ASSUME NEW q \in Requests, pc'[q] = "conflict"
                 PROVE  /\ wallet'.version > read'[q].version
                        /\ \E w \in points' : w # q
    BY DEF ConflictHasWinner
  <2>2. pc \in [Requests -> {"idle"} \cup Running \cup Ended] /\ wallet \in Row /\ read \in [Requests -> Row]
    BY DEF Inv, WalletInv, TypeOK
  <2>3. CASE Conflict(r) /\ q = r
    <3>1. wallet.version > read[r].version
      <4>1. wallet.version \in Nat /\ read[r].version \in Nat
        BY <2>2 DEF Row
      <4>2. read[r].version <= wallet.version
        BY DEF Inv, WalletInv, SnapshotInv
      <4>3. wallet.version # read[r].version
        BY <2>3 DEF Conflict
      <4> QED BY <4>1, <4>2, <4>3
    <3>2. points # {}
      <4>1. wallet.version = Cardinality(points) /\ wallet.version # 0
        BY <3>1, <2>2 DEF Inv, WalletInv, VersionCountsCommits, Row
      <4> QED BY <4>1, FS_EmptySet
    <3>3. r \notin points
      BY <2>3 DEF Conflict, AtUpdate, Inv, WalletInv, VersionCountsCommits, Done
    <3> QED BY <2>3, <3>1, <3>2, <3>3 DEF Conflict
  <2>4. CASE ~(Conflict(r) /\ q = r)
    <3>1. pc[q] = "conflict" /\ read'[q] = read[q]
      BY <1>2, <2>1, <2>2, <2>4 DEF Step, Read, Refuse, CreatePoint, Update, Conflict,
         Commit, Abort, GoTo, Done
    <3>2. points \subseteq points' /\ (wallet'.version = wallet.version \/ wallet'.version = wallet.version + 1)
      BY <1>2, <2>2 DEF Step, Read, Refuse, CreatePoint, Update, Conflict, Commit, Abort, Row
    <3> QED BY <3>1, <3>2, <2>2 DEF ConflictHasWinner, Row
  <2> QED BY <2>3, <2>4
<1> QED BY <1>1, <1>2 DEF Next

\* First committer wins: requests never defeat one another without a winner.
THEOREM FirstCommitterWins == Spec => []ConflictHasWinner
<1>1. Inv /\ [Next]_vars => Inv'
  BY NextInv
<1>2. Init => ConflictHasWinner
  BY DEF Init, ConflictHasWinner
<1>3. Inv /\ Inv' /\ ConflictHasWinner /\ [Next]_vars => ConflictHasWinner'
  BY ConflictStep
<1> QED BY <1>1, <1>2, <1>3, InitInv, PTL DEF Spec

-----------------------------------------------------------------------------
\* The ledger

PointsOf(S, rows) == UNION {{r} \X (1..rows[r]) : r \in S}

LEMMA PointsFinite ==
  ASSUME NEW S \in SUBSET Requests, NEW rows \in [Requests -> Nat]
  PROVE  IsFiniteSet(PointsOf(S, rows))
<1> DEFINE of == [r \in S |-> {r} \X (1..rows[r])]
           sets == {{r} \X (1..rows[r]) : r \in S}
<1>1. IsFiniteSet(S)
  BY FS_Subset
<1>2. of \in Surjection(S, sets)
  BY DEF Surjection
<1>3. IsFiniteSet(sets)
  BY <1>1, <1>2, FS_Surjection
<1>4. ASSUME NEW r \in S PROVE IsFiniteSet({r} \X (1..rows[r]))
  <2>1. IsFiniteSet({r}) /\ rows[r] \in Nat
    BY FS_Singleton
  <2>2. IsFiniteSet(1..rows[r])
    BY <2>1, FS_Interval
  <2> QED BY <2>1, <2>2, FS_Product
<1> QED BY <1>3, <1>4, FS_UNION DEF PointsOf

\* One request more stands for what its row says more.
LEMMA BookedOne ==
  ASSUME TypeOK, NEW S \in SUBSET Requests, NEW r \in Requests \ S
  PROVE  Booked(S) \in Nat /\ Booked(S \cup {r}) = Booked(S) + booked[r]
<1> DEFINE own == {r} \X (1..booked[r])
<1>0. booked \in [Requests -> Nat] /\ booked[r] \in Nat
  BY DEF TypeOK
<1>1. IsFiniteSet(PointsOf(S, booked)) /\ Cardinality(PointsOf(S, booked)) \in Nat
  BY <1>0, PointsFinite, FS_CardinalityType
<1>2. IsFiniteSet(own) /\ Cardinality(own) = booked[r]
  <2>1. IsFiniteSet({r}) /\ Cardinality({r}) = 1
    BY FS_Singleton
  <2>2. IsFiniteSet(1..booked[r]) /\ Cardinality(1..booked[r]) = booked[r]
    BY <1>0, FS_Interval
  <2>3. IsFiniteSet(own) /\ Cardinality(own) = Cardinality({r}) * Cardinality(1..booked[r])
    BY <2>1, <2>2, FS_Product
  <2> QED BY <1>0, <2>1, <2>2, <2>3
<1>3. PointsOf(S \cup {r}, booked) = PointsOf(S, booked) \cup own
  BY DEF PointsOf
<1>4. PointsOf(S, booked) \cap own = {}
  BY DEF PointsOf
<1>5. Cardinality(PointsOf(S, booked) \cup own) = Cardinality(PointsOf(S, booked)) + Cardinality(own)
  <2>1. Cardinality(PointsOf(S, booked) \cap own) = 0
    BY <1>4, FS_EmptySet
  <2>2. Cardinality(PointsOf(S, booked) \cup own) =
          Cardinality(PointsOf(S, booked)) + Cardinality(own) - Cardinality(PointsOf(S, booked) \cap own)
    BY <1>1, <1>2, FS_Union
  <2> QED BY <1>0, <1>1, <1>2, <2>1, <2>2
<1> QED BY <1>1, <1>2, <1>3, <1>5 DEF Booked, PointsOf

\* The rows of committed requests do not change any more.
LEMMA BookedStays ==
  ASSUME TypeOK, NEW S \in SUBSET Requests, \A r \in S : booked'[r] = booked[r]
  PROVE  Booked(S)' = Booked(S)
BY DEF Booked

\* The set of charges with a half that are committed, one request further.
LEMMA HalvesGrow ==
  ASSUME NEW S \in SUBSET Requests, NEW r \in Requests \ S
  PROVE  /\ Cardinality(S \cap Halves) \in Nat
         /\ r \in Halves =>
              Cardinality((S \cup {r}) \cap Halves) = Cardinality(S \cap Halves) + 1
         /\ r \notin Halves => (S \cup {r}) \cap Halves = S \cap Halves
<1>1. IsFiniteSet(S \cap Halves)
  BY FS_Subset
<1>2. Cardinality(S \cap Halves) \in Nat
  BY <1>1, FS_CardinalityType
<1>3. ASSUME r \in Halves
      PROVE  Cardinality((S \cup {r}) \cap Halves) = Cardinality(S \cap Halves) + 1
  <2>1. (S \cup {r}) \cap Halves = (S \cap Halves) \cup {r} /\ r \notin S \cap Halves
    BY <1>3
  <2> QED BY <1>1, <2>1, FS_AddElement
<1> QED BY <1>2, <1>3

LEMMA LedgerStep ==
  ASSUME Inv, LedgerAgrees, [Next]_vars
  PROVE  LedgerAgrees'
<1> DEFINE charged == Booked(points \cap Charges)
           paid == Booked(points \cap Payments)
           halves == Cardinality(points \cap Halves)
<1>0. TypeOK /\ points \subseteq Requests /\ wallet.total \in Nat
  BY DEF Inv, WalletInv, TypeOK, NeverOverdrawn, Row
<1>1. charged \in Nat /\ paid \in Nat /\ halves \in Nat /\ InitPoint \in Nat
  <2>1. IsFiniteSet(points \cap Halves)
    BY <1>0, FS_Subset
  <2>2. booked \in [Requests -> Nat] /\ points \cap Charges \in SUBSET Requests
        /\ points \cap Payments \in SUBSET Requests
    BY <1>0 DEF TypeOK
  <2> QED BY <2>1, <2>2, PointsFinite, FS_CardinalityType DEF Booked, PointsOf
<1>2. /\ wallet.total >= InitPoint + charged - paid - halves
      /\ wallet.total <= InitPoint + charged - paid + halves
  BY <1>0, <1>1 DEF LedgerAgrees
<1>3. CASE UNCHANGED <<wallet, points>> /\ \A r \in points : booked'[r] = booked[r]
  <2>1. Booked(points \cap Charges)' = charged /\ Booked(points \cap Payments)' = paid
    BY <1>0, <1>3, BookedStays
  <2> QED BY <1>3, <2>1 DEF LedgerAgrees
<1>4. ASSUME NEW r \in Requests, Commit(r) PROVE LedgerAgrees'
  <2>1. AtCommit(r) /\ r \notin points /\ points' = points \cup {r} /\ booked' = booked
    BY <1>4 DEF Commit, AtCommit, Inv, WalletInv, VersionCountsCommits, Done
  <2>2. PICK total \in NewTotals(r) : wallet'.total = total
    BY <1>4 DEF Commit
  <2>3. Amount[r] \in Nat /\ booked[r] \in Nat
    BY <1>0 DEF TypeOK
  <2>4. booked[r] \in Stored(r)
    BY <2>1 DEF Inv, WalletInv, RowInv, AtCommit, Requests
  <2>5. ASSUME NEW c \in Nat, NEW p \in Nat, NEW h \in Nat,
               Booked(points \cap Charges)' = c, Booked(points \cap Payments)' = p,
               Cardinality(points \cap Halves)' = h,
               wallet'.total \in Nat,
               wallet'.total >= InitPoint + c - p - h, wallet'.total <= InitPoint + c - p + h
        PROVE  LedgerAgrees'
    BY <1>1, <2>5 DEF LedgerAgrees
  <2>6. CASE r \in Charges
    <3>1. points' \cap Charges = (points \cap Charges) \cup {r} /\ points' \cap Payments = points \cap Payments
      BY <2>1, <2>6
    <3>2. Booked(points' \cap Charges) = charged + booked[r]
      BY <1>0, <2>1, <3>1, BookedOne
    <3>3. Booked(points \cap Charges)' = charged + booked[r] /\ Booked(points \cap Payments)' = paid
      BY <2>1, <3>1, <3>2 DEF Booked
    <3>4. PICK amount \in Stored(r) : wallet'.total = wallet.total + amount
      BY <2>1, <2>2, <2>6, CommitTotal
    <3>5. CASE r \in Halves
      <4>1. Cardinality(points \cap Halves)' = halves + 1
        BY <1>0, <2>1, <3>5, HalvesGrow
      <4>2. amount \in Amount[r] .. Amount[r] + 1 /\ booked[r] \in Amount[r] .. Amount[r] + 1
        BY <2>3, <2>4, <3>4, <3>5 DEF Stored
      <4>3. wallet'.total >= InitPoint + (charged + booked[r]) - paid - (halves + 1)
        BY <1>0, <1>1, <1>2, <2>3, <3>4, <4>2
      <4>4. wallet'.total <= InitPoint + (charged + booked[r]) - paid + (halves + 1)
        BY <1>0, <1>1, <1>2, <2>3, <3>4, <4>2
      <4>5. wallet'.total \in Nat /\ charged + booked[r] \in Nat /\ halves + 1 \in Nat
        BY <1>0, <1>1, <2>3, <3>4, <4>2
      <4> QED BY <1>1, <2>5, <3>3, <4>1, <4>3, <4>4, <4>5
    <3>6. CASE r \notin Halves
      <4>1. Cardinality(points \cap Halves)' = halves
        BY <1>0, <2>1, <3>6, HalvesGrow
      <4>2. amount = Amount[r] /\ booked[r] = Amount[r]
        BY <2>4, <3>4, <3>6 DEF Stored
      <4>3. wallet'.total >= InitPoint + (charged + booked[r]) - paid - halves
        BY <1>0, <1>1, <1>2, <2>3, <3>4, <4>2
      <4>4. wallet'.total <= InitPoint + (charged + booked[r]) - paid + halves
        BY <1>0, <1>1, <1>2, <2>3, <3>4, <4>2
      <4>5. wallet'.total \in Nat /\ charged + booked[r] \in Nat
        BY <1>0, <1>1, <2>3, <3>4, <4>2
      <4> QED BY <1>1, <2>5, <3>3, <4>1, <4>3, <4>4, <4>5
    <3> QED BY <3>5, <3>6
  <2>7. CASE r \in Payments
    <3>1. points' \cap Payments = (points \cap Payments) \cup {r} /\ points' \cap Charges = points \cap Charges
      BY <2>1, <2>7
    <3>2. Booked(points' \cap Payments) = paid + booked[r]
      BY <1>0, <2>1, <3>1, BookedOne
    <3>3. Booked(points \cap Payments)' = paid + booked[r] /\ Booked(points \cap Charges)' = charged
      BY <2>1, <3>1, <3>2 DEF Booked
    <3>4. r \notin Halves
      BY <2>7
    <3>5. Cardinality(points \cap Halves)' = halves /\ booked[r] = Amount[r]
      BY <1>0, <2>1, <2>4, <3>4, HalvesGrow DEF Stored
    <3>6. wallet'.total = wallet.total - Amount[r] /\ wallet.total >= Amount[r]
      BY <2>1, <2>2, <2>7, CommitTotal
    <3>7. wallet'.total >= InitPoint + charged - (paid + booked[r]) - halves
      BY <1>0, <1>1, <1>2, <2>3, <3>5, <3>6
    <3>8. wallet'.total <= InitPoint + charged - (paid + booked[r]) + halves
      BY <1>0, <1>1, <1>2, <2>3, <3>5, <3>6
    <3>9. wallet'.total \in Nat /\ paid + booked[r] \in Nat
      BY <1>0, <1>1, <2>3, <3>6
    <3> QED BY <1>1, <2>5, <3>3, <3>5, <3>7, <3>8, <3>9
  <2> QED BY <2>6, <2>7 DEF Requests
<1>5. ASSUME NEW r \in Requests, CreatePoint(r) PROVE LedgerAgrees'
  <2>1. r \notin points
    BY <1>5 DEF CreatePoint, Inv, WalletInv, VersionCountsCommits, Done
  <2>2. UNCHANGED <<wallet, points>> /\ \A q \in points : booked'[q] = booked[q]
    BY <1>0, <1>5, <2>1 DEF CreatePoint, TypeOK
  <2> QED BY <1>3, <2>2
<1>6. ASSUME NEW r \in Requests, Read(r) \/ Refuse(r) \/ Update(r) \/ Conflict(r) \/ Abort(r)
      PROVE  LedgerAgrees'
  BY <1>3, <1>6 DEF Read, Refuse, Update, Conflict, Abort
<1> QED BY <1>3, <1>4, <1>5, <1>6 DEF Next, Step, vars

\* No update is lost: however the transactions overlap, the total is what the
\* committed point rows add up to, halves of a hundredth aside.
THEOREM LedgerHolds == Spec => []LedgerAgrees
<1>1. Init => LedgerAgrees
  <2>1. SUFFICES ASSUME Init PROVE LedgerAgrees
    OBVIOUS
  <2>2. Booked({}) = 0 /\ Cardinality({}) = 0
    BY FS_EmptySet DEF Booked
  <2>3. points \cap Charges = {} /\ points \cap Payments = {}
    BY <2>1 DEF Init
  <2>4. InitPoint \in Nat /\ wallet.total = InitPoint
    BY <2>1 DEF Init
  <2>5. points \cap Halves = {}
    BY <2>1 DEF Init
  <2>6. /\ Booked(points \cap Charges) = 0
        /\ Booked(points \cap Payments) = 0
        /\ Cardinality(points \cap Halves) = 0
    BY <2>2, <2>3, <2>5
  <2> QED BY <2>4, <2>6 DEF LedgerAgrees
<1>2. Inv /\ [Next]_vars => Inv'
  BY NextInv
<1> QED BY <1>1, <1>2, InitInv, LedgerStep, PTL DEF Spec

-----------------------------------------------------------------------------
\* The refinement

outcomes == [r \in Requests |-> Outcome(r)]

LEMMA AbstractRequests == Atomic!Requests = Requests
BY DEF Atomic!Requests, Requests

\* What a step of request r does to the abstract outcomes.
LEMMA OutcomesMove ==
  ASSUME TypeOK, NEW r \in Requests, NEW p \in {"idle"} \cup Running \cup Ended, GoTo(r, p)
  PROVE  outcomes' = [outcomes EXCEPT ![r] =
                        IF p \in Done THEN "done" ELSE IF p \in Failed THEN "failed" ELSE "none"]
<1>1. pc' \in [Requests -> {"idle"} \cup Running \cup Ended]
  BY DEF TypeOK, GoTo
<1>2. \A q \in Requests : Outcome(q)' =
        IF q = r THEN (IF p \in Done THEN "done" ELSE IF p \in Failed THEN "failed" ELSE "none")
        ELSE Outcome(q)
  BY <1>1 DEF Outcome, TypeOK, GoTo, Failed, Done
<1> QED BY <1>2 DEF outcomes

\* A transaction takes effect when it commits; everything else stutters, and
\* every other end is a failure.
LEMMA StepRefines ==
  ASSUME Inv, NEW r \in Requests, Step(r) \/ Abort(r)
  PROVE  Atomic!Next \/ UNCHANGED <<wallet.total, outcomes>>
<1>0. TypeOK /\ outcomes[r] = Outcome(r)
  BY DEF Inv, WalletInv, outcomes
<1>1. CASE Read(r) \/ CreatePoint(r) \/ Update(r)
  <2>1. pc[r] \in {"idle", "read", "written", "pointed"} /\ wallet' = wallet
    BY <1>1 DEF Read, CreatePoint, Update, AtUpdate
  <2>2. PICK p \in Running : GoTo(r, p)
    BY <1>1 DEF Read, CreatePoint, Update, Running
  <2>3. outcomes' = [outcomes EXCEPT ![r] = "none"]
    BY <2>2, <1>0, OutcomesMove DEF Running, Failed, Done
  <2>4. outcomes[r] = "none"
    BY <2>1, <1>0 DEF Outcome, Failed, Done
  <2> QED BY <2>1, <2>3, <2>4 DEF outcomes
<1>2. CASE Refuse(r) \/ Conflict(r) \/ Abort(r)
  <2>1. pc[r] \in Running /\ wallet' = wallet
    BY <1>2 DEF Refuse, Conflict, Abort, AtUpdate, Running
  <2>2. PICK p \in Failed : GoTo(r, p)
    BY <1>2 DEF Refuse, Conflict, Abort, Failed
  <2>3. outcomes' = [outcomes EXCEPT ![r] = "failed"]
    BY <2>2, <1>0, OutcomesMove DEF Failed, Ended, Done
  <2>4. outcomes[r] = "none"
    BY <2>1, <1>0 DEF Outcome, Failed, Done, Running
  <2>5. Atomic!Fail(r)
    BY <2>1, <2>3, <2>4 DEF Atomic!Fail, Atomic!End, outcomes
  <2> QED BY <2>5, AbstractRequests DEF Atomic!Next
<1>3. CASE Commit(r)
  <2>1. AtCommit(r) /\ pc[r] \in Running
    BY <1>3 DEF Commit, AtCommit, Running
  <2>2. outcomes' = [outcomes EXCEPT ![r] = "done"]
    BY <1>3, <1>0, OutcomesMove DEF Commit, Ended, Done
  <2>3. outcomes[r] = "none"
    BY <2>1, <1>0 DEF Outcome, Failed, Done, Running
  <2>4. Atomic!End(r, "done")
    BY <2>2, <2>3 DEF Atomic!End, outcomes
  <2>5. wallet'.total \in NewTotals(r)
    BY <1>3 DEF Commit
  <2>6. CASE r \in Charges
    <3>1. PICK amount \in Stored(r) : wallet'.total = wallet.total + amount
      BY <2>1, <2>5, <2>6, CommitTotal
    <3>2. Amount[r] \in Nat /\ wallet.total \in Nat
      BY <2>1, CommitTotal
    <3>3. Atomic!Charge(r)
      BY <2>4, <2>6, <3>1, <3>2 DEF Atomic!Charge, Stored
    <3> QED BY <3>3, AbstractRequests DEF Atomic!Next
  <2>7. CASE r \in Payments
    <3>1. Atomic!Pay(r)
      BY <2>1, <2>4, <2>5, <2>7, CommitTotal DEF Atomic!Pay
    <3> QED BY <3>1, AbstractRequests DEF Atomic!Next
  <2> QED BY <2>6, <2>7 DEF Requests
<1> QED BY <1>1, <1>2, <1>3 DEF Step

\* Every behaviour of the transactions is one in which each request happens at
\* one moment or not at all.
THEOREM WalletIsAtomic == Spec => ImplementsAtomicWallet
<1>1. Init => Atomic!Init
  BY AbstractRequests DEF Init, Atomic!Init, Outcome, Failed, Done
<1>2. Inv /\ [Next]_vars => [Atomic!Next]_<<wallet.total, outcomes>>
  <2>1. SUFFICES ASSUME Inv, [Next]_vars
                 PROVE  Atomic!Next \/ UNCHANGED <<wallet.total, outcomes>>
    OBVIOUS
  <2>2. CASE UNCHANGED vars
    BY <2>2 DEF vars, outcomes, Outcome
  <2> QED BY <2>1, <2>2, StepRefines DEF Next
<1>3. Inv /\ [Next]_vars => Inv'
  BY NextInv
<1> QED BY <1>1, <1>2, <1>3, InitInv, PTL DEF Spec, ImplementsAtomicWallet, Atomic!Spec, outcomes
=============================================================================

------------------------------- MODULE Wallet -------------------------------
(***************************************************************************)
(* One wallet row under concurrent requests: charges (PointService) and    *)
(* payments (WalletService.completePayment), each a MySQL transaction that *)
(* reads the row from its snapshot, updates it where id and version still  *)
(* match, and inserts a point row.  Wallets share nothing, so one is       *)
(* enough.  A charge updates before it inserts, a payment after.           *)
(* Totals and amounts are counted in hundredths of a point, the scale of   *)
(* the DECIMAL(65,2) columns.                                              *)
(***************************************************************************)
EXTENDS Integers, FiniteSets

CONSTANTS
  Charges,      \* requests that add points
  Payments,     \* requests that take points
  Amount,       \* request |-> hundredths of a point
  Halves,       \* charges of half a hundredth more than Amount says
  InitPoint,    \* wallet.totalPoint before the first request
  NoOne         \* holder of a row nobody has updated

Requests == Charges \cup Payments

ASSUME RequestsAssumption ==
  /\ IsFiniteSet(Requests)
  /\ Charges \cap Payments = {}
  /\ Halves \subseteq Charges
  /\ Amount \in [Requests -> Nat]
  /\ InitPoint \in Nat
  /\ NoOne \notin Requests

VARIABLES
  wallet,   \* the committed row: totalPoint and version
  holder,   \* the transaction that holds the row's lock: it has updated the row
  read,     \* request |-> the row as its snapshot shows it
  pc,       \* request |-> how far it is
  booked,   \* request |-> what its point row says
  points    \* requests whose point row is committed

vars == <<wallet, holder, read, pc, booked, points>>

Row == [total : Int, version : Nat]
Running == {"read", "written", "pointed"}
Failed == {"refused", "conflict", "aborted"}
\* Unheard: the connection was lost after the commit and before the answer, and
\* the caller is told of a conflict.
Done == {"committed", "unheard"}
Ended == Failed \cup Done

GoTo(r, p) == pc' = [pc EXCEPT ![r] = p]

\* What a column makes of an amount: the nearest hundredth.  A double is hardly
\* ever half a hundredth itself, so either neighbour may be the nearer one.  A
\* total is a stored value, adding it moves the point without moving the half.
Stored(r) == IF r \in Halves THEN {Amount[r], Amount[r] + 1} ELSE {Amount[r]}

Init ==
  /\ wallet = [total |-> InitPoint, version |-> 0]
  /\ holder = NoOne
  /\ read = [r \in Requests |-> wallet]
  /\ pc = [r \in Requests |-> "idle"]
  /\ booked = [r \in Requests |-> 0]
  /\ points = {}

-----------------------------------------------------------------------------
\* getByUserId, the first statement: the snapshot is that of the transaction.
Read(r) ==
  /\ pc[r] = "idle"
  /\ read' = [read EXCEPT ![r] = wallet]
  /\ GoTo(r, "read")
  /\ UNCHANGED <<wallet, holder, booked, points>>

\* Mutant: the answer of payable is ignored.
PayableIgnored(r) == TRUE

Payable(r) == read[r].total >= Amount[r]

\* The price is a sum of doubles and may come out just above an equal total.
Refuse(r) ==
  /\ r \in Payments
  /\ pc[r] = "read"
  /\ ~Payable(r) \/ read[r].total = Amount[r]
  /\ GoTo(r, "refused")
  /\ UNCHANGED <<wallet, holder, read, booked, points>>

\* The point row is seen by nobody before the commit.
CreatePoint(r) ==
  /\ \/ r \in Payments /\ pc[r] = "read" /\ Payable(r)
     \/ r \in Charges /\ pc[r] = "written"
  /\ \E amount \in Stored(r) : booked' = [booked EXCEPT ![r] = amount]
  /\ GoTo(r, "pointed")
  /\ UNCHANGED <<wallet, holder, read, points>>

AtUpdate(r) == pc[r] = IF r \in Charges THEN "read" ELSE "pointed"

\* Mutant: the update looks at the id only.
UpdateAnyVersion(r) ==
  /\ AtUpdate(r)
  /\ holder = NoOne
  /\ holder' = r
  /\ GoTo(r, "written")
  /\ UNCHANGED <<wallet, read, booked, points>>

\* UPDATE ... WHERE id AND version waits for the row's lock and then looks at
\* the committed row, not at the snapshot.
Update(r) ==
  /\ AtUpdate(r)
  /\ holder = NoOne
  /\ wallet.version = read[r].version
  /\ holder' = r
  /\ GoTo(r, "written")
  /\ UNCHANGED <<wallet, read, booked, points>>

\* Mutant: a locked row counts as a conflict.
ConflictWhenLocked(r) ==
  /\ AtUpdate(r)
  /\ \/ holder # NoOne
     \/ wallet.version # read[r].version
  /\ GoTo(r, "conflict")
  /\ UNCHANGED <<wallet, holder, read, booked, points>>

Conflict(r) ==
  /\ AtUpdate(r)
  /\ holder = NoOne
  /\ wallet.version # read[r].version
  /\ GoTo(r, "conflict")
  /\ UNCHANGED <<wallet, holder, read, booked, points>>

\* What the update may have written: a total computed from the snapshot and then
\* rounded, for itself and not by what the point row says.
NewTotals(r) ==
  IF r \in Charges THEN {read[r].total + amount : amount \in Stored(r)}
                   ELSE {read[r].total - Amount[r]}

AtCommit(r) == holder = r /\ pc[r] = IF r \in Charges THEN "pointed" ELSE "written"

\* Mutant: the version is not incremented.
CommitSameVersion(r) ==
  /\ AtCommit(r)
  /\ \E total \in NewTotals(r) : wallet' = [wallet EXCEPT !.total = total]
  /\ points' = points \cup {r}
  /\ holder' = NoOne
  /\ \E end \in Done : GoTo(r, end)
  /\ UNCHANGED <<read, booked>>

Commit(r) ==
  /\ AtCommit(r)
  /\ \E total \in NewTotals(r) : wallet' = [total |-> total, version |-> wallet.version + 1]
  /\ points' = points \cup {r}
  /\ holder' = NoOne
  /\ \E end \in Done : GoTo(r, end)
  /\ UNCHANGED <<read, booked>>

\* Mutant: a transaction that is given up is not rolled back.
AbortKeepsLock(r) ==
  /\ pc[r] \in Running
  /\ GoTo(r, "aborted")
  /\ UNCHANGED <<wallet, holder, read, booked, points>>

\* The transaction's timeout (2 s for a charge, 3 s for a payment), a lost
\* connection, any database error: everything is rolled back.
Abort(r) ==
  /\ pc[r] \in Running
  /\ holder' = IF holder = r THEN NoOne ELSE holder
  /\ GoTo(r, "aborted")
  /\ UNCHANGED <<wallet, read, booked, points>>

Step(r) ==
  \/ Read(r)
  \/ Refuse(r)
  \/ CreatePoint(r)
  \/ Update(r)
  \/ Conflict(r)
  \/ Commit(r)

Next == \E r \in Requests : Step(r) \/ Abort(r)

Spec == Init /\ [][Next]_vars

\* A request in progress goes on; a lock wait ends with the holder's transaction.
FairSpec == Spec /\ \A r \in Requests : WF_vars(Step(r))

-----------------------------------------------------------------------------
TypeOK ==
  /\ wallet \in Row
  /\ holder \in Requests \cup {NoOne}
  /\ read \in [Requests -> Row]
  /\ pc \in [Requests -> {"idle"} \cup Running \cup Ended]
  /\ booked \in [Requests -> Nat]
  /\ points \subseteq Requests

\* What the point rows of the requests S say, counted one by one.
Booked(S) == Cardinality(UNION {{r} \X (1..booked[r]) : r \in S})

\* No update is lost: the total is what the committed point rows add up to, but
\* for a hundredth for every charge whose half was rounded up in one column and
\* down in the other.
LedgerAgrees ==
  LET ledger == InitPoint + Booked(points \cap Charges) - Booked(points \cap Payments)
      halves == Cardinality(points \cap Halves)
  IN  wallet.total \in ledger - halves .. ledger + halves

\* Each success counts once: the version is the number of committed requests.
VersionCountsCommits ==
  /\ wallet.version = Cardinality(points)
  /\ \A r \in Requests : pc[r] \in Done <=> r \in points

\* A wallet is never overdrawn, however many payments read it at once.
NeverOverdrawn == wallet.total >= 0

\* First committer wins: a request meets a conflict only because another one
\* succeeded after it had read the row, so requests never defeat one another.
ConflictHasWinner ==
  \A r \in Requests : pc[r] = "conflict" =>
    wallet.version > read[r].version /\ \E q \in points : q # r

\* Nobody waits for a lock for ever: a request that began comes to its end.
EveryRequestEnds == \A r \in Requests : pc[r] # "idle" ~> pc[r] \in Ended

\* Concurrent transactions look atomic.
Outcome(r) ==
  CASE pc[r] \in Done -> "done"
    [] pc[r] \in Failed -> "failed"
    [] OTHER -> "none"

Atomic == INSTANCE AtomicWallet WITH
  total <- wallet.total, outcome <- [r \in Requests |-> Outcome(r)]

ImplementsAtomicWallet == Atomic!Spec

-----------------------------------------------------------------------------
\* The invariant behind it: a snapshot is never ahead of the row, one with the
\* row's version is the row, and the lock's holder has such a snapshot.
SnapshotInv ==
  \A r \in Requests :
    /\ read[r].version <= wallet.version
    /\ read[r].version = wallet.version => read[r] = wallet

HolderInv ==
  /\ holder # NoOne =>
       /\ read[holder].version = wallet.version
       /\ pc[holder] \in {"written", "pointed"}
       /\ holder \in Payments => pc[holder] = "written"
  /\ \A r \in Payments : pc[r] \in {"pointed", "written"} => Payable(r)

\* A point row that is written says what its column makes of the amount.
RowInv ==
  \A r \in Requests :
    pc[r] \in {"pointed"} \cup Done \/ (r \in Payments /\ pc[r] = "written") =>
      booked[r] \in Stored(r)

WalletInv == TypeOK /\ SnapshotInv /\ HolderInv /\ RowInv /\ VersionCountsCommits
=============================================================================

--------------------------- MODULE AccountProofs ---------------------------
(***************************************************************************)
(* Proofs about Account for any users, products and requests.              *)
(***************************************************************************)
EXTENDS Account, FiniteSetTheorems, TLAPS

Deleted == {"lineDeleted", "done", "deletedButFailed"}
Inserted == {"done", "addedButFailed"}

-----------------------------------------------------------------------------
\* The sets CartLinesAgree counts.

LEMMA RequestTypes ==
  ASSUME NEW r \in CartRequests
  PROVE  r \in Requests /\ r \notin SignUps /\ UserOf[r] \in Users /\ ProductOf[r] \in Products
  BY AccountAssumption DEF Requests, CartRequests

LEMMA CountedSets ==
  ASSUME NEW u, NEW p
  PROVE  /\ IsFiniteSet(Added(u, p)) /\ Cardinality(Added(u, p)) \in Nat
         /\ IsFiniteSet(Removed(u, p)) /\ Cardinality(Removed(u, p)) \in Nat
<1>1. Added(u, p) \in SUBSET Adds /\ Removed(u, p) \in SUBSET Removes
  BY DEF Added, Removed
<1>2. IsFiniteSet(Added(u, p)) /\ IsFiniteSet(Removed(u, p))
  BY <1>1, FS_Subset, AccountAssumption
<1> QED
  BY <1>2, FS_CardinalityType

\* A step that neither inserts nor deletes a line leaves the counts alone.
LEMMA Uncounted ==
  ASSUME CartLinesAgree, pc \in [Requests -> {"idle"} \cup InProgress \cup Ended],
         NEW r \in Requests, NEW s, GoTo(r, s), UNCHANGED lines,
         r \in Adds => (pc[r] \in Inserted <=> s \in Inserted),
         r \in Removes => (pc[r] \in Deleted <=> s \in Deleted)
  PROVE  CartLinesAgree'
<1>1. ASSUME NEW u \in Users, NEW p \in Products
      PROVE  Added(u, p)' = Added(u, p) /\ Removed(u, p)' = Removed(u, p)
  BY AccountAssumption DEF Added, Removed, GoTo, Inserted, Deleted, Requests, CartRequests
<1> QED
  BY <1>1 DEF CartLinesAgree

LEMMA InsertCounted ==
  ASSUME CartLinesAgree, TypeOK, NEW a \in Adds, CreateLine(a)
  PROVE  CartLinesAgree'
<1>1. a \in Requests /\ a \notin Removes /\ UserOf[a] \in Users /\ ProductOf[a] \in Products
  BY AccountAssumption DEF Requests, CartRequests
<1>2. pc[a] = "touched" /\ pc[a] \notin Inserted
  BY DEF CreateLine, Inserted
<1>3. CASE Lines(a) = 0
  <2>1. SetLine(a, 1)
    BY <1>3 DEF CreateLine
  <2>2. PICK s \in Inserted : GoTo(a, s)
    BY <1>3 DEF CreateLine, Answer, Inserted
  <2>3. ASSUME NEW u \in Users, NEW p \in Products
        PROVE  /\ lines'[u][p] = Cardinality(Added(u, p)') - Cardinality(Removed(u, p)')
               /\ lines'[u][p] <= 1
    <3>1. Removed(u, p)' = Removed(u, p)
      BY <1>1, <2>2 DEF Removed, GoTo, TypeOK
    <3>2. CASE u = UserOf[a] /\ p = ProductOf[a]
      <4>1. Added(u, p)' = Added(u, p) \cup {a} /\ a \notin Added(u, p)
        BY <1>1, <1>2, <2>2, <3>2 DEF Added, GoTo, TypeOK, Inserted, Requests, CartRequests
      <4>2. Cardinality(Added(u, p)') = Cardinality(Added(u, p)) + 1
        BY <4>1, CountedSets, FS_AddElement
      <4>3. lines[u][p] = 0 /\ lines'[u][p] = 1
        BY <1>1, <1>3, <2>1, <3>2 DEF Lines, SetLine, TypeOK
      <4> QED
        BY <3>1, <4>2, <4>3, CountedSets DEF CartLinesAgree
    <3>3. CASE ~(u = UserOf[a] /\ p = ProductOf[a])
      <4>1. Added(u, p)' = Added(u, p)
        BY <1>1, <2>2, <3>3 DEF Added, GoTo, TypeOK, Requests, CartRequests
      <4>2. lines'[u][p] = lines[u][p]
        BY <1>1, <2>1, <3>3 DEF SetLine, TypeOK
      <4> QED
        BY <3>1, <4>1, <4>2 DEF CartLinesAgree
    <3> QED
      BY <3>2, <3>3
  <2> QED
    BY <2>3 DEF CartLinesAgree
<1>4. CASE Lines(a) # 0
  <2>1. GoTo(a, "failed") /\ UNCHANGED lines
    BY <1>4 DEF CreateLine
  <2> QED
    BY <1>1, <1>2, <2>1, Uncounted DEF TypeOK, Inserted
<1> QED
  BY <1>3, <1>4

LEMMA DeleteCounted ==
  ASSUME CartLinesAgree, TypeOK, NEW r \in Removes, DeleteLine(r)
  PROVE  CartLinesAgree'
<1>1. r \in Requests /\ r \notin Adds /\ UserOf[r] \in Users /\ ProductOf[r] \in Products
  BY AccountAssumption DEF Requests, CartRequests
<1>2. pc[r] = "lineFound" /\ pc[r] \notin Deleted
  BY DEF DeleteLine, Deleted
<1>3. CASE Lines(r) > 0 /\ found[r] = LineId(r)
  <2>1. SetLine(r, 0)
    BY <1>3 DEF DeleteLine
  <2>2. PICK s \in Deleted : GoTo(r, s)
    BY <1>3 DEF DeleteLine, Answer, Deleted
  <2>3. ASSUME NEW u \in Users, NEW p \in Products
        PROVE  /\ lines'[u][p] = Cardinality(Added(u, p)') - Cardinality(Removed(u, p)')
               /\ lines'[u][p] <= 1
    <3>1. Added(u, p)' = Added(u, p)
      BY <1>1, <2>2 DEF Added, GoTo, TypeOK
    <3>2. CASE u = UserOf[r] /\ p = ProductOf[r]
      <4>1. Removed(u, p)' = Removed(u, p) \cup {r} /\ r \notin Removed(u, p)
        BY <1>1, <1>2, <2>2, <3>2 DEF Removed, GoTo, TypeOK, Deleted, Requests, CartRequests
      <4>2. Cardinality(Removed(u, p)') = Cardinality(Removed(u, p)) + 1
        BY <4>1, CountedSets, FS_AddElement
      <4>3. lines[u][p] = 1 /\ lines'[u][p] = 0
        <5>1. lines[u][p] \in 0..1
          BY DEF TypeOK
        <5>2. lines[u][p] > 0 /\ lines'[u][p] = 0
          BY <1>1, <1>3, <2>1, <3>2 DEF Lines, SetLine, TypeOK
        <5> QED
          BY <5>1, <5>2
      <4> QED
        BY <3>1, <4>2, <4>3, CountedSets DEF CartLinesAgree
    <3>3. CASE ~(u = UserOf[r] /\ p = ProductOf[r])
      <4>1. Removed(u, p)' = Removed(u, p)
        BY <1>1, <2>2, <3>3 DEF Removed, GoTo, TypeOK, Requests, CartRequests
      <4>2. lines'[u][p] = lines[u][p]
        BY <1>1, <2>1, <3>3 DEF SetLine, TypeOK
      <4> QED
        BY <3>1, <4>1, <4>2 DEF CartLinesAgree
    <3> QED
      BY <3>2, <3>3
  <2> QED
    BY <2>3 DEF CartLinesAgree
<1>4. CASE ~(Lines(r) > 0 /\ found[r] = LineId(r))
  <2>1. PICK s \in {"lineGone", "notFound"} : GoTo(r, s) /\ UNCHANGED lines
    BY <1>4 DEF DeleteLine, Answer
  <2> QED
    BY <1>1, <1>2, <2>1, Uncounted DEF TypeOK, Deleted
<1> QED
  BY <1>3, <1>4

-----------------------------------------------------------------------------
\* A request's step to s that writes nothing a sign-up relies on.
LEMMA StatesKept ==
  ASSUME AccountInv, NEW r \in Requests, NEW s, GoTo(r, s), UNCHANGED <<users, carts, wallets>>,
         s \notin {"userCreated", "cartCreated"}, r \in SignUps => s # "done"
  PROVE  SignUpInv'
<1>1. ASSUME NEW t \in SignUps
      PROVE  /\ pc'[t] = "userCreated" => pc[t] = "userCreated"
             /\ pc'[t] = "cartCreated" => pc[t] = "cartCreated"
             /\ pc'[t] = "done" => pc[t] = "done"
  BY DEF AccountInv, TypeOK, GoTo, Requests
<1>2. \A u \in Users : Started(u)' \subseteq Started(u)
  BY <1>1 DEF Started
<1>3. ASSUME NEW t \in SignUps, t \in Started(UserOf[t])'
      PROVE  Started(UserOf[t])' = {t}
  <2>1. UserOf[t] \in Users
    BY AccountAssumption DEF Requests
  <2>2. t \in Started(UserOf[t])
    BY <1>2, <1>3, <2>1
  <2>3. Started(UserOf[t]) = {t}
    BY <2>2 DEF AccountInv, SignUpInv
  <2> QED
    BY <1>2, <1>3, <2>1, <2>3
<1> QED
  BY <1>1, <1>3 DEF AccountInv, SignUpInv

LEMMA CartsKept ==
  ASSUME AccountInv, NEW r \in Requests, NEW s, GoTo(r, s), UNCHANGED carts,
         \/ s \notin {"cartFound", "inStock", "touched", "lineFound", "lineDeleted", "lineGone"}
         \/ r \notin CartRequests
         \/ carts[UserOf[r]] = 1
  PROVE  CartInv'
  BY DEF AccountInv, TypeOK, GoTo, CartInv, Requests

-----------------------------------------------------------------------------
LEMMA InitInv == Init => AccountInv
<1> SUFFICES ASSUME Init PROVE AccountInv
  OBVIOUS
<1>1. TypeOK
  BY AccountAssumption DEF Init, TypeOK
<1>2. WalletAfterCart /\ SignUpInv /\ CartInv
  BY AccountAssumption
     DEF Init, WalletAfterCart, SignUpInv, CartInv, Started, Requests, CartRequests
<1>3. CartLinesAgree
  <2>1. \A u \in Users, p \in Products : Added(u, p) = {} /\ Removed(u, p) = {}
    BY DEF Init, Added, Removed, Requests, CartRequests
  <2> QED
    BY <2>1, FS_EmptySet DEF Init, CartLinesAgree
<1> QED
  BY <1>1, <1>2, <1>3 DEF AccountInv

LEMMA SignUpStep ==
  ASSUME AccountInv, NEW s \in SignUps, SignUp(s)
  PROVE  AccountInv'
<1> DEFINE u == UserOf[s]
<1>1. s \in Requests /\ s \notin CartRequests /\ u \in Users
  BY AccountAssumption DEF Requests
<1>2. TypeOK /\ WalletAfterCart /\ SignUpInv /\ CartInv /\ CartLinesAgree
  BY DEF AccountInv
<1>t. users[u] \in 0..1 /\ carts[u] \in 0..1 /\ wallets[u] \in 0..1
  BY <1>1, <1>2 DEF TypeOK
<1>3. UNCHANGED <<lines, found>>
  BY DEF SignUp, CreateUser, UserExists, CreateCart, CreateWallet, data
<1>4. PICK x \in {"userCreated", "cartCreated", "done", "failed", "conflict"} : GoTo(s, x)
  BY DEF SignUp, CreateUser, UserExists, CreateCart, CreateWallet, Answer
<1>5. CartLinesAgree'
  BY <1>1, <1>2, <1>3, <1>4, Uncounted DEF TypeOK, CartRequests
<1>o. ASSUME NEW t \in SignUps, t # s
      PROVE  pc'[t] = pc[t]
  <2>1. t \in Requests
    BY DEF Requests
  <2> QED
    BY <1>2, <1>4, <1>o, <2>1 DEF GoTo, TypeOK
<1>6. CASE CreateUser(s)
  <2>1. pc[s] = "idle" /\ users[u] = 0 /\ users' = [users EXCEPT ![u] = 1]
        /\ UNCHANGED <<carts, wallets, lines, stock>> /\ x \in {"userCreated", "failed"}
    <3>1. pc'[s] = x
      BY <1>1, <1>2, <1>4 DEF GoTo, TypeOK
    <3>2. pc'[s] \in {"userCreated", "failed"}
      BY <1>1, <1>2, <1>6 DEF CreateUser, Answer, GoTo, TypeOK
    <3> QED
      BY <1>6, <3>1, <3>2 DEF CreateUser, OneMore
  <2>2. TypeOK'
    BY <1>1, <1>2, <1>3, <1>4, <2>1 DEF TypeOK, GoTo, InProgress, Ended
  <2>3. carts[u] = 0 /\ wallets[u] = 0
    BY <1>1, <1>2, <1>t, <2>1 DEF WalletAfterCart
  <2>4. WalletAfterCart'
    BY <1>1, <1>2, <2>1 DEF WalletAfterCart, TypeOK
  <2>5. Started(u) = {}
    BY <1>2, <2>1 DEF SignUpInv, Started
  <2>6. SignUpInv'
    <3>1. ASSUME NEW t \in SignUps, t # s, UserOf[t] = u
          PROVE  pc'[t] \notin {"userCreated", "cartCreated", "done"}
      BY <1>o, <2>5, <3>1 DEF Started
    <3>2. Started(u)' \subseteq {s}
      BY <3>1 DEF Started
    <3>3. ASSUME NEW t \in SignUps, UserOf[t] # u
          PROVE  /\ pc'[t] = pc[t] /\ UserOf[t] \in Users
                 /\ users'[UserOf[t]] = users[UserOf[t]]
                 /\ Started(UserOf[t])' = Started(UserOf[t])
      <4>1. UserOf[t] \in Users
        BY AccountAssumption DEF Requests
      <4>2. Started(UserOf[t])' = Started(UserOf[t])
        BY <1>o, <3>3 DEF Started
      <4> QED
        BY <1>2, <1>o, <2>1, <3>3, <4>1, <4>2 DEF TypeOK
    <3>4. pc'[s] = x /\ users'[u] = 1
      BY <1>1, <1>2, <1>4, <2>1 DEF GoTo, TypeOK
    <3>5. ASSUME NEW t \in SignUps
          PROVE  /\ pc'[t] = "userCreated" =>
                      users'[UserOf[t]] = 1 /\ carts'[UserOf[t]] = 0 /\ wallets'[UserOf[t]] = 0
                 /\ pc'[t] = "cartCreated" =>
                      users'[UserOf[t]] = 1 /\ carts'[UserOf[t]] = 1 /\ wallets'[UserOf[t]] = 0
                 /\ pc'[t] = "done" =>
                      users'[UserOf[t]] = 1 /\ carts'[UserOf[t]] = 1 /\ wallets'[UserOf[t]] = 1
                 /\ t \in Started(UserOf[t])' => Started(UserOf[t])' = {t}
      <4>1. CASE t = s
        BY <2>1, <2>3, <3>2, <3>4, <4>1
      <4>2. CASE t # s /\ UserOf[t] = u
        BY <3>1, <4>2 DEF Started
      <4>3. CASE UserOf[t] # u
        BY <1>2, <2>1, <3>3, <4>3 DEF SignUpInv
      <4> QED
        BY <4>1, <4>2, <4>3
    <3> QED
      BY <3>5 DEF SignUpInv
  <2>7. CartInv'
    BY <1>1, <1>4, <2>1, CartsKept
  <2> QED
    BY <1>5, <2>2, <2>4, <2>6, <2>7 DEF AccountInv
<1>7. CASE UserExists(s)
  <2>1. UNCHANGED data /\ GoTo(s, "conflict")
    BY <1>7 DEF UserExists
  <2>2. TypeOK' /\ WalletAfterCart'
    BY <1>1, <1>2, <2>1 DEF TypeOK, WalletAfterCart, data, GoTo, Ended
  <2>3. SignUpInv'
    BY <1>1, <2>1, StatesKept DEF data
  <2>4. CartInv'
    BY <1>1, <2>1, CartsKept DEF data
  <2> QED
    BY <1>5, <2>2, <2>3, <2>4 DEF AccountInv
<1>8. CASE CreateCart(s) \/ CreateWallet(s)
  <2>1. s \in Started(u) /\ Started(u) = {s}
    BY <1>2, <1>8 DEF SignUpInv, Started, CreateCart, CreateWallet
  <2>2. ASSUME NEW t \in SignUps, t # s, UserOf[t] = u
        PROVE  pc'[t] \notin {"userCreated", "cartCreated", "done"}
    BY <1>o, <2>1, <2>2 DEF Started
  <2>3. \A t \in SignUps : t \in Started(u)' => t = s
    BY <2>2 DEF Started
  <2>4. /\ UNCHANGED users
        /\ \A v \in Users : v # u => carts'[v] = carts[v] /\ wallets'[v] = wallets[v]
    BY <1>1, <1>2, <1>8 DEF CreateCart, CreateWallet, OneMore, TypeOK
  <2>5. ASSUME NEW t \in SignUps, UserOf[t] # u
        PROVE  /\ pc'[t] = pc[t] /\ UserOf[t] \in Users
               /\ Started(UserOf[t])' = Started(UserOf[t])
    <3>1. UserOf[t] \in Users
      BY AccountAssumption DEF Requests
    <3>2. Started(UserOf[t])' = Started(UserOf[t])
      BY <1>o, <2>5 DEF Started
    <3> QED
      BY <1>o, <2>5, <3>1, <3>2
  <2>6. \/ /\ pc[s] = "userCreated" /\ carts' = [carts EXCEPT ![u] = 1]
           /\ UNCHANGED <<wallets, lines, stock>>
           /\ pc'[s] \in {"cartCreated", "failed"} /\ users[u] = 1 /\ wallets[u] = 0
           /\ carts[u] = 0
        \/ /\ pc[s] = "cartCreated" /\ wallets' = [wallets EXCEPT ![u] = 1]
           /\ UNCHANGED <<carts, lines, stock>>
           /\ pc'[s] \in {"done", "failed"} /\ users[u] = 1 /\ carts[u] = 1
    BY <1>1, <1>2, <1>8, <1>t
       DEF CreateCart, CreateWallet, OneMore, Answer, GoTo, TypeOK, SignUpInv
  <2>7. TypeOK'
    <3>1. pc' \in [Requests -> {"idle"} \cup InProgress \cup Ended]
      BY <1>1, <1>2, <1>4 DEF TypeOK, GoTo, InProgress, Ended
    <3> QED
      BY <1>1, <1>2, <1>3, <2>4, <2>6, <3>1 DEF TypeOK
  <2>8. WalletAfterCart'
    <3>1. ASSUME NEW v \in Users
          PROVE  /\ wallets'[v] <= carts'[v] /\ carts'[v] <= users'[v]
                 /\ \A p \in Products : lines'[v][p] > 0 => carts'[v] > 0
      <4>1. CASE v = u
        BY <1>1, <1>2, <1>3, <2>4, <2>6, <4>1 DEF TypeOK, WalletAfterCart
      <4>2. CASE v # u
        BY <1>2, <1>3, <2>4, <4>2 DEF WalletAfterCart
      <4> QED
        BY <4>1, <4>2
    <3> QED
      BY <3>1 DEF WalletAfterCart
  <2>9. SignUpInv'
    <3>1. ASSUME NEW t \in SignUps
          PROVE  /\ pc'[t] = "userCreated" =>
                      users'[UserOf[t]] = 1 /\ carts'[UserOf[t]] = 0 /\ wallets'[UserOf[t]] = 0
                 /\ pc'[t] = "cartCreated" =>
                      users'[UserOf[t]] = 1 /\ carts'[UserOf[t]] = 1 /\ wallets'[UserOf[t]] = 0
                 /\ pc'[t] = "done" =>
                      users'[UserOf[t]] = 1 /\ carts'[UserOf[t]] = 1 /\ wallets'[UserOf[t]] = 1
                 /\ t \in Started(UserOf[t])' => Started(UserOf[t])' = {t}
      <4>1. CASE t = s
        <5>1. t \in Started(UserOf[t])' => Started(UserOf[t])' = {t}
          BY <2>3, <4>1 DEF Started
        <5> QED
          BY <1>1, <1>2, <2>4, <2>6, <4>1, <5>1 DEF TypeOK
      <4>2. CASE t # s /\ UserOf[t] = u
        BY <2>2, <4>2 DEF Started
      <4>3. CASE UserOf[t] # u
        BY <1>2, <2>4, <2>5, <4>3 DEF SignUpInv
      <4> QED
        BY <4>1, <4>2, <4>3
    <3> QED
      BY <3>1 DEF SignUpInv
  <2>10. CartInv'
    <3>1. \A v \in Users : carts[v] = 1 => carts'[v] = 1
      BY <1>1, <1>2, <2>4, <2>6 DEF TypeOK
    <3>2. \A r \in CartRequests : pc'[r] = pc[r] /\ UserOf[r] \in Users
      BY <1>1, <1>2, <1>4, RequestTypes DEF GoTo, TypeOK
    <3> QED
      BY <1>2, <3>1, <3>2 DEF CartInv
  <2> QED
    BY <1>5, <2>7, <2>8, <2>9, <2>10 DEF AccountInv
<1> QED
  BY <1>6, <1>7, <1>8 DEF SignUp

\* A cart request's step writes at most its line.
LEMMA CartStep ==
  ASSUME AccountInv, NEW r \in CartRequests,
         (r \in Adds /\ AddCartItem(r)) \/ (r \in Removes /\ RemoveCartItem(r))
  PROVE  AccountInv'
<1>1. r \in Requests /\ r \notin SignUps /\ UserOf[r] \in Users /\ ProductOf[r] \in Products
  BY RequestTypes
<1>2. TypeOK /\ WalletAfterCart /\ SignUpInv /\ CartInv /\ CartLinesAgree
  BY DEF AccountInv
<1>3. UNCHANGED <<users, carts, wallets, stock>>
  BY DEF AddCartItem, RemoveCartItem, FindCart, CartNotFound, CheckStock, TouchCart, CreateLine,
         FindLine, DeleteLine, TouchAfterDelete, data
<1>f. found' \in [Removes -> Nat]
  <2>1. CASE FindLine(r)
    <3>1. LineId(r) \in Nat
      BY CountedSets DEF LineId
    <3> QED
      BY <1>2, <2>1, <3>1 DEF FindLine, TypeOK
  <2>2. CASE ~FindLine(r)
    BY <1>2, <2>2 DEF TypeOK, AddCartItem, RemoveCartItem, FindCart, CartNotFound, CheckStock,
                      TouchCart, CreateLine, DeleteLine, TouchAfterDelete, data
  <2> QED
    BY <2>1, <2>2
<1> DEFINE Found == {"cartFound", "inStock", "touched", "lineFound", "lineDeleted", "lineGone"}
<1>4. PICK x : /\ GoTo(r, x)
               /\ x \in Found \/ x \in {"done", "doneForNothing", "notFound", "outOfStock",
                                        "failed", "addedButFailed", "deletedButFailed"}
               /\ x \in Found => carts[UserOf[r]] = 1
  <2>1. CASE FindCart(r)
    <3>1. carts[UserOf[r]] = 1
      BY <1>1, <1>2, <2>1 DEF FindCart, TypeOK
    <3> QED
      BY <2>1, <3>1 DEF FindCart
  <2>2. CASE CartNotFound(r)
    BY <2>2 DEF CartNotFound
  <2>3. CASE \/ CheckStock(r) \/ TouchCart(r) \/ CreateLine(r)
             \/ FindLine(r) \/ DeleteLine(r) \/ TouchAfterDelete(r)
    <3>1. carts[UserOf[r]] = 1
      BY <1>2, <2>3
         DEF CartInv, CheckStock, TouchCart, CreateLine, FindLine, DeleteLine, TouchAfterDelete
    <3> QED
      BY <2>3, <3>1
         DEF CheckStock, TouchCart, CreateLine, FindLine, DeleteLine, TouchAfterDelete, Answer
  <2> QED
    BY <2>1, <2>2, <2>3 DEF AddCartItem, RemoveCartItem
<1>5. \/ UNCHANGED lines
      \/ carts[UserOf[r]] = 1 /\ \E n \in 0..1 : SetLine(r, n)
  <2>1. CASE CreateLine(r) \/ DeleteLine(r)
    BY <1>2, <2>1 DEF CreateLine, DeleteLine, CartInv
  <2>2. CASE ~(CreateLine(r) \/ DeleteLine(r))
    BY <2>2 DEF AddCartItem, RemoveCartItem, FindCart, CartNotFound, CheckStock, TouchCart,
                FindLine, TouchAfterDelete, data
  <2> QED
    BY <2>1, <2>2
<1>6. TypeOK'
  <2>1. lines' \in [Users -> [Products -> 0..1]]
    <3>1. lines \in [Users -> [Products -> 0..1]]
      BY <1>2 DEF TypeOK
    <3>2. CASE \E n \in 0..1 : SetLine(r, n)
      BY <1>1, <3>1, <3>2 DEF SetLine
    <3> QED
      BY <1>5, <3>1, <3>2
  <2>2. pc' \in [Requests -> {"idle"} \cup InProgress \cup Ended]
    BY <1>1, <1>2, <1>4 DEF GoTo, TypeOK, InProgress, Ended
  <2> QED
    BY <1>2, <1>3, <1>f, <2>1, <2>2 DEF TypeOK
<1>7. WalletAfterCart'
  <2>1. ASSUME NEW u \in Users, NEW p \in Products, lines'[u][p] > 0
        PROVE  carts'[u] > 0
    <3>1. CASE UNCHANGED lines
      BY <1>2, <1>3, <2>1, <3>1 DEF WalletAfterCart
    <3>2. CASE carts[UserOf[r]] = 1 /\ \E n \in 0..1 : SetLine(r, n)
      BY <1>1, <1>2, <1>3, <2>1, <3>2 DEF WalletAfterCart, SetLine, TypeOK
    <3> QED
      BY <1>5, <3>1, <3>2
  <2> QED
    BY <1>2, <1>3, <2>1 DEF WalletAfterCart
<1>8. SignUpInv'
  BY <1>1, <1>3, <1>4, StatesKept
<1>9. CartInv'
  BY <1>1, <1>3, <1>4, CartsKept
<1>10. CartLinesAgree'
  <2>1. CASE r \in Adds /\ CreateLine(r)
    BY <1>2, <2>1, InsertCounted
  <2>2. CASE r \in Removes /\ DeleteLine(r)
    BY <1>2, <2>2, DeleteCounted
  <2>3. CASE FindCart(r) \/ CartNotFound(r) \/ (r \in Adds /\ (CheckStock(r) \/ TouchCart(r)))
    <3>1. PICK y \in {"cartFound", "notFound", "inStock", "outOfStock", "touched"} :
            GoTo(r, y) /\ UNCHANGED lines
      BY <2>3 DEF FindCart, CartNotFound, CheckStock, TouchCart, data
    <3>2. pc[r] \in {"idle", "cartFound", "inStock"} /\ (r \in Removes => pc[r] = "idle")
      BY <2>3, AccountAssumption DEF FindCart, CartNotFound, CheckStock, TouchCart
    <3> QED
      BY <1>1, <1>2, <3>1, <3>2, Uncounted DEF TypeOK, Inserted, Deleted
  <2>4. CASE r \in Removes /\ TouchAfterDelete(r)
    <3>1. PICK y : /\ GoTo(r, y) /\ UNCHANGED lines
                   /\ \/ pc[r] = "lineDeleted" /\ y \in {"done", "deletedButFailed"}
                      \/ pc[r] = "lineGone" /\ y \in {"doneForNothing", "failed"}
      BY <2>4 DEF TouchAfterDelete, Answer, data
    <3>2. r \notin Adds
      BY <2>4, AccountAssumption
    <3> QED
      BY <1>1, <1>2, <3>1, <3>2, Uncounted DEF TypeOK, Inserted, Deleted
  <2>5. CASE r \in Removes /\ FindLine(r)
    <3>1. PICK y \in {"lineFound", "notFound"} : GoTo(r, y) /\ UNCHANGED lines
      BY <2>5 DEF FindLine
    <3>2. pc[r] = "cartFound" /\ r \notin Adds
      BY <2>5, AccountAssumption DEF FindLine
    <3> QED
      BY <1>1, <1>2, <3>1, <3>2, Uncounted DEF TypeOK, Inserted, Deleted
  <2> QED
    BY <2>1, <2>2, <2>3, <2>4, <2>5 DEF AddCartItem, RemoveCartItem
<1> QED
  BY <1>6, <1>7, <1>8, <1>9, <1>10 DEF AccountInv

LEMMA FailStep ==
  ASSUME AccountInv, NEW r \in Requests, Fail(r)
  PROVE  AccountInv'
<1>1. PICK s \in {"failed", "deletedButFailed"} :
        /\ GoTo(r, s)
        /\ s = "deletedButFailed" <=> pc[r] = "lineDeleted"
        /\ UNCHANGED data
  BY DEF Fail
<1>2. TypeOK /\ WalletAfterCart /\ SignUpInv /\ CartInv /\ CartLinesAgree
  BY DEF AccountInv
<1>3. TypeOK' /\ WalletAfterCart'
  BY <1>1, <1>2 DEF TypeOK, WalletAfterCart, GoTo, data, Ended
<1>4. SignUpInv'
  BY <1>1, StatesKept DEF data
<1>5. CartInv'
  BY <1>1, CartsKept DEF data
<1>6. CartLinesAgree'
  <2>1. pc[r] \in InProgress \cup {"idle"}
    BY DEF Fail
  <2> QED
    BY <1>1, <1>2, <2>1, Uncounted DEF TypeOK, Inserted, Deleted, InProgress, data
<1> QED
  BY <1>3, <1>4, <1>5, <1>6 DEF AccountInv

LEMMA SellStep ==
  ASSUME AccountInv, NEW p \in Products, Sell(p)
  PROVE  AccountInv'
<1>1. TypeOK'
  BY DEF AccountInv, TypeOK, Sell
<1>2. WalletAfterCart' /\ SignUpInv' /\ CartInv'
  BY DEF AccountInv, WalletAfterCart, SignUpInv, CartInv, Started, Sell
<1>3. CartLinesAgree'
  BY DEF AccountInv, CartLinesAgree, Added, Removed, Sell
<1> QED
  BY <1>1, <1>2, <1>3 DEF AccountInv

LEMMA StepInv == AccountInv /\ [Next]_vars => AccountInv'
<1> SUFFICES ASSUME AccountInv, [Next]_vars
             PROVE  AccountInv'
  OBVIOUS
<1>1. CASE Next
  BY <1>1, SignUpStep, CartStep, FailStep, SellStep DEF Next, CartRequests
<1>2. CASE UNCHANGED vars
  <2>1. TypeOK' /\ WalletAfterCart' /\ CartInv'
    BY <1>2 DEF vars, AccountInv, TypeOK, WalletAfterCart, CartInv
  <2>2. SignUpInv'
    BY <1>2 DEF vars, AccountInv, SignUpInv, Started
  <2>3. CartLinesAgree'
    BY <1>2 DEF vars, AccountInv, CartLinesAgree, Added, Removed
  <2> QED
    BY <2>1, <2>2, <2>3 DEF AccountInv
<1> QED
  BY <1>1, <1>2

-----------------------------------------------------------------------------
\* The inductive invariant: every request under way has written what it has come
\* to, sign-ups with one address are alone, carts stay, and lines are counted.
THEOREM AccountInvariant == Spec => []AccountInv
  BY InitInv, StepInv, PTL DEF Spec

\* A wallet has a cart, a cart a user and a cart line a cart, whatever fails.
THEOREM WalletsHaveCarts == Spec => []WalletAfterCart
<1>1. AccountInv => WalletAfterCart
  BY DEF AccountInv
<1> QED
  BY <1>1, AccountInvariant, PTL

\* The cart holds what was added and not removed.
THEOREM LinesCounted == Spec => []CartLinesAgree
<1>1. AccountInv => CartLinesAgree
  BY DEF AccountInv
<1> QED
  BY <1>1, AccountInvariant, PTL

\* Of the sign-ups with one address one goes through, and leaves all three rows.
THEOREM SignUpsComplete == Spec => []AccountComplete
<1>1. ASSUME AccountInv, NEW u \in Users
      PROVE  /\ Cardinality(Started(u)) <= users[u] /\ users[u] <= 1
             /\ \A s \in Started(u) : pc[s] = "done" => carts[u] = 1 /\ wallets[u] = 1
  <2>1. users[u] \in 0..1
    BY <1>1 DEF AccountInv, TypeOK
  <2>2. CASE Started(u) = {}
    BY <2>1, <2>2, FS_EmptySet
  <2>3. ASSUME NEW s \in Started(u)
        PROVE  /\ Started(u) = {s} /\ users[u] = 1
               /\ pc[s] = "done" => carts[u] = 1 /\ wallets[u] = 1
    BY <1>1, <2>3 DEF AccountInv, SignUpInv, Started
  <2>4. CASE Started(u) # {}
    <3>1. PICK s \in Started(u) : TRUE
      BY <2>4
    <3>2. Started(u) = {s} /\ users[u] = 1
      BY <2>3
    <3>3. Cardinality(Started(u)) = 1
      BY <3>2, FS_Singleton
    <3> QED
      BY <2>3, <3>2, <3>3
  <2> QED
    BY <2>2, <2>4
<1>2. AccountInv => AccountComplete
  BY <1>1 DEF AccountComplete
<1> QED
  BY <1>2, AccountInvariant, PTL
=============================================================================

------------------------------ MODULE Account ------------------------------
(***************************************************************************)
(* A user's account and cart.  Signing up creates the user, the cart and   *)
(* the wallet in three statements with no transaction around them; adding  *)
(* to and removing from the cart are statement by statement too.  Only the *)
(* unique keys of the tables hold concurrent requests together.            *)
(***************************************************************************)
EXTENDS Integers, FiniteSets

CONSTANTS
  Users,       \* e-mail addresses
  Products,
  SignUps,     \* requests to sign up,
  Adds,        \* to put a product into the cart,
  Removes,     \* and to take it out
  UserOf,      \* request |-> user
  ProductOf,   \* cart request |-> product
  Quantity,    \* add |-> units
  InitStock    \* product |-> units on the shelf at first

CartRequests == Adds \cup Removes
Requests == SignUps \cup CartRequests

ASSUME AccountAssumption ==
  /\ SignUps \cap CartRequests = {}
  /\ Adds \cap Removes = {}
  /\ IsFiniteSet(Adds) /\ IsFiniteSet(Removes)
  /\ UserOf \in [Requests -> Users]
  /\ ProductOf \in [CartRequests -> Products]
  /\ Quantity \in [Adds -> Nat \ {0}]
  /\ InitStock \in [Products -> Nat]

VARIABLES
  users, carts, wallets,  \* user |-> its rows in the table
  lines,                  \* user |-> product |-> rows of the cart's items
  stock,                  \* product |-> units on the shelf
  found,                  \* removal |-> the line it has read
  pc                      \* request |-> how far it is

data == <<users, carts, wallets, lines, stock, found>>
vars == <<users, carts, wallets, lines, stock, found, pc>>

InProgress == {"userCreated", "cartCreated", "cartFound", "inStock", "touched",
               "lineFound", "lineDeleted", "lineGone"}
Ended == {"done", "doneForNothing", "conflict", "notFound", "outOfStock", "failed",
          "addedButFailed", "deletedButFailed"}

GoTo(r, s) == pc' = [pc EXCEPT ![r] = s]

\* A statement that took effect may still end in an error: its answer is lost.
Answer(r, next, lost) == \E s \in {next, lost} : GoTo(r, s)

OneMore(table, u) == [table EXCEPT ![u] = @ + 1]

Init ==
  /\ users = [u \in Users |-> 0]
  /\ carts = [u \in Users |-> 0]
  /\ wallets = [u \in Users |-> 0]
  /\ lines = [u \in Users |-> [p \in Products |-> 0]]
  /\ stock = InitStock
  /\ found = [r \in Removes |-> 0]
  /\ pc = [r \in Requests |-> "idle"]

-----------------------------------------------------------------------------
\* Mutant: no unique key on the address.
CreateUserAgain(s) ==
  /\ pc[s] = "idle"
  /\ users' = OneMore(users, UserOf[s])
  /\ Answer(s, "userCreated", "failed")
  /\ UNCHANGED <<carts, wallets, lines, stock, found>>

CreateUser(s) ==
  /\ pc[s] = "idle"
  /\ users[UserOf[s]] = 0
  /\ users' = OneMore(users, UserOf[s])
  /\ Answer(s, "userCreated", "failed")
  /\ UNCHANGED <<carts, wallets, lines, stock, found>>

\* USER_ALREADY_EXISTS, also for whoever comes back after half a sign-up.
UserExists(s) ==
  /\ pc[s] = "idle"
  /\ users[UserOf[s]] > 0
  /\ GoTo(s, "conflict")
  /\ UNCHANGED data

CreateCart(s) ==
  /\ pc[s] = "userCreated"
  /\ carts[UserOf[s]] = 0
  /\ carts' = OneMore(carts, UserOf[s])
  /\ Answer(s, "cartCreated", "failed")
  /\ UNCHANGED <<users, wallets, lines, stock, found>>

\* Mutant: Effect.all with concurrency, the wallet does not wait for the cart.
CreateWalletEarly(s) ==
  /\ pc[s] \in {"userCreated", "cartCreated"}
  /\ wallets[UserOf[s]] = 0
  /\ wallets' = OneMore(wallets, UserOf[s])
  /\ Answer(s, "done", "failed")
  /\ UNCHANGED <<users, carts, lines, stock, found>>

CreateWallet(s) ==
  /\ pc[s] = "cartCreated"
  /\ wallets[UserOf[s]] = 0
  /\ wallets' = OneMore(wallets, UserOf[s])
  /\ Answer(s, "done", "failed")
  /\ UNCHANGED <<users, carts, lines, stock, found>>

SignUp(s) == CreateUser(s) \/ UserExists(s) \/ CreateCart(s) \/ CreateWallet(s)

-----------------------------------------------------------------------------
\* getCartBy reads the user and the cart, removeCartItem the cart.
FindCart(r) ==
  /\ pc[r] = "idle"
  /\ carts[UserOf[r]] > 0
  /\ r \in Adds => users[UserOf[r]] > 0
  /\ GoTo(r, "cartFound")
  /\ UNCHANGED data

CartNotFound(r) ==
  /\ pc[r] = "idle"
  /\ carts[UserOf[r]] = 0 \/ (r \in Adds /\ users[UserOf[r]] = 0)
  /\ GoTo(r, "notFound")
  /\ UNCHANGED data

CheckStock(a) ==
  /\ pc[a] = "cartFound"
  /\ GoTo(a, IF stock[ProductOf[a]] >= Quantity[a] THEN "inStock" ELSE "outOfStock")
  /\ UNCHANGED data

\* The cart is read again and its time of change renewed.
TouchCart(a) ==
  /\ pc[a] = "inStock"
  /\ GoTo(a, "touched")
  /\ UNCHANGED data

SetLine(r, n) == lines' = [lines EXCEPT ![UserOf[r]][ProductOf[r]] = n]
Lines(r) == lines[UserOf[r]][ProductOf[r]]

\* Mutant: no unique key on cart and product.
CreateLineAgain(a) ==
  /\ pc[a] = "touched"
  /\ SetLine(a, Lines(a) + 1)
  /\ Answer(a, "done", "addedButFailed")
  /\ UNCHANGED <<users, carts, wallets, stock, found>>

\* At most one line of a product; a second one is an error.
CreateLine(a) ==
  /\ pc[a] = "touched"
  /\ IF Lines(a) = 0
       THEN SetLine(a, 1) /\ Answer(a, "done", "addedButFailed")
       ELSE UNCHANGED lines /\ GoTo(a, "failed")
  /\ UNCHANGED <<users, carts, wallets, stock, found>>

\* The requests that have put a product into a cart, and those that have taken it out.
Added(u, p) ==
  {a \in Adds : /\ UserOf[a] = u /\ ProductOf[a] = p
                /\ pc[a] \in {"done", "addedButFailed"}}
Removed(u, p) ==
  {r \in Removes : /\ UserOf[r] = u /\ ProductOf[r] = p
                   /\ pc[r] \in {"lineDeleted", "done", "deletedButFailed"}}

\* Lines have serial numbers: that of the last one put into the cart.
LineId(r) == Cardinality(Added(UserOf[r], ProductOf[r]))

\* Prisma deletes in two statements: it reads the line, which is CART_ITEM_NOT_FOUND
\* when there is none,
FindLine(r) ==
  /\ pc[r] = "cartFound"
  /\ IF Lines(r) > 0
       THEN found' = [found EXCEPT ![r] = LineId(r)] /\ GoTo(r, "lineFound")
       ELSE UNCHANGED found /\ GoTo(r, "notFound")
  /\ UNCHANGED <<users, carts, wallets, lines, stock>>

\* and deletes that line.  When another removal was faster nothing is deleted:
\* whether Prisma then reports an error is left open, so both may be told success.
DeleteLine(r) ==
  /\ pc[r] = "lineFound"
  /\ IF Lines(r) > 0 /\ found[r] = LineId(r)
       THEN SetLine(r, 0) /\ Answer(r, "lineDeleted", "deletedButFailed")
       ELSE UNCHANGED lines /\ Answer(r, "lineGone", "notFound")
  /\ UNCHANGED <<users, carts, wallets, stock, found>>

TouchAfterDelete(r) ==
  /\ \/ pc[r] = "lineDeleted" /\ Answer(r, "done", "deletedButFailed")
     \/ pc[r] = "lineGone" /\ Answer(r, "doneForNothing", "failed")
  /\ UNCHANGED data

AddCartItem(a) ==
  \/ FindCart(a)
  \/ CartNotFound(a)
  \/ CheckStock(a)
  \/ TouchCart(a)
  \/ CreateLine(a)

RemoveCartItem(r) ==
  \/ FindCart(r)
  \/ CartNotFound(r)
  \/ FindLine(r)
  \/ DeleteLine(r)
  \/ TouchAfterDelete(r)

\* A read or write that fails without effect, a product that is not there, or
\* the end of the process.
Fail(r) ==
  /\ pc[r] \in InProgress \cup {"idle"}
  /\ GoTo(r, IF pc[r] = "lineDeleted" THEN "deletedButFailed" ELSE "failed")
  /\ UNCHANGED data

\* An order takes a unit meanwhile.
Sell(p) ==
  /\ stock[p] > 0
  /\ stock' = [stock EXCEPT ![p] = @ - 1]
  /\ UNCHANGED <<users, carts, wallets, lines, found, pc>>

Next ==
  \/ \E s \in SignUps : SignUp(s)
  \/ \E a \in Adds : AddCartItem(a)
  \/ \E r \in Removes : RemoveCartItem(r)
  \/ \E r \in Requests : Fail(r)
  \/ \E p \in Products : Sell(p)

Spec == Init /\ [][Next]_vars

-----------------------------------------------------------------------------
TypeOK ==
  /\ users \in [Users -> 0..1]
  /\ carts \in [Users -> 0..1]
  /\ wallets \in [Users -> 0..1]
  /\ lines \in [Users -> [Products -> 0..1]]
  /\ stock \in [Products -> Nat]
  /\ found \in [Removes -> Nat]
  /\ pc \in [Requests -> {"idle"} \cup InProgress \cup Ended]

\* Whatever part of a sign-up is missing after an error, it is the end of it:
\* a wallet has a cart, a cart a user, and a cart line a cart.
WalletAfterCart ==
  \A u \in Users :
    /\ wallets[u] <= carts[u]
    /\ carts[u] <= users[u]
    /\ \A p \in Products : lines[u][p] > 0 => carts[u] > 0

\* Of the sign-ups with one address at most one is not turned away before it
\* writes, and when it is answered all three rows are there, once.
Started(u) ==
  {s \in SignUps : UserOf[s] = u /\ pc[s] \in {"userCreated", "cartCreated", "done"}}

AccountComplete ==
  \A u \in Users :
    /\ Cardinality(Started(u)) <= users[u]
    /\ \A s \in Started(u) : pc[s] = "done" => carts[u] = 1 /\ wallets[u] = 1
    /\ users[u] <= 1

\* The cart holds a product exactly when one more of the requests has put it in
\* than has taken it out, however they overlap and whatever each of them was told.
CartLinesAgree ==
  \A u \in Users, p \in Products :
    /\ lines[u][p] = Cardinality(Added(u, p)) - Cardinality(Removed(u, p))
    /\ lines[u][p] <= 1

\* The rest of the inductive invariant.  A sign-up under way has written what it
\* has come to and nothing of what is to come, and is alone with its address.
SignUpInv ==
  \A s \in SignUps :
    LET u == UserOf[s] IN
    /\ pc[s] = "userCreated" => users[u] = 1 /\ carts[u] = 0 /\ wallets[u] = 0
    /\ pc[s] = "cartCreated" => users[u] = 1 /\ carts[u] = 1 /\ wallets[u] = 0
    /\ pc[s] = "done" => users[u] = 1 /\ carts[u] = 1 /\ wallets[u] = 1
    /\ s \in Started(u) => Started(u) = {s}

\* A request that has found the cart is about one that stays.
CartInv ==
  \A r \in CartRequests :
    pc[r] \in {"cartFound", "inStock", "touched", "lineFound", "lineDeleted", "lineGone"} =>
      carts[UserOf[r]] = 1

AccountInv == TypeOK /\ WalletAfterCart /\ SignUpInv /\ CartInv /\ CartLinesAgree
=============================================================================

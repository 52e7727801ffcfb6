---------------------------- MODULE ProductCache ----------------------------
(***************************************************************************)
(* Reading products through the cache, as the product page and every order *)
(* do: GET, on a miss the row of MySQL and SET with an expiry.  Nobody     *)
(* tells the cache that a price has changed, and an order charges what it  *)
(* has read.                                                               *)
(***************************************************************************)
EXTENDS Integers, Sequences

CONSTANTS
  Requests,
  Products,
  Wanted,      \* request |-> the products it reads, one after the other
  TTL,         \* the lifetime of an entry
  Patience,    \* bound on the time a request takes
  MaxChanges,  \* bound: product |-> the changes of its price
  MaxTime      \* bound on the clock

ASSUME CacheAssumption ==
  /\ Wanted \in [Requests -> Seq(Products)]
  /\ \A r \in Requests : Wanted[r] # <<>>
  /\ TTL \in Nat \ {0}
  /\ Patience \in Nat
  /\ MaxTime \in Nat
  /\ MaxChanges \in [Products -> Nat]

VARIABLES
  clock,
  changes,   \* product |-> when its price changed: row and entry hold the
             \* number of changes they reflect instead of the price
  entry,     \* product |-> what Redis holds, at most one [price, expires]
  since,     \* request |-> when it began
  prices,    \* request |-> the prices it has read
  fetched,   \* request |-> the price read from MySQL, while it is being cached
  pc         \* request |-> how far it is

vars == <<clock, changes, entry, since, prices, fetched, pc>>

InFlight == {"find", "read", "cache"}
Ended == {"answered", "noDatabase", "noCache"}

GoTo(r, s) == pc' = [pc EXCEPT ![r] = s]
Product(r) == Wanted[r][Len(prices[r]) + 1]
Price(p) == Len(changes[p])

Init ==
  /\ clock = 0
  /\ changes = [p \in Products |-> <<>>]
  /\ entry = [p \in Products |-> {}]
  /\ since = [r \in Requests |-> 0]
  /\ prices = [r \in Requests |-> <<>>]
  /\ fetched = [r \in Requests |-> 0]
  /\ pc = [r \in Requests |-> "idle"]

Tick ==
  /\ clock < MaxTime
  /\ \A r \in Requests : pc[r] \in InFlight => clock < since[r] + Patience
  /\ clock' = clock + 1
  /\ UNCHANGED <<changes, entry, since, prices, fetched, pc>>

\* ProductRepository.update: the row alone.
ChangePrice(p) ==
  /\ Price(p) < MaxChanges[p]
  /\ changes' = [changes EXCEPT ![p] = Append(@, clock)]
  /\ UNCHANGED <<clock, entry, since, prices, fetched, pc>>

Start(r) ==
  /\ pc[r] = "idle"
  /\ since' = [since EXCEPT ![r] = clock]
  /\ GoTo(r, "find")
  /\ UNCHANGED <<clock, changes, entry, prices, fetched>>

\* The price of a product is known: on to the next, or the answer.
Know(r, price) ==
  /\ prices' = [prices EXCEPT ![r] = Append(@, price)]
  /\ GoTo(r, IF Len(prices[r]) + 1 = Len(Wanted[r]) THEN "answered" ELSE "find")

Hit(r) ==
  /\ pc[r] = "find"
  /\ \E hit \in entry[Product(r)] : clock < hit.expires /\ Know(r, hit.price)
  /\ UNCHANGED <<clock, changes, entry, since, fetched>>

\* Nothing there, or an error of Redis, which RedisClient.get takes for the same.
Miss(r) ==
  /\ pc[r] = "find"
  /\ GoTo(r, "read")
  /\ UNCHANGED <<clock, changes, entry, since, prices, fetched>>

ReadRow(r) ==
  /\ pc[r] = "read"
  /\ fetched' = [fetched EXCEPT ![r] = Price(Product(r))]
  /\ GoTo(r, "cache")
  /\ UNCHANGED <<clock, changes, entry, since, prices>>

\* PRODUCT_NOT_FOUND, whatever the error.
ReadFails(r) ==
  /\ pc[r] = "read"
  /\ GoTo(r, "noDatabase")
  /\ UNCHANGED <<clock, changes, entry, since, prices, fetched>>

\* Mutant: SET without EX.
SetForEver(r) ==
  entry' = [entry EXCEPT ![Product(r)] =
    {[price |-> fetched[r], expires |-> MaxTime + TTL]}]

Set(r) ==
  entry' = [entry EXCEPT ![Product(r)] =
    {[price |-> fetched[r], expires |-> clock + TTL]}]

Cache(r) ==
  /\ pc[r] = "cache"
  /\ Set(r)
  /\ Know(r, fetched[r])
  /\ UNCHANGED <<clock, changes, since, fetched>>

\* The error of a SET, which may have taken effect, ends the request.
CacheFails(r) ==
  /\ pc[r] = "cache"
  /\ Set(r) \/ UNCHANGED entry
  /\ GoTo(r, "noCache")
  /\ UNCHANGED <<clock, changes, since, prices, fetched>>

Step(r) ==
  \/ Start(r)
  \/ Hit(r)
  \/ Miss(r)
  \/ ReadRow(r)
  \/ ReadFails(r)
  \/ Cache(r)
  \/ CacheFails(r)

Next ==
  \/ Tick
  \/ \E p \in Products : ChangePrice(p)
  \/ \E r \in Requests : Step(r)

Spec == Init /\ [][Next]_vars

-----------------------------------------------------------------------------
\* No change at or before the time has replaced the price.
CurrentAt(p, price, time) == price < Price(p) => changes[p][price + 1] >= time

StaleAtMost(age) ==
  \A r \in Requests : \A i \in 1..Len(prices[r]) :
    CurrentAt(Wanted[r][i], prices[r][i], since[r] - age)

\* A price that a request works with had not been out of date for longer than
\* the TTL and the time of another request when the request came in, although
\* a slow reader may put an old price over a newer one.
PriceFreshWithinTtl == StaleAtMost(TTL + Patience)

Typed ==
  /\ clock \in Nat
  /\ changes \in [Products -> Seq(Nat)]
  /\ entry \in [Products -> SUBSET [price : Nat, expires : Nat]]
  /\ since \in [Requests -> Nat]
  /\ prices \in [Requests -> Seq(Nat)]
  /\ fetched \in [Requests -> Nat]
  /\ pc \in [Requests -> {"idle"} \cup InFlight \cup Ended]

\* The invariant behind it: an entry was current when the request that wrote it
\* came in, which is no longer ago than Patience before it was written; what a
\* request has fetched was current after it came in.
RequestSound(r) ==
  /\ Len(prices[r]) <= Len(Wanted[r])
  /\ since[r] <= clock
  /\ pc[r] = "idle" => prices[r] = <<>>
  /\ pc[r] \in InFlight => /\ Len(prices[r]) < Len(Wanted[r])
                           /\ clock <= since[r] + Patience
  /\ pc[r] = "cache" => CurrentAt(Product(r), fetched[r], since[r])

EntrySound(p) ==
  \A e \in entry[p] :
    /\ e.expires <= clock + TTL
    /\ CurrentAt(p, e.price, e.expires - TTL - Patience)

CacheInv ==
  /\ Typed
  /\ \A r \in Requests : RequestSound(r)
  /\ \A p \in Products : EntrySound(p)
  /\ PriceFreshWithinTtl
=============================================================================

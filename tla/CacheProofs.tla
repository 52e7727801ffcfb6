---------------------------- MODULE CacheProofs ----------------------------
(* ProductCache: how old a price may be, for any number of readers. *)
EXTENDS ProductCache, TLAPS

\* A price that was current at a time was so before, and stays so in the past
\* when another change comes.
LEMMA CurrentEarlier ==
  ASSUME NEW p \in Products, NEW price \in Nat, NEW t \in Int, NEW u \in Int,
         changes \in [Products -> Seq(Nat)], u <= t, CurrentAt(p, price, t)
  PROVE  CurrentAt(p, price, u)
<1>1. CASE price < Price(p)
  <2>1. price + 1 \in 1..Len(changes[p])
    BY <1>1 DEF Price
  <2>2. changes[p][price + 1] \in Nat
    BY <2>1
  <2> QED BY <1>1, <2>2 DEF CurrentAt
<1>2. CASE ~(price < Price(p))
  BY <1>2 DEF CurrentAt
<1> QED BY <1>1, <1>2

LEMMA CurrentKept ==
  ASSUME NEW p \in Products, NEW q \in Products, NEW price \in Nat, NEW t \in Int,
         changes \in [Products -> Seq(Nat)], clock \in Nat, t <= clock,
         changes' = [changes EXCEPT ![q] = Append(@, clock)], CurrentAt(p, price, t)
  PROVE  CurrentAt(p, price, t)'
<1>1. CASE p # q
  BY <1>1 DEF CurrentAt, Price
<1>2. CASE p = q
  <2>1. changes'[p] = Append(changes[p], clock) /\ changes[p] \in Seq(Nat)
    BY <1>2
  <2>2. CASE price < Len(changes[p])
    BY <2>1, <2>2 DEF CurrentAt, Price
  <2>3. CASE price >= Len(changes[p])
    BY <2>1, <2>3 DEF CurrentAt, Price
  <2> QED BY <2>1, <2>2, <2>3
<1> QED BY <1>1, <1>2

LEMMA ItemWanted ==
  ASSUME Typed, NEW r \in Requests, Len(prices[r]) < Len(Wanted[r])
  PROVE  /\ Len(prices[r]) + 1 \in 1..Len(Wanted[r])
         /\ Product(r) \in Products
BY CacheAssumption DEF Typed, Product

LEMMA WantedProduct ==
  ASSUME NEW r \in Requests, NEW i \in 1..Len(Wanted[r])
  PROVE  Wanted[r][i] \in Products
BY CacheAssumption

\* Learning one more price of a product keeps the request's prices fresh.
LEMMA KnowFresh ==
  ASSUME CacheInv, NEW r \in Requests, NEW price \in Nat, pc[r] \in InFlight,
         Know(r, price), UNCHANGED <<changes, since>>,
         CurrentAt(Product(r), price, since[r] - (TTL + Patience))
  PROVE  PriceFreshWithinTtl' /\ prices' \in [Requests -> Seq(Nat)]
<1>1. Typed /\ PriceFreshWithinTtl /\ RequestSound(r)
  BY DEF CacheInv
<1>2. prices'[r] = Append(prices[r], price) /\ prices[r] \in Seq(Nat)
      /\ \A s \in Requests : s # r => prices'[s] = prices[s]
  BY <1>1 DEF Know, Typed
<1>3. prices' \in [Requests -> Seq(Nat)]
  BY <1>1, <1>2 DEF Know, Typed
<1>4. ASSUME NEW s \in Requests, NEW i \in 1..Len(prices'[s])
      PROVE  CurrentAt(Wanted[s][i], prices'[s][i], since[s] - (TTL + Patience))
  <2>1. CASE s # r
    BY <1>1, <1>2, <1>4, <2>1 DEF PriceFreshWithinTtl, StaleAtMost
  <2>2. CASE s = r /\ i <= Len(prices[r])
    <3>1. prices'[s][i] = prices[r][i] /\ i \in 1..Len(prices[r])
      BY <1>2, <1>4, <2>2
    <3> QED BY <1>1, <2>2, <3>1 DEF PriceFreshWithinTtl, StaleAtMost
  <2>3. CASE s = r /\ i = Len(prices[r]) + 1
    <3>1. prices'[s][i] = price /\ Wanted[s][i] = Product(r)
      BY <1>2, <2>3 DEF Product
    <3> QED BY <2>3, <3>1
  <2> QED BY <1>2, <1>4, <2>1, <2>2, <2>3
<1>5. PriceFreshWithinTtl'
  BY <1>4 DEF PriceFreshWithinTtl, StaleAtMost, CurrentAt, Price
<1> QED BY <1>3, <1>5

LEMMA KnowSound ==
  ASSUME CacheInv, NEW r \in Requests, NEW price \in Nat, pc[r] \in InFlight,
         Know(r, price), UNCHANGED <<clock, changes, since, fetched>>,
         prices' \in [Requests -> Seq(Nat)],
         entry' \in [Products -> SUBSET [price : Nat, expires : Nat]]
  PROVE  Typed' /\ RequestSound(r)'
<1>1. Typed /\ RequestSound(r)
  BY DEF CacheInv
<1>2. Len(prices[r]) < Len(Wanted[r]) /\ prices[r] \in Seq(Nat) /\ Len(Wanted[r]) \in Nat
  BY <1>1, CacheAssumption DEF RequestSound, Typed
<1>3. prices'[r] = Append(prices[r], price)
  BY <1>1 DEF Know, Typed
<1>4. Len(prices'[r]) = Len(prices[r]) + 1
  BY <1>2, <1>3
<1>5. pc' = [pc EXCEPT ![r] = IF Len(prices[r]) + 1 = Len(Wanted[r]) THEN "answered" ELSE "find"]
  BY DEF Know, GoTo
<1>6. Typed'
  BY <1>1, <1>5 DEF Typed, InFlight, Ended
<1>7. pc'[r] = "answered" \/ (pc'[r] = "find" /\ Len(prices[r]) + 1 < Len(Wanted[r]))
  BY <1>1, <1>2, <1>5 DEF Typed
<1>8. RequestSound(r)'
  BY <1>1, <1>2, <1>4, <1>7 DEF RequestSound, InFlight
<1> QED BY <1>6, <1>8

LEMMA RequestsKept ==
  ASSUME CacheInv, NEW r \in Requests, UNCHANGED <<clock, changes, since, fetched>>,
         prices' \in [Requests -> Seq(Nat)],
         \A s \in Requests : s # r => prices'[s] = prices[s] /\ pc'[s] = pc[s],
         RequestSound(r)'
  PROVE  \A s \in Requests : RequestSound(s)'
<1> SUFFICES ASSUME NEW s \in Requests, s # r PROVE RequestSound(s)'
  OBVIOUS
<1>1. RequestSound(s)
  BY DEF CacheInv
<1> QED BY <1>1 DEF RequestSound, Product, CurrentAt, Price

LEMMA EntriesKept ==
  ASSUME CacheInv, UNCHANGED <<clock, changes, entry>>
  PROVE  \A p \in Products : EntrySound(p)'
BY DEF CacheInv, EntrySound, CurrentAt, Price

LEMMA FreshKept ==
  ASSUME CacheInv, UNCHANGED <<changes, since, prices>>
  PROVE  PriceFreshWithinTtl'
BY DEF CacheInv, PriceFreshWithinTtl, StaleAtMost, CurrentAt, Price

\* What a request has fetched may go into the cache.
LEMMA SetSound ==
  ASSUME CacheInv, NEW r \in Requests, pc[r] = "cache", Set(r), UNCHANGED <<clock, changes>>
  PROVE  entry' \in [Products -> SUBSET [price : Nat, expires : Nat]]
         /\ \A p \in Products : EntrySound(p)'
<1> DEFINE new == [price |-> fetched[r], expires |-> clock + TTL]
<1>1. Typed /\ RequestSound(r)
  BY DEF CacheInv
<1>2. Product(r) \in Products
  BY <1>1, ItemWanted DEF RequestSound, InFlight
<1>3. /\ clock \in Nat /\ since[r] \in Nat /\ fetched[r] \in Nat
      /\ changes \in [Products -> Seq(Nat)]
      /\ entry \in [Products -> SUBSET [price : Nat, expires : Nat]]
  BY <1>1 DEF Typed
<1>4. TTL \in Nat /\ Patience \in Nat
  BY CacheAssumption
<1>5. clock <= since[r] + Patience /\ CurrentAt(Product(r), fetched[r], since[r])
  BY <1>1 DEF RequestSound, InFlight
<1>6. new \in [price : Nat, expires : Nat]
  BY <1>3, <1>4
<1>7. entry' = [entry EXCEPT ![Product(r)] = {new}]
  BY DEF Set
<1>8. CurrentAt(Product(r), fetched[r], new.expires - TTL - Patience)
  <2>1. new.expires - TTL - Patience \in Int /\ new.expires - TTL - Patience <= since[r]
    BY <1>3, <1>4, <1>5
  <2> QED BY <1>2, <1>3, <1>5, <2>1, CurrentEarlier
<1>9. ASSUME NEW p \in Products PROVE EntrySound(p)'
  <2>1. CASE p = Product(r)
    <3>1. entry'[p] = {new}
      BY <1>2, <1>3, <1>7, <2>1
    <3>2. new.expires <= clock + TTL /\ new.price = fetched[r]
      BY <1>3, <1>4
    <3> QED BY <1>8, <2>1, <3>1, <3>2 DEF EntrySound, CurrentAt, Price
  <2>2. CASE p # Product(r)
    <3>1. EntrySound(p) /\ entry'[p] = entry[p]
      BY <1>2, <1>3, <1>7, <2>2 DEF CacheInv
    <3> QED BY <3>1 DEF EntrySound, CurrentAt, Price
  <2> QED BY <2>1, <2>2
<1> HIDE DEF new
<1> QED BY <1>2, <1>3, <1>6, <1>7, <1>9

-----------------------------------------------------------------------------
LEMMA CacheStep ==
  ASSUME CacheInv, [Next]_vars
  PROVE  CacheInv'
<1>1. /\ Typed /\ PriceFreshWithinTtl
      /\ \A s \in Requests : RequestSound(s)
      /\ \A p \in Products : EntrySound(p)
  BY DEF CacheInv
<1>2. TTL \in Nat /\ Patience \in Nat
  BY CacheAssumption
<1>3. CASE Tick
  <2>1. Typed'
    BY <1>1, <1>3 DEF Tick, Typed
  <2>2. ASSUME NEW s \in Requests PROVE RequestSound(s)'
    <3>1. RequestSound(s) /\ clock \in Nat /\ since[s] \in Nat
      BY <1>1 DEF Typed
    <3>2. pc[s] \in InFlight => clock + 1 <= since[s] + Patience
      BY <1>2, <1>3, <3>1 DEF Tick
    <3> QED BY <1>3, <3>1, <3>2 DEF Tick, RequestSound, Product, CurrentAt, Price
  <2>3. ASSUME NEW p \in Products PROVE EntrySound(p)'
    <3>1. EntrySound(p) /\ clock \in Nat /\ \A e \in entry[p] : e.expires \in Nat
      BY <1>1 DEF Typed
    <3> QED BY <1>2, <1>3, <3>1 DEF Tick, EntrySound, CurrentAt, Price
  <2>4. PriceFreshWithinTtl'
    BY <1>3, FreshKept DEF Tick
  <2> QED BY <2>1, <2>2, <2>3, <2>4 DEF CacheInv
<1>4. ASSUME NEW q \in Products, ChangePrice(q) PROVE CacheInv'
  <2>1. /\ changes' = [changes EXCEPT ![q] = Append(@, clock)]
        /\ UNCHANGED <<clock, entry, since, prices, fetched, pc>>
    BY <1>4 DEF ChangePrice
  <2>2. /\ clock \in Nat /\ changes \in [Products -> Seq(Nat)]
    BY <1>1 DEF Typed
  <2>3. \A p, price, t : p \in Products /\ price \in Nat /\ t \in Int /\ t <= clock
                          /\ CurrentAt(p, price, t) => CurrentAt(p, price, t)'
    BY <2>1, <2>2, CurrentKept
  <2>4. Typed'
    BY <1>1, <2>1 DEF Typed
  <2>5. ASSUME NEW s \in Requests PROVE RequestSound(s)'
    <3>1. RequestSound(s) /\ since[s] \in Nat /\ fetched[s] \in Nat
      BY <1>1 DEF Typed
    <3>2. CASE pc[s] = "cache"
      <4>1. Product(s) \in Products /\ since[s] <= clock
            /\ CurrentAt(Product(s), fetched[s], since[s])
        BY <1>1, <3>1, <3>2, ItemWanted DEF RequestSound, InFlight
      <4> DEFINE p == Product(s)
                 price == fetched[s]
                 t == since[s]
      <4>2. p \in Products /\ price \in Nat /\ t \in Int /\ t <= clock /\ CurrentAt(p, price, t)
        BY <3>1, <4>1
      <4>3. t' = t /\ price' = price /\ p' = p
        BY <2>1 DEF Product
      <4> HIDE DEF p, price, t
      <4>4. CurrentAt(Product(s), fetched[s], since[s])'
        BY <2>3, <4>2, <4>3 DEF p, price, t, CurrentAt, Price
      <4> QED BY <2>1, <3>1, <4>4 DEF RequestSound
    <3>3. CASE pc[s] # "cache"
      BY <2>1, <3>1, <3>3 DEF RequestSound
    <3> QED BY <3>2, <3>3
  <2>6. ASSUME NEW p \in Products PROVE EntrySound(p)'
    <3>1. ASSUME NEW e \in entry[p]
          PROVE  e.expires <= clock + TTL /\ CurrentAt(p, e.price, e.expires - TTL - Patience)'
      <4>1. e.price \in Nat /\ e.expires \in Nat /\ e.expires <= clock + TTL
            /\ CurrentAt(p, e.price, e.expires - TTL - Patience)
        BY <1>1, <3>1 DEF Typed, EntrySound
      <4>2. e.expires - TTL - Patience \in Int /\ e.expires - TTL - Patience <= clock
        BY <1>2, <2>2, <4>1
      <4>3. CurrentAt(p, e.price, e.expires - TTL - Patience)'
        BY <2>1, <2>2, <4>1, <4>2, CurrentKept
      <4> QED BY <4>1, <4>3
    <3> QED BY <2>1, <3>1 DEF EntrySound, CurrentAt, Price
  <2>7. ASSUME NEW s \in Requests, NEW i \in 1..Len(prices[s])
        PROVE  CurrentAt(Wanted[s][i], prices[s][i], since[s] - (TTL + Patience))'
    <3>1. RequestSound(s) /\ since[s] \in Nat /\ prices[s] \in Seq(Nat)
      BY <1>1 DEF Typed
    <3>2. Len(Wanted[s]) \in Nat
      BY CacheAssumption
    <3>3. i \in 1..Len(Wanted[s]) /\ since[s] <= clock /\ prices[s][i] \in Nat
      BY <3>1, <3>2 DEF RequestSound
    <3>4. Wanted[s][i] \in Products
      BY <3>3, WantedProduct
    <3>5. CurrentAt(Wanted[s][i], prices[s][i], since[s] - (TTL + Patience))
      BY <1>1 DEF PriceFreshWithinTtl, StaleAtMost
    <3>6. since[s] - (TTL + Patience) \in Int /\ since[s] - (TTL + Patience) <= clock
      BY <1>2, <2>2, <3>1, <3>3
    <3> DEFINE p == Wanted[s][i]
               price == prices[s][i]
               t == since[s] - (TTL + Patience)
    <3>7. p \in Products /\ price \in Nat /\ t \in Int /\ t <= clock /\ CurrentAt(p, price, t)
      BY <3>3, <3>4, <3>5, <3>6
    <3>8. t' = t /\ price' = price /\ p' = p
      BY <2>1
    <3> HIDE DEF p, price, t
    <3> QED BY <2>3, <3>7, <3>8 DEF p, price, t, CurrentAt, Price
  <2>8. PriceFreshWithinTtl'
    BY <2>1, <2>7 DEF PriceFreshWithinTtl, StaleAtMost
  <2> QED BY <2>4, <2>5, <2>6, <2>8 DEF CacheInv
<1>5. ASSUME NEW r \in Requests, Step(r) PROVE CacheInv'
  <2>1. RequestSound(r) /\ clock \in Nat /\ since[r] \in Nat /\ fetched[r] \in Nat
        /\ pc \in [Requests -> {"idle"} \cup InFlight \cup Ended]
        /\ prices \in [Requests -> Seq(Nat)]
    BY <1>1, <1>5 DEF Typed
  <2>2. CASE Start(r)
    <3>1. /\ pc[r] = "idle" /\ since' = [since EXCEPT ![r] = clock]
          /\ pc' = [pc EXCEPT ![r] = "find"]
          /\ UNCHANGED <<clock, changes, entry, prices, fetched>>
      BY <2>2 DEF Start, GoTo
    <3>2. Typed'
      BY <1>1, <3>1 DEF Typed, InFlight
    <3>3. prices[r] = <<>> /\ since'[r] = clock /\ pc'[r] = "find" /\ Len(Wanted[r]) > 0
      BY <1>1, <2>1, <3>1, CacheAssumption DEF RequestSound, Typed
    <3>4. RequestSound(r)'
      BY <1>2, <2>1, <3>1, <3>3 DEF RequestSound, InFlight
    <3>5. ASSUME NEW s \in Requests, s # r PROVE RequestSound(s)'
      <4>1. RequestSound(s) /\ since'[s] = since[s] /\ pc'[s] = pc[s]
        BY <1>1, <3>1, <3>5 DEF Typed
      <4> QED BY <3>1, <4>1 DEF RequestSound, Product, CurrentAt, Price
    <3>6. ASSUME NEW s \in Requests, NEW i \in 1..Len(prices[s])
          PROVE  CurrentAt(Wanted[s][i], prices[s][i], since'[s] - (TTL + Patience))
      <4>1. s # r /\ since'[s] = since[s]
        BY <1>1, <3>1, <3>3, <3>6 DEF Typed
      <4> QED BY <1>1, <4>1 DEF PriceFreshWithinTtl, StaleAtMost
    <3>7. PriceFreshWithinTtl'
      BY <3>1, <3>6 DEF PriceFreshWithinTtl, StaleAtMost, CurrentAt, Price
    <3> QED BY <3>1, <3>2, <3>4, <3>5, <3>7, EntriesKept DEF CacheInv
  <2>3. CASE Hit(r)
    <3>1. PICK hit \in entry[Product(r)] : clock < hit.expires /\ Know(r, hit.price)
      BY <2>3 DEF Hit
    <3>2. pc[r] \in InFlight /\ UNCHANGED <<clock, changes, entry, since, fetched>>
      BY <2>3 DEF Hit, InFlight
    <3>3. Product(r) \in Products
      BY <1>1, <2>1, <3>2, ItemWanted DEF RequestSound
    <3>4. hit.price \in Nat /\ hit.expires \in Nat
          /\ changes \in [Products -> Seq(Nat)]
      BY <1>1, <3>1, <3>3 DEF Typed
    <3>5. CurrentAt(Product(r), hit.price, hit.expires - TTL - Patience)
      BY <1>1, <3>1, <3>3 DEF EntrySound
    <3>6. /\ hit.expires - TTL - Patience \in Int
          /\ since[r] - (TTL + Patience) \in Int
          /\ since[r] - (TTL + Patience) <= hit.expires - TTL - Patience
      BY <1>2, <2>1, <3>1, <3>4 DEF RequestSound
    <3>7. CurrentAt(Product(r), hit.price, since[r] - (TTL + Patience))
      BY <3>3, <3>4, <3>5, <3>6, CurrentEarlier
    <3>8. PriceFreshWithinTtl' /\ prices' \in [Requests -> Seq(Nat)]
      BY <3>1, <3>2, <3>4, <3>7, KnowFresh
    <3>9. entry' \in [Products -> SUBSET [price : Nat, expires : Nat]]
      BY <1>1, <3>2 DEF Typed
    <3>10. Typed' /\ RequestSound(r)'
      BY <3>1, <3>2, <3>4, <3>8, <3>9, KnowSound
    <3>11. \A s \in Requests : RequestSound(s)'
      BY <3>1, <3>2, <3>8, <3>10, <2>1, RequestsKept DEF Know, GoTo
    <3> QED BY <3>2, <3>8, <3>10, <3>11, EntriesKept DEF CacheInv
  <2>4. CASE Miss(r) \/ ReadFails(r)
    <3>1. Typed' /\ UNCHANGED <<clock, changes, entry, since, prices, fetched>>
      BY <1>1, <2>4 DEF Miss, ReadFails, GoTo, Typed, InFlight, Ended
    <3>2. pc[r] \in InFlight /\ pc'[r] \in {"read", "noDatabase"}
      BY <2>1, <2>4 DEF Miss, ReadFails, GoTo, InFlight
    <3>3. RequestSound(r)'
      BY <2>1, <3>1, <3>2 DEF RequestSound
    <3>4. \A s \in Requests : RequestSound(s)'
      BY <2>1, <2>4, <3>1, <3>3, RequestsKept DEF Miss, ReadFails, GoTo
    <3> QED BY <3>1, <3>4, EntriesKept, FreshKept DEF CacheInv
  <2>5. CASE ReadRow(r)
    <3>1. UNCHANGED <<clock, changes, entry, since, prices>> /\ pc[r] = "read"
          /\ pc' = [pc EXCEPT ![r] = "cache"]
          /\ fetched' = [fetched EXCEPT ![r] = Price(Product(r))]
      BY <2>5 DEF ReadRow, GoTo
    <3>2. Product(r) \in Products
      BY <1>1, <2>1, <3>1, ItemWanted DEF RequestSound, InFlight
    <3>3. Price(Product(r)) \in Nat
      BY <1>1, <3>2 DEF Typed, Price
    <3>4. Typed'
      BY <1>1, <3>1, <3>3 DEF Typed, InFlight
    <3>5. CurrentAt(Product(r), fetched[r], since[r])'
      BY <1>1, <3>1, <3>3 DEF Typed, CurrentAt, Price, Product
    <3>6. RequestSound(r)'
      BY <2>1, <3>1, <3>5 DEF RequestSound, InFlight
    <3>7. ASSUME NEW s \in Requests, s # r PROVE RequestSound(s)'
      <4>1. RequestSound(s) /\ fetched'[s] = fetched[s] /\ pc'[s] = pc[s]
        BY <1>1, <3>1, <3>7 DEF Typed
      <4> QED BY <3>1, <4>1 DEF RequestSound, Product, CurrentAt, Price
    <3> QED BY <3>1, <3>4, <3>6, <3>7, EntriesKept, FreshKept DEF CacheInv
  <2>6. CASE Cache(r)
    <3>1. pc[r] = "cache" /\ Set(r) /\ Know(r, fetched[r])
          /\ UNCHANGED <<clock, changes, since, fetched>>
      BY <2>6 DEF Cache
    <3>2. Product(r) \in Products
      BY <1>1, <2>1, <3>1, ItemWanted DEF RequestSound, InFlight
    <3>3. CurrentAt(Product(r), fetched[r], since[r])
          /\ changes \in [Products -> Seq(Nat)]
      BY <1>1, <2>1, <3>1 DEF RequestSound, Typed
    <3>4. since[r] - (TTL + Patience) \in Int /\ since[r] - (TTL + Patience) <= since[r]
      BY <1>2, <2>1
    <3>5. CurrentAt(Product(r), fetched[r], since[r] - (TTL + Patience))
      BY <2>1, <3>2, <3>3, <3>4, CurrentEarlier
    <3>6. PriceFreshWithinTtl' /\ prices' \in [Requests -> Seq(Nat)]
      BY <2>1, <3>1, <3>5, KnowFresh DEF InFlight
    <3>7. entry' \in [Products -> SUBSET [price : Nat, expires : Nat]]
          /\ \A p \in Products : EntrySound(p)'
      BY <3>1, SetSound
    <3>8. Typed' /\ RequestSound(r)'
      BY <1>1, <2>1, <3>1, <3>6, <3>7, KnowSound DEF InFlight
    <3>9. \A s \in Requests : RequestSound(s)'
      BY <2>1, <3>1, <3>6, <3>8, RequestsKept DEF Know, GoTo
    <3> QED BY <3>6, <3>7, <3>8, <3>9 DEF CacheInv
  <2>7. CASE CacheFails(r)
    <3>1. pc[r] = "cache" /\ (Set(r) \/ UNCHANGED entry)
          /\ pc' = [pc EXCEPT ![r] = "noCache"]
          /\ UNCHANGED <<clock, changes, since, prices, fetched>>
      BY <2>7 DEF CacheFails, GoTo
    <3>2. entry' \in [Products -> SUBSET [price : Nat, expires : Nat]]
          /\ \A p \in Products : EntrySound(p)'
      <4>1. CASE Set(r)
        BY <3>1, <4>1, SetSound
      <4>2. CASE UNCHANGED entry
        BY <1>1, <3>1, <4>2, EntriesKept DEF Typed
      <4> QED BY <3>1, <4>1, <4>2
    <3>3. Typed'
      BY <1>1, <3>1, <3>2 DEF Typed, Ended
    <3>4. RequestSound(r)'
      BY <2>1, <3>1 DEF RequestSound, InFlight
    <3>5. \A s \in Requests : RequestSound(s)'
      BY <2>1, <3>1, <3>4, RequestsKept
    <3> QED BY <3>1, <3>2, <3>3, <3>5, FreshKept DEF CacheInv
  <2> QED BY <1>5, <2>2, <2>3, <2>4, <2>5, <2>6, <2>7 DEF Step
<1>6. CASE UNCHANGED vars
  <2>1. Typed' /\ \A s \in Requests : RequestSound(s)'
    BY <1>1, <1>6 DEF vars, Typed, RequestSound, Product, CurrentAt, Price
  <2> QED BY <1>6, <2>1, EntriesKept, FreshKept DEF vars, CacheInv
<1> QED BY <1>3, <1>4, <1>5, <1>6 DEF Next

-----------------------------------------------------------------------------
\* What the cache holds and what requests have read of it is as old as the TTL
\* and a request's time allow, in every reachable state.
THEOREM CacheSound == Spec => []CacheInv
<1>1. Init => CacheInv
  BY CacheAssumption DEF Init, CacheInv, Typed, RequestSound, EntrySound, PriceFreshWithinTtl,
    StaleAtMost, InFlight
<1> QED BY <1>1, CacheStep, PTL DEF Spec

\* A price had not been replaced for longer than the TTL and another request's
\* time when the request came in that uses it, however many readers put old and
\* new prices into the cache.
THEOREM PricesFresh == Spec => []PriceFreshWithinTtl
<1>1. CacheInv => PriceFreshWithinTtl
  BY DEF CacheInv
<1> QED BY <1>1, CacheSound, PTL
=============================================================================

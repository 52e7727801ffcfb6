# E-commerce service: a TLA+ model, its checks and its proofs

The service is a NestJS application on MySQL (Prisma), Redis and Kafka. Users
charge points, browse products, reserve stock, place orders and are charged for
them; an order runs as a saga over three Kafka topics, driven by an outbox table.
This directory holds TLA+ models of the parts that keep state, TLC runs that
check them on small instances, and TLAPS proofs of what matters most for
every instance. `src/...` below is the repository's path.

## 1. Inventory

| Part | State | Operations | Talks to |
|---|---|---|---|
| Outbox poller (`OutboxPollingService`) | `outbox_event` rows; in memory: the rows of the current pass, retries | INIT pass: publish, mark SUCCESS; FAIL pass: compensate, mark SUCCESS | MySQL, Kafka producers |
| Event consumers (`ProductEventConsumer`, `UserEventConsumer`, `OrderEventConsumer`, `ConsumerInterceptor`) | offsets, MurLock locks in Redis, the message in progress | deduct stock; charge; mark PAID; write the failed event; reopen ORDER_CREATED; commit the offset | Kafka, Redis, MySQL |
| Order (`OrderService`, `OrderFacade`) | `order`, `order_item` | place, mark PAID, mark FAILED | stock reservation, outbox |
| Wallet (`WalletService`, `PointService`) | `wallet` (total, version), `point` | charge, complete payment, read the total | MySQL |
| Product stock (`ProductService`, `ProductStockRepository`) | `product_stock` | deduct, restore, under row locks | MySQL |
| Stock reservation (`ProductStockCacheStore`) | a Redis sorted set per product, one member per unit, scored by its expiry | purge, count, add | Redis, `product_stock` |
| Account and cart (`UserFacade.signUp`, `CartService`) | `user`, `cart`, `wallet`, `cart_item` | sign up, add and remove a line | MySQL |
| Product cache (`ProductCacheStore`) | Redis `product:<id>` with a TTL | cache-aside read | Redis, `product` |
| HTTP layer (controllers, `AuthGuard`, pipes, `EffectInterceptor`, `ErrorsInterceptor`) | the request in progress; tokens at the clients | route, verify, validate, call a facade, answer | the facades |
| Popular products | `popular_product` | one query, sorted in memory | MySQL |
| Configuration, logging, telemetry | none | start-up, log lines, traces | everything |

What is hard: several instances poll the same rows and share the topics; every
call to MySQL, Redis or Kafka is a point where another process runs, where the
call fails, or where the process dies; Kafka repeats and replays messages; locks
expire under their holders; errors are swallowed in six places, and one is thrown where
nothing answers for it.

What makes each part correct:

* saga: an order's stock is deducted and its user charged at most once, in that
  order; PAID and FAILED are final and truthful; stock goes back only for an order
  that was not charged; no order is lost or stuck between two steps; the polling comes
  to rest;
* wallet: the total is what the committed points add up to, never negative, and
  concurrent requests conflict rather than overwrite each other;
* stock: no lost update, all lines of an order or none, no deadlock;
* reservation: how far concurrent orders may overbook; room comes back;
* account: user, cart and wallet exist together, the cart's lines are what was
  added and not removed; cache: prices are not served past the TTL;
* HTTP: private methods serve live sessions only, the status tells what happened, and
  every request but one kind is answered.

## 2. Modules

| Module | What it is | Extends |
|---|---|---|
| `SagaState` | the tables, topics, locks and memories of the saga; its constants and bounds | |
| `OutboxPoller` | one action per call of `OutboxPollingService` | `SagaState` |
| `SagaConsumers` | one action per step of the three Kafka handlers | `SagaState` |
| `OrderSaga` | both composed with clients, crashes, rebalances, lease ends; the properties | the two above |
| `OrderLifecycle` | abstract: the business events of an order | |
| `Wallet`, `AtomicWallet` | transactions on a wallet row; abstract: requests that take effect at once | |
| `StockTransactions`, `AtomicStock` | stock transactions row lock by row lock; abstract: one step each | |
| `StockReservation` | `POST /orders` up to the order's transaction | |
| `Account` | sign-up and cart | |
| `ProductCache` | cache-aside reads | |
| `HttpLayer` | a request from the choice of its route to the status of its answer | |
| `MC*` | instances for TLC | the module they name |
| `OrderSagaProofs`, `DeliveryProofs` | proofs about the saga, the second extending the first | `OrderSaga` |
| `WalletProofs`, `StockProofs`, `ReservationProofs`, `AccountProofs`, `CacheProofs`, `HttpProofs` | proofs about those modules | the module they name |

The modules are composed by abstraction: the saga takes a payment and a stock
transaction as one step each. `AtomicWallet` and `AtomicStock` are the seam: `Wallet` and
`StockTransactions` implement them from below, row lock by row lock and version by version,
and `OrderSaga` implements them from above (`Purse(u)` per user, `Shelf`), so what the saga
assumes of a transaction is what the transactions promise. `StockReservation` takes the
saga's effect on the shelf as three steps of its own (`Take`, `Restore`, `Short`).
`HttpLayer` knows a facade by the outcomes it may return; the other modules open the
facades that change state.

They were written in the order of the table, the most important behaviour first:
the saga, then the two transactions it takes for granted, then the way into it.

## 3. How the models correspond to the code

### Order saga

`status`, `outbox`, `stock`, `balance` are the tables. `log`, `consumed`,
`committed`, `owner` are Kafka: a sequence of orders per partition, how far the
group has read, the committed offset, the assignment. `lock` is MurLock's key per
topic. `pass`, `job`, `tries` are a poller's memory, `pc` and `msg` a consumer's.
`deducted`, `restored`, `charged` are history: they count committed transactions
and no action reads them.

* A poller reads up to `Take` rows of one status (`FindEventsByStatus`), works on
  at most `Concurrency` of them in any order, and starts the other status when all
  are done. Publishing and the update to SUCCESS are two steps, because the row
  and Kafka can change in between; so are the compensation and its update.
* A handler fetches a message, takes the lock, runs its transaction, may write a
  second row outside it (`failrow`, `reopen`), and commits. `LockFails`,
  `ReopenFails`, `CreateFailedEventFails`, `MarkPaidFails`, `CommitFails` are the
  code's swallowed errors.
* The committed offset is the offset of the message itself
  (`consumer.interceptor.ts:30`), so whoever reads on from it reads that message
  again. The group starts with a committed offset of zero.
* `Fault(kind)` marks each step that only a failure explains. A run gives the plans
  (`FaultPlans`) of how many faults of each kind one behaviour may contain; the proofs
  are for all plans.
* A transaction or an update that took effect is `Heard`, or it is `Unheard`: the
  connection is lost before the answer, and the code goes on as after an error. For a
  deduction that is to reopen ORDER_CREATED, for a payment to write the failed event,
  for a compensation to repeat it. (`prisma.service.ts:105` makes every error an
  `AppConflictException`, so the code cannot tell.)
* The release of a lock is part of the step that ends the message, and looking up
  the row to reopen part of reopening it: rows are never deleted.
* A call that was in flight when its batch was aborted either happened before the
  abort or did not happen.

* Users' points change in the saga by payments only. A charge (`POST /users/wallet/point`)
  between a payment's read and its update moves the version and so makes the payment
  fail: in the saga that is one of the database's faults, in `Wallet` a step of the rival.

External, modelled from how it is used: MurLock (three attempts a second apart,
a lease of four seconds, `app.module.ts:21-32`), the consumer group of kafkajs,
process restarts.

### Wallet and stock

A wallet request reads the row (`Read`), and updates it with the version it read in
the `where` (`Update`); from then on it holds the row's lock until it commits or
rolls back. Prisma's `update` with a version in the filter is taken to be one
conditional statement which fails when no row matches. A charge updates and then
inserts the point, a payment inserts first, as in the code. `points` is the set of
requests whose point row is committed. A commit may stay unheard: the caller is told of
a conflict, the points have moved. There is one wallet: wallets share nothing.

Amounts come as doubles, the columns are `DECIMAL(65,2)`. The model counts in hundredths.
A charge may ask for a fraction of a hundredth (`point-charge-request.dto.ts` lets it):
each column rounds to the nearest hundredth, and of a charge with half of one (`Halves`)
the total and the point may be rounded apart, which `Stored` leaves open and `LedgerAgrees` names.
A payment may be refused at exactly its price, because the price is a sum of doubles (`Refuse`).

A stock transaction locks the rows of its lines (`SELECT ... FOR UPDATE`; InnoDB
locks them in primary key order), computes the new values in memory, writes them one
row at a time, and commits or rolls back. A product without a stock row cannot be in
an order, since `reserveStock` would have failed for it.

### Stock reservation

`reserved[p]` is the sorted set. A member is a unit of a request's item with its
expiry as score; its name holds a random UUID in the code and the request, item and
unit here. The ghost field `added` is read by properties only. The three Redis
commands are three steps, other requests run between them. The purge time is taken
once, when the effects of all items are built, and the score anew for each item; that is
why they are two variables. `floor(stock * 1.2)` in binary floating point is
`(stock * 6) \div 5` (compared up to a million). Items may name a product twice:
the unique key (order, product) lets no such order be created, but its reservations stay.
Any call may fail (`Fail`); nothing takes the added units back.

`Take`, `Restore` and `Short` are the saga's; at most one line of a product is in an
order that was placed, so `Ordered` needs no sum. `Restore` may happen again for the same
order, as rival pollers and repeated compensations do (`saga_rival_pollers`), up to
`MaxRestores` times; the shelf may then hold more than at first. `peak` remembers the
fullest shelf there was, and only properties read it. An order insert that fails is `Fail`
here: the request does no more to this state, whether it is answered or not (see HTTP layer).

### Account and cart, product cache

Every database call of `UserFacade.signUp`, `CartService.addCartItem` and
`removeCartItem` is a step, and each write may report an error although it took effect.
Prisma's `delete` is two statements, a read of the line and a delete of it (`FindLine`,
`DeleteLine`); when another removal was faster, whether it reports an error is left open,
so both may be told of success. `found` is the line a removal has read.
Tables count rows, so that a missing unique key would show. Stock moves between the check and the insert (`Sell`). Users are never deleted.

In `ProductCache` a price is the number of changes before it, `changes[p]` says when
each took place. A GET that fails counts as a miss, an expired entry is absent, and a
SET that fails, with or without effect, fails the request. No code of the repository
changes a price; `ChangePrice` is `ProductRepository.update`, used by whoever
maintains the catalogue.

### HTTP layer

`Routes` lists the methods in the order of the controllers, which is the order the
router tries them in; `Dispatch` takes the first that matches. `AuthGuard` runs before
the interceptors, so its error is answered by Nest itself. It verifies the token and
then looks its user up: two steps, between which the clock moves. A pipe that refuses a
parameter, and the body `addCartItem` does not get (`Rejected`), throw inside the
interceptors, and no fiber has failed. `EffectInterceptor` tests `Effect.isFailure(error)`,
an effect and so always true (`effect.interceptor.ts:60`); for an error without a fiber
it throws itself, and `ErrorsInterceptor` answers 500. The tag of an exception decides the
status otherwise. `POST /orders` answers a lack of room with a text and a success
(`outOfRoom`). `registered` and `tokens` are what sign-up and sign-in leave behind.

One error gets no answer. `OrderRepository.create` throws inside the `catch` of its
`tryPromise` (`order.repository.ts:27`), which makes any error of the insert a defect;
`PrismaService.transaction` settles its promise for successes and failures only and does not
await the fiber (`prisma.service.ts:81`). So the request hangs (`OrderInsertFails`), and
the rejection nobody handles may end the process with all requests under way
(`ProcessEnds`). For the saga such an end is a `Crash`.

## 4. Runs

| Run | Instance | Shows |
|---|---|---|
| `saga_clean` | 3 orders, 1 instance with 1 worker, stock for 2, points for 1, no fault, fair | every order is settled or gives its units back (`NoOrderStuck`), `OutboxDrains` |
| `saga_faults` | 2 orders for one unit, one unaffordable, 1 instance, 1 fault of any kind or 2 of delivery | `SagaInv`, `DeliveryInv` and what follows from them (`NothingLost`, `NoOversell`); points add up (`PointsAddUp`); a row is SUCCESS only when its message was published or its failed step compensated (`SuccessMeansDone`); the shelf is an `AtomicStock`, the wallets are `AtomicWallet`s |
| `saga_two_instances` | 1 order, 2 instances, 4 database faults or 1 rebalance | refines `OrderLifecycle`; a compensation that is retried, given up, and fails to record even that reopens nothing (`OnlyCreatedReopens`); more is sold than was there only if an order is restocked twice (`OversoldOnlyByRestocking`) |
| `saga_unpayable` | 1 unpayable order, 1 instance, no fault, fair | violated: the order is neither PAID nor FAILED, ever (`EveryOrderSettles`) |
| `saga_rival_pollers` | 1 unpayable order, 2 instances, no fault | violated: stock is put back twice |
| `saga_lock_contention` | 2 orders, 2 partitions, 2 instances, no fault | violated: a message is dropped for want of a lock |
| `wallet_mixed` | 2 charges, one of half a hundredth, 2 payments, answers lost | totals add up, a conflict has a winner, every request ends, refines `AtomicWallet` |
| `stock_rows` | 2 deductions and a restoration over 2 rows | no lost update, no cycle of waiting transactions (`NoWaitCycle`), every transaction ends, refines `AtomicStock` |
| `reservation_rush` | 3 orders, 2 at a time, 2 products, any call may fail, restoring up to twice | overbooking is bounded by the fullest shelf, room comes back, live reservations stand, the stock never goes below zero |
| `account_rivals` | 2 sign-ups for one address, 3 additions, 2 removals | rows appear in order and once; the cart's lines add up |
| `cache_fresh` | 3 readers, 2 products, 1 price change | no price is staler than the TTL and one request |
| `http_sessions` | 2 users, every endpoint, good and bad requests, tokens that expire, fair | sessions are live, statuses truthful, every request is answered but an order that cannot be inserted |

The saga's two-instance runs check that safety which survives rivals, and its
one-instance runs that which does not: with two instances `NoOversell` and
`NothingLost` are false without any fault, which `saga_rival_pollers` and
`saga_lock_contention` show.

The inductive invariants that only help a proof (`CacheInv`, `AccountInv`, `RequestInv`,
`RowsInOrder`, `ShelfInv`, `DoneInv`, `WalletInv` of the saga) are in no run, nor is `TypeOK` of
`HttpLayer`: each held under TLC on its module's instances before it was proved, and is now
proved for all of them. `DoneInv` held on `saga_two_instances` too, where retries run out.

### Bounds

* `Retries` = 1 for the code's 3, `ProducerTries` = 2 for 4, `Concurrency` = 2 for 5 (1 in
  `saga_clean`, where a row of the page waits for the other), `Take` = 2 for 500: every
  branch (retry, last retry, worker pool full, row left for a later pass) occurs with the
  smaller number.
* `MaxLog` is the length of a partition. A full one refuses messages
  (`ProduceRefused`) and the row stays INIT, as when the broker is down; 2 per
  order is enough for an order's event to be duplicated. In `saga_two_instances` it is 1, the
  largest that is searched in minutes: no message is published twice there, and redelivery comes
  from the rebalance only. Duplicates are checked in `saga_faults`, and the theorems on
  refinement, on reopening and on overselling are for any length and any faults.
* `FaultPlans`: in `saga_faults` one of any kind, or two among uncertain sends and failed
  commits, expired leases and rebalances, so that a duplicate meets a redelivery; in
  `saga_two_instances` four of the database, as many as the longest error path needs: a
  compensation that fails, is retried, fails, and cannot record it, beside a rival; or one
  rebalance, which gives the message of the order to the other instance again.
* `AtOnce` = 2 requests at a time, `MaxRestores` = 2, `TTL` = 1 and `MaxTime` = 2 in
  `reservation_rush`: a reservation expires under its own request and under the
  other; the third order comes after a first has ended.
* `TTL` = 2, `Patience` = 1, `MaxTime` = 4 in `cache_fresh`: an entry is written by a
  slow reader, used to its end, expires and is written again. `Patience` bounds the
  time of one request; the code has no such bound, and `PriceFreshWithinTtl` names it.
* `TokenLife` = 1 and `MaxNow` = 2 in `http_sessions`: a token is used at once, expires
  during a request, and is used after its end. One client suffices: requests share
  only users and tokens, which one client can leave behind from its earlier requests.
* Symmetry is used for identical orders and instances in safety runs only.

`CHECK_DEADLOCK FALSE` stands where a finite set of requests ends, and nowhere else.

### Fairness

`FairSpec` of the saga assumes weak fairness of each poller (`Effect.forever` of the pass,
without a delay, whose errors are swallowed: `outbox-polling.service.ts:43`), of each
consumer (kafkajs keeps fetching) and of
the end of a lease (Redis expiry). The faulty steps, clients, crashes and rebalances have
none. In `Wallet` and `StockTransactions` a request's next step is fair, because
Node resumes a settled promise and InnoDB grants a free lock; the abort is not. In
`HttpLayer` the server's next step for a request is fair for the same reason, and nothing
is assumed of the clients or the clock.

## 5. What is proved

Each proof is for all values of the constants under the modules' assumptions, which say
only that the constants have sensible types (a lock's special values are no instances,
and the requests or transactions whose amounts are added up are finitely many).

| Theorem | Statement |
|---|---|
| `OrderSagaProofs!TypeCorrect` | `Spec => []TypeOK`: stock and wallets never negative |
| `OrderSagaProofs!EventsTruthful` | `Spec => []SagaInv` |
| `OrderSagaProofs!DeductedAndChargedOnce` | at most one deduction and one charge per order |
| `OrderSagaProofs!PaidOrFailedTruly` | PAID: charged, holding its stock, never restocked; FAILED: holds no stock, took no money |
| `OrderSagaProofs!RestockOnlyUncharged` | stock goes back only for an order that held it and was not charged |
| `OrderSagaProofs!SagaImplementsLifecycle`, `EndsAreFinal` | the saga refines `OrderLifecycle`; PAID and FAILED are final |
| `OrderSagaProofs!PublishedOnce` | no finished event but ORDER_CREATED is published again |
| `DeliveryProofs!DeliveryKept` | `OneInstance => (Spec => []DeliveryInv)` |
| `DeliveryProofs!NoOrderLost`, `NeverOversold` | with one instance and faults of the delivery only, no order is left behind and no unit is sold twice |
| `DeliveryProofs!WalletsAtomic` | towards every user the saga refines `AtomicWallet`, any instances, any faults |
| `DeliveryProofs!ShelfAtomic` | the shelf refines `AtomicStock` until an order is restocked twice |
| `DeliveryProofs!PointsNeverLost` | a user is short of the PAID orders, exactly when none is pending |
| `DeliveryProofs!SuccessIsTruthful` | any instances, any faults: a row is SUCCESS only when its message is in the topic or its failed step was compensated, unless the error of the restoring transaction was taken for success |
| `DeliveryProofs!OversellingNeedsRestocking` | any instances, any faults: overselling needs an order restocked twice |
| `WalletProofs!SnapshotsSound`, `WalletNeverOverdrawn`, `FirstCommitterWins`, `WalletIsAtomic` | version check suffices; refines `AtomicWallet` |
| `WalletProofs!LedgerHolds` | the total is what the committed points add up to |
| `StockProofs!ModelsSound`, `StockIsAtomic` | row locks suffice; refines `AtomicStock` |
| `StockProofs!StockBooksAgree` | the shelf is what the committed transactions left of it |
| `StockProofs!NeverDeadlocked` | the row locks never close a cycle of waiting transactions |
| `ReservationProofs!BooksSound`, `ExpiredNotCounted`, `ReservationsStand` | the sorted sets hold what was reserved, as long as it was |
| `ReservationProofs!StockNeverNegative` | however placed orders overlap, the stock is never negative |
| `ReservationProofs!ReservationKept` | both inductive invariants of the reservation, `BooksInv` and `BookingInv` |
| `ReservationProofs!BookingKept`, `OverbookingStaysBounded` | overbooking is bounded by the headroom of the fullest shelf and one item of every other order at work, however often compensations repeat |
| `AccountProofs!AccountInvariant`, `WalletsHaveCarts`, `SignUpsComplete`, `LinesCounted` | rows appear in order and once; the cart's lines add up |
| `CacheProofs!CacheSound`, `PricesFresh` | prices are no staler than TTL and one request |
| `HttpProofs!HttpTypeCorrect` | `Spec => []TypeOK` |
| `HttpProofs!PrivateServedInSession` | a private method runs for a registered user whose token was alive when the request was sent, a public one for nobody |
| `HttpProofs!StatusTruthful` | a success, a conflict, a missing row and a refused sign-in or token are answered as what they are |

The inductive invariants:

* `SagaInv`. "An order is charged once" is not inductive: whether the next step
  charges again depends on which messages are still about. `SagaInv` says that every
  event, be it a row, a message, a handler's or a poller's, is evidence of what has
  happened to its order: an ORDER_DEDUCT_STOCK event that failed proves that the
  order's stock was never deducted, one that is published or about to be that it was;
  likewise ORDER_PAYMENT and the charge.
  Evidence is never withdrawn (`EvidenceStable`), so redelivered, delayed and
  duplicated events need no bookkeeping, and the proof is for any number of faults.
  `OrderSagaProofs` first lists which steps change which part of the state, then proves
  one lemma per conjunct.
* `DeliveryInv` adds what one instance leaves true as long as only Kafka, leases and
  rebalances fail: messages below the offsets are processed, except for the one in a
  handler's hands (`OffsetsSound`, `HandlerSound`); a lock belongs to a handler at work
  (`LockHeld`); a finished row was published or compensated (`RowSound`); a failed payment
  restocks once, because the row is marked within the pass that restocked (`RestockOnce`);
  and the shelf and the orders that hold stock have all units between them (`UnitsKept`).
  With two instances `LockHeld` is no help and `RestockOnce` is false (two of the violations);
  a swallowed database error or a crash that leaves a lock behind loses an order. Hence
  the guard `OnlyDeliveryFaults` in the invariant and the assumption `OneInstance` of the theorems.
* `ShelfInv` is `UnitsKept` again, for any number of instances and any faults, under the
  only condition it needs: no order restocked twice so far. That condition never comes
  back once it is false (`RestoredGrows`), which makes the implication inductive; and a charged order
  holds its stock (`SagaInv`), so what was sold is part of what is held (`SoldIsHeld`).
* `WalletInv` of the saga: a wallet and the charges of its user have the points between
  them. It needs no such condition, because a charge is never undone. `PointsAddUp` follows:
  every PAID order was charged, and a charged order is PAID or still pending.
* `DoneInv` carries the outbox's promise, `SuccessMeansDone`, to the row a poller is about
  to mark: an INIT pass published it, a FAIL pass compensated it. Neither is undone
  (`PublishedStays`, `CompensatedStays`), and whether a row's event holds or was refused never
  changes once the row exists (`EvidenceStable`, `BackedBefore`), so it does not matter which
  poller marks the row, how often, or in what state the row is by then. `JobCases` shows
  the one exception, `RestoreConflict`.
* The refinements of the two atomic modules rest on `SagaInv` alone. What became of a
  transaction is read from the history and the row (`Result`): a commit makes it `done`, an
  inserted failed event `failed`, and `SagaInv` says that these exclude each other: a row
  of a step that took effect is there, so its failed event violates the unique key.
* `WalletInv`: whoever holds the row's lock has read the row as it is; the version
  counts the commits, so a version that still matches means an unchanged total.
* `StockInv`: what a transaction has in memory is the row it has locked, before or
  after its change; nobody else writes that row.
* `RowsInOrder`: a transaction that still asks for rows holds none above those it asks for.
  Each waits for a holder that, if it waits itself, waits at a higher row, so the one that
  waits at the highest row of all closes no cycle.
* `BooksInv`: every member is a unit that some request added under its item's expiry;
  what a request counts was alive when it purged or has come since (`CountedAlive`).
* `BookingInv`: between its count and its last unit a request holds a promise; the units
  in a set and the promises together are what is bounded (`Booked`). Only `Count` adds to
  them, and by the request's own quantity, which fitted the headroom beside the set it
  counted; what it could not see are the promises of the others at work, at most
  `AtOnce - 1` times the largest quantity. The stock never exceeds `peak`
  (`ShelfKept`), so the room read from it never exceeds the headroom of `peak`, which
  only grows. The first stock would be no bound: a compensation may run twice.
* `AccountInv`: how far a sign-up is tells which rows its user has, and a row that is
  there keeps every other sign-up out; a cart line tells of one addition not undone,
  and a removal deletes only the line it has read.
* `CacheInv`: an entry was current when the request that wrote it came in, and that is
  not long before it was written.
* `RequestInv`: what the guard, the pipe and the facade decided about the request in progress
  agrees with its route, its token and the users there are.

Sums are written so that they can be proved about: `Units(S, p)`, `Wallet!Booked(S)` and
`OrderSaga!Pile(S, f)` count the pairs (request, unit) of a set, so that a step which adds one request adds a
disjoint finite set, and the library's facts on cardinalities are enough; no induction over the
requests is needed.

## 6. Only model-checked

Liveness (`NoOrderStuck`, `OutboxDrains`, `EveryRequestEnds`,
`EveryTransactionEnds`, `EveryRequestAnsweredButOrders`): the provers do not do fairness. What they
rest on is proved where it is safety: `NothingLost` says that something can always carry an
order on, `NoWaitCycle` that some stock transaction is never blocked. Every other property
of a passing run is a theorem.

## 7. Not modelled

Logging, telemetry and configuration: nothing the system does depends on them, beyond the
lock options and Kafka settings the saga takes. The query for popular products: a read
of a table nothing in the repository writes, and a sort in memory; it keeps no state, and its
endpoint cannot be reached (section 8). The stock cache (`getStock`, `cacheStock`),
which nothing calls, and the repository methods without a caller. The
saga's partial failures inside one MySQL transaction are MySQL's to undo.

## 8. Where the code and its documents differ

Three differences are runs of their own, `saga_unpayable`, `saga_rival_pollers` and
`saga_lock_contention` (`PROJECT.json`, findings). In the first, the compensation of a
failed payment restores the stock and leaves the order alone
(`outbox-polling.service.ts:194`, `RestoreStock`): the order stays PENDING_PAYMENT, while
`order.facade.spec.ts:117` wants it to fail. `NoOrderStuck` is what is left of the promise: such an
order has its units back. The models also contain the following; they are plain to see in
one action and have no run:

* `POST /orders` is never answered when the order's insert fails, and the process may end
  (`OrderInsertFails`, `ProcessEnds`; section 3, HTTP layer). Only the other requests are promised
  an answer (`EveryRequestAnsweredButOrders`).
* `GET /orders/cart` and `GET /products/top` are declared after routes with a parameter
  that match them (`Routes`, `Dispatch`), and `POST /orders/cart` reads its body without `@Body`
  (`Rejected`): the repository's README draws all three, and nobody can reach them.
* Every error of the restoring transaction is an `AppConflictException`
  (`prisma.service.ts:105`) and is taken for success
  (`outbox-polling.service.ts:207`, `RestoreConflict`): the units do not come back.
* A redelivered ORDER_CREATED whose order has its stock fails on the unique key and
  reopens the row, which publishes the message again
  (`DeductRejected`, `ReopenOrderCreated`). While the shelf has the units, that never
  ends. `OutboxDrains` is therefore a property of the run without redelivery only. It does
  no harm: `SagaInv` holds on every round.
* An error while marking an order PAID is not retried until a rebalance
  (`MarkPaidFails`); `NothingLost` is not checked with database faults for that reason.
* A message that meets the lock of a crashed instance within its lease is dropped
  (`LockFails` with `Leftover`); `NothingLost` is not checked with crashes.
* Reservations outlive their order's payment: for five minutes a sold unit is missing
  from the shelf and counted as reserved (`Take` leaves `reserved` alone;
  `releaseReservation` is commented out), so orders are refused although stock is there.
* `README.md:55` of the repository says charges take a pessimistic lock; they check a
  version, and a rival charge is turned away (`Conflict`).
* `docs/redis-caching-strategy.md:114` has a TTL of an hour, the code one of 24
  (`product.cache.store.ts:11`).
* `docs/redis-caching-strategy.md:48` has the database serve when the cache fails; a
  failing SET fails the request (`CacheFails`).
* A sign-up that fails half-way leaves an address that can neither be used nor be
  registered again (`UserExists`).
* Malformed input is answered with 500 and not with 400, because the interceptor fails on
  errors without a fiber (`effect.interceptor.ts:60`, `Rejected`).
* Every error of the insert of a user is answered with 409 (`user.repository.ts:17`).
* The repository's `README.md` draws `DELETE` for removing a line of the cart; the route is
  `PATCH /orders/cart/:productId`.
* `README.md:86-91` of the repository asks for the five products sold most in three
  days; the code takes every row of one date, fewest sales first
  (`popular-product.repository.ts:148`).

## 9. Plan

The whole way of an order in one module: cache, reservation and saga, with the
price an order is charged related to the price shown.

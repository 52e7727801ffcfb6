----------------------------- MODULE SagaState -----------------------------
(***************************************************************************)
(* The state the order saga shares: the MySQL tables (order, outbox_event, *)
(* product_stock, wallet), the three Kafka topics and the consumer group's *)
(* offsets, the Redis locks of MurLock, and what every application         *)
(* instance keeps in memory (its outbox poller and the Kafka message it is *)
(* handling).  OutboxPoller and SagaConsumers hold the actions, OrderSaga  *)
(* composes them.                                                          *)
(***************************************************************************)
EXTENDS Naturals, Sequences, FiniteSets

CONSTANTS
  Orders,       \* orders the clients may place
  Products,
  Users,
  Instances,    \* application processes; each runs one poller and one consumer
  Partitions,   \* partitions of each topic
  PartitionOf,  \* order |-> partition: the producers key every message by order id
  UserOf,       \* order |-> the user who placed it
  Qty,          \* order |-> product |-> units ordered (0: not in the order)
  Amount,       \* order |-> sum of price * quantity
  InitStock,    \* product |-> product_stock.stock before the first order
  InitBalance,  \* user |-> wallet.totalPoint before the first order
  Retries,      \* Effect.retry times of a compensation (3 in the code)
  ProducerTries,\* sends of one message by a producer (1 + 3 retries in the code)
  Concurrency,  \* workers of a poller's batch (5 in the code)
  Take,         \* rows a poller reads at once (500 in the code)
  MaxLog,       \* bound: messages a partition may hold
  FaultPlans,   \* bound: how many faults of each kind a behaviour may contain
  Free,         \* a lock nobody holds
  Leftover      \* a lock whose holder crashed, until its lease ends

\* ORDER_FAILED is in the source's list of types, but nothing ever writes it.
EventTypes == {"ORDER_CREATED", "ORDER_DEDUCT_STOCK", "ORDER_PAYMENT", "ORDER_SUCCESS"}
\* The types that are also Kafka topics with a consumer.
Topics == {"ORDER_CREATED", "ORDER_DEDUCT_STOCK", "ORDER_PAYMENT"}
\* The topics whose handler runs under a MurLock.
LockedTopics == {"ORDER_CREATED", "ORDER_DEDUCT_STOCK"}

EventStatus == {"INIT", "SUCCESS", "FAIL"}
OrderStatus == {"PENDING_PAYMENT", "PAID", "FAILED"}

\* What may fail: MySQL, Kafka, Redis, a lease that ends under its holder, the
\* consumer group's assignment, a process.
FaultKinds == {"db", "kafka", "redis", "lease", "rebalance", "crash"}

\* The quantities are at least 1 per line (CreateOrderItemDto), so an order
\* takes something; the amounts are non-negative.
ASSUME OrdersAssumption ==
  /\ PartitionOf \in [Orders -> Partitions]
  /\ UserOf \in [Orders -> Users]
  /\ Qty \in [Orders -> [Products -> Nat]]
  /\ Amount \in [Orders -> Nat]
  /\ InitStock \in [Products -> Nat]
  /\ InitBalance \in [Users -> Nat]

ASSUME BoundsAssumption ==
  /\ Retries \in Nat
  /\ ProducerTries \in Nat \ {0}
  /\ Concurrency \in Nat \ {0}
  /\ Take \in Nat \ {0}
  /\ MaxLog \in Nat \ {0}
  /\ FaultPlans \subseteq [FaultKinds -> Nat]

ASSUME LockAssumption ==
  /\ Free \notin Instances
  /\ Leftover \notin Instances
  /\ Free # Leftover

VARIABLES
  status,    \* order |-> "none" before it is placed, or its OrderStatus
  outbox,    \* type |-> order |-> "none" or the EventStatus of the row
  stock,     \* product |-> units on the shelf
  balance,   \* user |-> points in the wallet
  log,       \* topic |-> partition |-> sequence of orders, one per message
  consumed,  \* topic |-> partition |-> messages the group's members have fetched
  committed, \* topic |-> partition |-> messages a restarted member skips
  owner,     \* topic |-> partition |-> the instance it is assigned to
  lock,      \* locked topic |-> holder
  pass,      \* instance |-> status its poller is working through
  job,       \* instance |-> type |-> order |-> what the poller does with the row
  tries,     \* instance |-> type |-> order |-> retries of the compensation
  pc,        \* instance |-> where its consumer is
  msg,       \* instance |-> the message it is handling
  faults,    \* kind |-> faults so far
  deducted,  \* history: order |-> committed stock deductions
  restored,  \* history: order |-> committed stock restorations
  charged    \* history: order |-> committed payments

history == <<deducted, restored, charged>>
database == <<status, outbox, stock, balance, history>>
kafka == <<log, consumed, committed, owner>>
poller == <<pass, job, tries>>
consumer == <<pc, msg, lock>>
vars == <<database, kafka, poller, consumer, faults>>

Messages == [topic : Topics, part : Partitions, idx : Nat \ {0}, order : Orders]
NoMessage == [topic |-> "none"]

JobState == {"idle", "queued", "sent", "giveup"}
HandlerState == {"idle", "lock", "work", "reopen", "failrow", "ack"}

IdleJobs == [t \in EventTypes |-> [o \in Orders |-> "idle"]]
NoTries == [t \in EventTypes |-> [o \in Orders |-> 0]]

NoFaults == [k \in FaultKinds |-> 0]

\* A fault of one kind: allowed when a plan has it, and counted.
Fault(kind) ==
  /\ faults' = [faults EXCEPT ![kind] = @ + 1]
  /\ \E plan \in FaultPlans : \A k \in FaultKinds : faults'[k] <= plan[k]

\* A write that took effect is answered, or the connection is lost before the
\* answer and the code sees an error.
Heard(next) == next /\ UNCHANGED faults
Unheard(next) == next /\ Fault("db")

Nothing == [t \in EventTypes |-> [o \in Orders |-> "none"]]

Init ==
  /\ status = [o \in Orders |-> "none"]
  /\ outbox = Nothing
  /\ stock = InitStock
  /\ balance = InitBalance
  /\ log = [t \in Topics |-> [k \in Partitions |-> <<>>]]
  /\ consumed = [t \in Topics |-> [k \in Partitions |-> 0]]
  /\ committed = [t \in Topics |-> [k \in Partitions |-> 0]]
  /\ owner \in [Topics -> [Partitions -> Instances]]
  /\ lock = [t \in LockedTopics |-> Free]
  \* The FAIL pass is over: the first pass of a poller is the INIT pass.
  /\ pass = [i \in Instances |-> "FAIL"]
  /\ job = [i \in Instances |-> IdleJobs]
  /\ tries = [i \in Instances |-> NoTries]
  /\ pc = [i \in Instances |-> "idle"]
  /\ msg = [i \in Instances |-> NoMessage]
  /\ faults = NoFaults
  /\ deducted = [o \in Orders |-> 0]
  /\ restored = [o \in Orders |-> 0]
  /\ charged = [o \in Orders |-> 0]

\* Writing one outbox row, inside or outside a transaction.
SetRow(t, o, s) == outbox' = [outbox EXCEPT ![t][o] = s]
=============================================================================

--------------------------- MODULE SagaConsumers ---------------------------
(***************************************************************************)
(* The Kafka consumers of one instance: ProductEventConsumer (topic        *)
(* ORDER_CREATED), UserEventConsumer (ORDER_DEDUCT_STOCK) and              *)
(* OrderEventConsumer (ORDER_PAYMENT), under ConsumerInterceptor.  An      *)
(* instance handles one message at a time.  A handler takes the topic's    *)
(* MurLock where there is one, runs its transaction, writes its follow-up  *)
(* row when that failed, gives the lock back and commits an offset.        *)
(***************************************************************************)
EXTENDS SagaState

\* The row a handler's transaction adds for the next step of the saga.
NextEvent(t) ==
  CASE t = "ORDER_CREATED"      -> "ORDER_DEDUCT_STOCK"
    [] t = "ORDER_DEDUCT_STOCK" -> "ORDER_PAYMENT"
    [] t = "ORDER_PAYMENT"      -> "ORDER_SUCCESS"

GoTo(i, p) == pc' = [pc EXCEPT ![i] = p]

\* Instance i is at step p of the handler of topic t, for order o.
Handling(i, p, t, o) ==
  /\ pc[i] = p
  /\ msg[i].topic = t
  /\ msg[i].order = o

\* The row's unique key (aggregateId, eventType) is already taken.
Taken(t, o) == outbox[t][o] # "none"

InStock(o) == \A p \in Products : stock[p] >= Qty[o][p]

Payable(o) == balance[UserOf[o]] >= Amount[o]

-----------------------------------------------------------------------------
\* Kafka hands the next message of partition k of topic t to its owner.
Receive(i, t, k) ==
  /\ pc[i] = "idle"
  /\ owner[t][k] = i
  /\ consumed[t][k] < Len(log[t][k])
  /\ consumed' = [consumed EXCEPT ![t][k] = @ + 1]
  /\ msg' = [msg EXCEPT ![i] = [topic |-> t, part |-> k,
                                idx |-> consumed[t][k] + 1,
                                order |-> log[t][k][consumed[t][k] + 1]]]
  /\ GoTo(i, IF t \in LockedTopics THEN "lock" ELSE "work")
  /\ UNCHANGED <<lock, database, log, committed, owner, poller, faults>>

AcquireLock(i) ==
  /\ pc[i] = "lock"
  /\ lock[msg[i].topic] = Free
  /\ lock' = [lock EXCEPT ![msg[i].topic] = i]
  /\ GoTo(i, "work")
  /\ UNCHANGED <<msg, database, kafka, poller, faults>>

\* The attempts run out while somebody holds the lock, or Redis fails: the
\* error is logged and the handler reports success.
LockFails(i) ==
  /\ pc[i] = "lock"
  /\ \/ lock[msg[i].topic] # Free /\ UNCHANGED faults
     \/ Fault("redis")
  /\ GoTo(i, "ack")
  /\ UNCHANGED <<msg, lock, database, kafka, poller>>

-----------------------------------------------------------------------------
\* ORDER_CREATED: processOrderDeductStock

\* Mutant: ProductStockModel.deduct without its check.
DeductStockUnchecked(i, o) ==
  /\ Handling(i, "work", "ORDER_CREATED", o)
  /\ ~Taken("ORDER_DEDUCT_STOCK", o)
  /\ stock' = [p \in Products |-> stock[p] - Qty[o][p]]
  /\ SetRow("ORDER_DEDUCT_STOCK", o, "INIT")
  /\ deducted' = [deducted EXCEPT ![o] = @ + 1]
  /\ GoTo(i, "ack")
  /\ UNCHANGED <<status, balance, restored, charged, msg, lock, kafka, poller, faults>>

\* The transaction: the rows locked, every line deducted, the event inserted.
\* When only its answer is lost the handler takes it for rejected.
DeductStock(i, o) ==
  /\ Handling(i, "work", "ORDER_CREATED", o)
  /\ InStock(o)
  /\ ~Taken("ORDER_DEDUCT_STOCK", o)
  /\ stock' = [p \in Products |-> stock[p] - Qty[o][p]]
  /\ SetRow("ORDER_DEDUCT_STOCK", o, "INIT")
  /\ deducted' = [deducted EXCEPT ![o] = @ + 1]
  /\ Heard(GoTo(i, "ack")) \/ Unheard(GoTo(i, "reopen"))
  /\ UNCHANGED <<status, balance, restored, charged, msg, lock, kafka, poller>>

\* The stock is checked before the event is inserted, so a redelivered message
\* ends here too when the shelf is short by now.
OutOfStock(i, o) ==
  /\ Handling(i, "work", "ORDER_CREATED", o)
  /\ ~InStock(o)
  /\ GoTo(i, "failrow")
  /\ UNCHANGED <<msg, lock, database, kafka, poller, faults>>

\* Any other error: the unique key, a deadlock, a timeout.
DeductRejected(i, o) ==
  /\ Handling(i, "work", "ORDER_CREATED", o)
  /\ \/ InStock(o) /\ Taken("ORDER_DEDUCT_STOCK", o) /\ UNCHANGED faults
     \/ Fault("db")
  /\ GoTo(i, "reopen")
  /\ UNCHANGED <<msg, lock, database, kafka, poller>>

\* Mutant: the event of the wrong step is made pending.
ReopenOwnEvent(i, o) ==
  /\ pc[i] = "reopen"
  /\ msg[i].order = o
  /\ SetRow("ORDER_DEDUCT_STOCK", o, "INIT")
  /\ GoTo(i, "ack")
  /\ UNCHANGED <<status, stock, balance, history, msg, lock, kafka, poller, faults>>

\* setOrderCreatedEventToInit: the poller is to publish the message again.
ReopenOrderCreated(i, o) ==
  /\ pc[i] = "reopen"
  /\ msg[i].order = o
  /\ SetRow("ORDER_CREATED", o, "INIT")
  /\ GoTo(i, "ack")
  /\ UNCHANGED <<status, stock, balance, history, msg, lock, kafka, poller, faults>>

ReopenFails(i) ==
  /\ pc[i] = "reopen"
  /\ Fault("db")
  /\ GoTo(i, "ack")
  /\ UNCHANGED <<msg, lock, database, kafka, poller>>

-----------------------------------------------------------------------------
\* ORDER_DEDUCT_STOCK: processOrderPayment

\* Mutant: no unique key on (aggregateId, eventType).
PayWithoutUniqueKey(i, o) ==
  /\ Handling(i, "work", "ORDER_DEDUCT_STOCK", o)
  /\ Payable(o)
  /\ balance' = [balance EXCEPT ![UserOf[o]] = @ - Amount[o]]
  /\ SetRow("ORDER_PAYMENT", o, "INIT")
  /\ charged' = [charged EXCEPT ![o] = @ + 1]
  /\ GoTo(i, "ack")
  /\ UNCHANGED <<status, stock, deducted, restored, msg, lock, kafka, poller, faults>>

Pay(i, o) ==
  /\ Handling(i, "work", "ORDER_DEDUCT_STOCK", o)
  /\ Payable(o)
  /\ ~Taken("ORDER_PAYMENT", o)
  /\ balance' = [balance EXCEPT ![UserOf[o]] = @ - Amount[o]]
  /\ SetRow("ORDER_PAYMENT", o, "INIT")
  /\ charged' = [charged EXCEPT ![o] = @ + 1]
  /\ Heard(GoTo(i, "ack")) \/ Unheard(GoTo(i, "failrow"))
  /\ UNCHANGED <<status, stock, deducted, restored, msg, lock, kafka, poller>>

\* Too few points, the unique key, or the wallet's version moved on.
PayRejected(i, o) ==
  /\ Handling(i, "work", "ORDER_DEDUCT_STOCK", o)
  /\ \/ (~Payable(o) \/ Taken("ORDER_PAYMENT", o)) /\ UNCHANGED faults
     \/ Fault("db")
  /\ GoTo(i, "failrow")
  /\ UNCHANGED <<msg, lock, database, kafka, poller>>

-----------------------------------------------------------------------------
\* Mutant: the failed event gets the column's default status.
CreateFailedEventAsInit(i, o) ==
  LET t == NextEvent(msg[i].topic)
  IN  /\ pc[i] = "failrow"
      /\ msg[i].order = o
      /\ IF Taken(t, o) THEN UNCHANGED outbox ELSE SetRow(t, o, "INIT")
      /\ GoTo(i, "ack")
      /\ UNCHANGED <<status, stock, balance, history, msg, lock, kafka, poller, faults>>

\* Mutant: an upsert instead of an insert.
CreateFailedEventUpserts(i, o) ==
  /\ pc[i] = "failrow"
  /\ msg[i].order = o
  /\ SetRow(NextEvent(msg[i].topic), o, "FAIL")
  /\ GoTo(i, "ack")
  /\ UNCHANGED <<status, stock, balance, history, msg, lock, kafka, poller, faults>>

\* The failed event, inserted outside the rolled back transaction.  When the
\* row exists the insert violates the unique key and that error is dropped.
CreateFailedEvent(i, o) ==
  LET t == NextEvent(msg[i].topic)
  IN  /\ pc[i] = "failrow"
      /\ msg[i].order = o
      /\ IF Taken(t, o) THEN UNCHANGED outbox ELSE SetRow(t, o, "FAIL")
      /\ GoTo(i, "ack")
      /\ UNCHANGED <<status, stock, balance, history, msg, lock, kafka, poller, faults>>

CreateFailedEventFails(i) ==
  /\ pc[i] = "failrow"
  /\ Fault("db")
  /\ GoTo(i, "ack")
  /\ UNCHANGED <<msg, lock, database, kafka, poller>>

-----------------------------------------------------------------------------
\* ORDER_PAYMENT: processOrderSuccess

\* No catchAll here: the interceptor swallows the error and commits nothing,
\* but the consumer has moved past the message.
Drop(i) ==
  /\ GoTo(i, "idle")
  /\ msg' = [msg EXCEPT ![i] = NoMessage]

MarkPaid(i, o) ==
  /\ Handling(i, "work", "ORDER_PAYMENT", o)
  /\ ~Taken("ORDER_SUCCESS", o)
  /\ status' = [status EXCEPT ![o] = "PAID"]
  /\ SetRow("ORDER_SUCCESS", o, "INIT")
  /\ Heard(GoTo(i, "ack") /\ UNCHANGED msg) \/ Unheard(Drop(i))
  /\ UNCHANGED <<stock, balance, history, lock, kafka, poller>>

MarkPaidFails(i, o) ==
  /\ Handling(i, "work", "ORDER_PAYMENT", o)
  /\ \/ Taken("ORDER_SUCCESS", o) /\ UNCHANGED faults
     \/ Fault("db")
  /\ Drop(i)
  /\ UNCHANGED <<lock, database, kafka, poller>>

-----------------------------------------------------------------------------
\* The end of a message

\* The lock is given back by its own holder only: it may have expired.
Release(i) ==
  lock' = [t \in LockedTopics |->
             IF lock[t] = i /\ t = msg[i].topic THEN Free ELSE lock[t]]

\* Mutant: the lock is left to its lease.
CommitOffsetKeepsLock(i) ==
  /\ pc[i] = "ack"
  /\ committed' = [committed EXCEPT ![msg[i].topic][msg[i].part] = msg[i].idx - 1]
  /\ Drop(i)
  /\ UNCHANGED <<lock, database, log, consumed, owner, poller, faults>>

\* commitOffsets with the offset of the message itself, not of the next one:
\* a restarted consumer reads the message again.
CommitOffset(i) ==
  /\ pc[i] = "ack"
  /\ Release(i)
  /\ committed' = [committed EXCEPT ![msg[i].topic][msg[i].part] = msg[i].idx - 1]
  /\ Drop(i)
  /\ UNCHANGED <<database, log, consumed, owner, poller, faults>>

CommitFails(i) ==
  /\ pc[i] = "ack"
  /\ Fault("kafka")
  /\ Release(i)
  /\ Drop(i)
  /\ UNCHANGED <<database, kafka, poller>>

-----------------------------------------------------------------------------
HandlerStep(i, o) ==
  \/ DeductStock(i, o)
  \/ OutOfStock(i, o)
  \/ DeductRejected(i, o)
  \/ ReopenOrderCreated(i, o)
  \/ Pay(i, o)
  \/ PayRejected(i, o)
  \/ CreateFailedEvent(i, o)
  \/ MarkPaid(i, o)
  \/ MarkPaidFails(i, o)

ConsumerStep(i) ==
  \/ \E t \in Topics, k \in Partitions : Receive(i, t, k)
  \/ AcquireLock(i)
  \/ LockFails(i)
  \/ \E o \in Orders : HandlerStep(i, o)
  \/ CommitOffset(i)

ConsumerFault(i) ==
  \/ ReopenFails(i)
  \/ CreateFailedEventFails(i)
  \/ CommitFails(i)
=============================================================================

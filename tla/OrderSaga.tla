----------------------------- MODULE OrderSaga -----------------------------
(***************************************************************************)
(* The order saga: clients placing orders, the pollers and consumers of    *)
(* all instances, and the environment (crashes, rebalances, lease ends).   *)
(***************************************************************************)
EXTENDS OutboxPoller, SagaConsumers

\* The last step of POST /order: one transaction creates the order, its items
\* and the ORDER_CREATED event.  The stock reservation before it lives in
\* Redis and is a module of its own.
PlaceOrder(o) ==
  /\ status[o] = "none"
  /\ status' = [status EXCEPT ![o] = "PENDING_PAYMENT"]
  /\ SetRow("ORDER_CREATED", o, "INIT")
  /\ UNCHANGED <<stock, balance, history, kafka, poller, consumer, faults>>

-----------------------------------------------------------------------------
\* The environment

\* The lease of a crashed holder ends by itself.  That of a living one (4 s)
\* ends too when the handler is slow: its transaction alone may take 8 s.
LeaseEnds(t) ==
  /\ lock[t] # Free
  /\ lock' = [lock EXCEPT ![t] = Free]
  /\ \/ lock[t] = Leftover /\ UNCHANGED faults
     \/ Fault("lease")
  /\ UNCHANGED <<pc, msg, database, kafka, poller>>

\* The group rebalances: any assignment, every partition read on from its
\* committed offset, handlers in progress undisturbed.
Reassign ==
  /\ owner' \in [Topics -> [Partitions -> Instances]]
  /\ consumed' = committed

Rebalance ==
  /\ Fault("rebalance")
  /\ Reassign
  /\ UNCHANGED <<database, log, committed, poller, consumer>>

\* An instance dies and starts again: its memory is lost, its locks stay.
Crash(i) ==
  /\ Fault("crash")
  /\ pass' = [pass EXCEPT ![i] = "FAIL"]
  /\ job' = [job EXCEPT ![i] = IdleJobs]
  /\ tries' = [tries EXCEPT ![i] = NoTries]
  /\ pc' = [pc EXCEPT ![i] = "idle"]
  /\ msg' = [msg EXCEPT ![i] = NoMessage]
  /\ lock' = [t \in LockedTopics |-> IF lock[t] = i THEN Leftover ELSE lock[t]]
  /\ Reassign
  /\ UNCHANGED <<database, log, committed>>

Environment ==
  \/ \E t \in LockedTopics : LeaseEnds(t)
  \/ Rebalance
  \/ \E i \in Instances : Crash(i)

InstanceNext(i) ==
  \/ PollerStep(i)
  \/ PollerFault(i)
  \/ ConsumerStep(i)
  \/ ConsumerFault(i)

Next ==
  \/ \E o \in Orders : PlaceOrder(o)
  \/ \E i \in Instances : InstanceNext(i)
  \/ Environment

Spec == Init /\ [][Next]_vars

\* Effect.forever keeps the poller going, kafkajs keeps fetching, and a lease
\* ends.  Nothing is assumed of the clients or of the faults.
Fairness ==
  /\ \A i \in Instances : WF_vars(PollerStep(i)) /\ WF_vars(ConsumerStep(i))
  /\ \A t \in LockedTopics : WF_vars(LeaseEnds(t))

FairSpec == Spec /\ Fairness

-----------------------------------------------------------------------------
\* Types

DatabaseOK ==
  /\ status \in [Orders -> OrderStatus \cup {"none"}]
  /\ outbox \in [EventTypes -> [Orders -> EventStatus \cup {"none"}]]
  /\ stock \in [Products -> Nat]
  /\ balance \in [Users -> Nat]
  /\ deducted \in [Orders -> Nat]
  /\ restored \in [Orders -> Nat]
  /\ charged \in [Orders -> Nat]

KafkaOK ==
  /\ log \in [Topics -> [Partitions -> Seq(Orders)]]
  /\ consumed \in [Topics -> [Partitions -> Nat]]
  /\ committed \in [Topics -> [Partitions -> Nat]]
  /\ owner \in [Topics -> [Partitions -> Instances]]

PollerOK ==
  /\ pass \in [Instances -> {"INIT", "FAIL"}]
  /\ job \in [Instances -> [EventTypes -> [Orders -> JobState]]]
  /\ tries \in [Instances -> [EventTypes -> [Orders -> Nat]]]

ConsumerOK ==
  /\ lock \in [LockedTopics -> Instances \cup {Free, Leftover}]
  /\ pc \in [Instances -> HandlerState]
  /\ msg \in [Instances -> Messages \cup {NoMessage}]
  /\ \A i \in Instances : pc[i] # "idle" => msg[i] \in Messages

\* Every variable has its type: in particular stock and wallets never go below
\* zero, and a handler that is not idle has a message.
TypeOK ==
  /\ DatabaseOK
  /\ KafkaOK
  /\ PollerOK
  /\ ConsumerOK
  /\ faults \in [FaultKinds -> Nat]

-----------------------------------------------------------------------------
\* Safety

\* Redelivered, republished and concurrent messages of an order deduct its
\* stock at most once and charge its user at most once.
AtMostOnce == \A o \in Orders : deducted[o] <= 1 /\ charged[o] <= 1

\* The two ends are told truly: a PAID order was charged and its stock was deducted
\* and never put back; a FAILED one holds no stock and took no money.
EndsTruthful ==
  \A o \in Orders :
    /\ status[o] = "PAID" => charged[o] = 1 /\ deducted[o] = 1 /\ restored[o] = 0
    /\ status[o] = "FAILED" => deducted[o] = 0 /\ charged[o] = 0

\* Stock goes back only for an order that held some and was never charged,
\* and such an order is never charged later.
NoRestockOfChargedOrder ==
  \A o \in Orders : restored[o] > 0 => deducted[o] = 1 /\ charged[o] = 0

\* Faults that delay or repeat messages.  After the others an event may be
\* dropped or a compensation run twice.
OnlyDeliveryFaults == \A k \in {"db", "redis", "crash"} : faults[k] = 0

\* f[o] things for every order of S.
Pile(S, f) == UNION {{o} \X (1 .. f[o]) : o \in S}

\* The units of p in a set of orders, and how many were sold so far.
UnitsOf(S, p) == Pile(S, [o \in Orders |-> Qty[o][p]])
Sold(p) == Cardinality(UnitsOf({o \in Orders : charged[o] > 0}, p))

\* No unit is invented: what is on the shelf and what was sold never exceed
\* the initial stock, so it cannot be oversold, as long as no compensation is
\* run again for an error of the database or a crash.
NoOversell ==
  OnlyDeliveryFaults => \A p \in Products : stock[p] + Sold(p) <= InitStock[p]

NoneRestockedTwice == \A o \in Orders : restored[o] <= 1

\* With any number of instances, and whatever fails, there is one way to sell what
\* is not there: the units of one order put back more than once.
OversoldOnlyByRestocking ==
  NoneRestockedTwice => \A p \in Products : stock[p] + Sold(p) <= InitStock[p]

\* The points of a set of orders.
PointsOf(S) == Pile(S, Amount)
OrdersOf(u) == {o \in Orders : UserOf[o] = u}
Paid(u) == Cardinality(PointsOf({o \in OrdersOf(u) : status[o] = "PAID"}))

\* No points are lost or invented: a user is short of exactly the PAID orders, and
\* beyond that only of charges on their way to PAID, whatever was redelivered,
\* refused, compensated or left unanswered.
PointsAddUp ==
  \A u \in Users :
    /\ balance[u] + Paid(u) <= InitBalance[u]
    /\ (\A o \in OrdersOf(u) : status[o] # "PENDING_PAYMENT") =>
         balance[u] + Paid(u) = InitBalance[u]

\* The two ends are final: a PAID order is never FAILED by a late
\* compensation, a FAILED one never PAID by a late message.
StatusFinal ==
  [][\A o \in Orders : status[o] \in {"PAID", "FAILED"} => status'[o] = status[o]]_vars

\* Only ORDER_CREATED is ever published again once its row has left INIT: the
\* payment and deduction events of an order go INIT -> SUCCESS once.
OnlyCreatedReopens ==
  [][\A t \in EventTypes \ {"ORDER_CREATED"}, o \in Orders :
       outbox[t][o] \in {"SUCCESS", "FAIL"} => outbox'[t][o] # "INIT"]_vars

-----------------------------------------------------------------------------
\* The inductive invariant behind the safety properties

\* What an event of type t for o, published or about to be, is evidence of.
Backed(t, o) ==
  /\ status[o] # "none"
  /\ t = "ORDER_DEDUCT_STOCK" => deducted[o] = 1
  /\ t = "ORDER_PAYMENT" => charged[o] = 1

\* What a failed event of type t for o is evidence of.
Refused(t, o) ==
  \/ t = "ORDER_DEDUCT_STOCK" /\ deducted[o] = 0
  \/ t = "ORDER_PAYMENT" /\ deducted[o] = 1 /\ charged[o] = 0

\* The history of an order agrees with itself, with its rows and its status.
HistoryInv(o) ==
  /\ deducted[o] \in {0, 1}
  /\ charged[o] \in {0, 1}
  /\ deducted[o] = 1 => Taken("ORDER_DEDUCT_STOCK", o)
  /\ charged[o] = 1 => Taken("ORDER_PAYMENT", o) /\ deducted[o] = 1 /\ restored[o] = 0
  /\ restored[o] > 0 => Taken("ORDER_PAYMENT", o) /\ deducted[o] = 1
  /\ status[o] = "PAID" => charged[o] = 1
  /\ status[o] = "FAILED" => deducted[o] = 0 /\ Taken("ORDER_DEDUCT_STOCK", o)

RowInv(t, o) ==
  /\ Taken(t, o) => status[o] # "none"
  /\ outbox[t][o] = "INIT" => Backed(t, o)
  /\ outbox[t][o] = "FAIL" => Refused(t, o)

MessageInv(t, k) == \A n \in 1 .. Len(log[t][k]) : Backed(t, log[t][k][n])

HandlerInv(i) ==
  pc[i] # "idle" =>
    /\ Backed(msg[i].topic, msg[i].order)
    /\ pc[i] = "failrow" => msg[i].topic \in LockedTopics

JobInv(i, t, o) ==
  job[i][t][o] # "idle" =>
    /\ Taken(t, o)
    /\ pass[i] = "INIT" => Backed(t, o) /\ job[i][t][o] # "giveup"
    /\ pass[i] = "FAIL" => Refused(t, o)

\* Every event, wherever it is, tells the truth about its order; this is what
\* makes the properties above survive redelivery, crashes and rival pollers.
SagaInv ==
  /\ \A o \in Orders : HistoryInv(o)
  /\ \A t \in EventTypes, o \in Orders : RowInv(t, o)
  /\ \A t \in Topics, k \in Partitions : MessageInv(t, k)
  /\ \A i \in Instances : HandlerInv(i)
  /\ \A i \in Instances, t \in EventTypes, o \in Orders : JobInv(i, t, o)

-----------------------------------------------------------------------------
\* Progress

Settled(o) == status[o] \in {"PAID", "FAILED"}

\* Its payment failed and its units are back: the code leaves such an order at
\* PENDING_PAYMENT, and nothing works on it any more.
Released(o) == restored[o] > 0

\* Topic t still has something to do for o: the row is to be published, a
\* message is unread, or a handler is working on one.
Underway(t, o) ==
  \/ outbox[t][o] = "INIT"
  \/ \E k \in Partitions : \E n \in (consumed[t][k] + 1) .. Len(log[t][k]) :
       log[t][k][n] = o
  \/ \E i \in Instances : Handling(i, "lock", t, o) \/ Handling(i, "work", t, o)
                           \/ Handling(i, "reopen", t, o) \/ Handling(i, "failrow", t, o)

\* What will take a placed order to its next phase.
Carried(o) ==
  CASE charged[o] > 0  -> Underway("ORDER_PAYMENT", o)
    [] charged[o] = 0 /\ deducted[o] > 0 ->
         Underway("ORDER_DEDUCT_STOCK", o) \/ outbox["ORDER_PAYMENT"][o] = "FAIL"
    [] deducted[o] = 0 ->
         Underway("ORDER_CREATED", o) \/ outbox["ORDER_DEDUCT_STOCK"][o] = "FAIL"

\* No order is dropped between two steps of the saga: until it is settled, or its
\* units are back, something in the database, in Kafka or in a handler carries it on,
\* whatever happens to the messages on their way.
NothingLost ==
  OnlyDeliveryFaults =>
    \A o \in Orders : status[o] # "none" /\ ~Settled(o) /\ ~Released(o) => Carried(o)

-----------------------------------------------------------------------------
\* The inductive invariant behind NothingLost and NoOversell: one instance, and
\* faults that only delay or repeat messages

\* The handler of topic t has done its work for o, in this delivery or another.
Processed(t, o) == Taken(NextEvent(t), o)

Published(t, o) ==
  \E k \in Partitions : \E n \in 1 .. Len(log[t][k]) : log[t][k][n] = o

Compensated(t, o) == IF t = "ORDER_PAYMENT" THEN restored[o] > 0 ELSE status[o] = "FAILED"

\* No error of the transaction that restores a failed payment's stock was taken
\* for success (RestoreConflict): the database has not failed.
Certain(t) == t = "ORDER_PAYMENT" => faults["db"] = 0

\* The outbox's promise: a row is SUCCESS only when its message is in the topic, or, if
\* the step it stands for failed, its order was compensated.  Retried, given up, sent
\* without an answer or worked on by two pollers, no event is dropped, but for the one
\* error that the code takes for success.
SuccessMeansDone ==
  \A t \in Topics, o \in Orders :
    outbox[t][o] = "SUCCESS" =>
      /\ Backed(t, o) => Published(t, o)
      /\ ~Backed(t, o) /\ Certain(t) => Compensated(t, o)

\* The same of a row a poller is about to mark; inductive with it.
DoneInv ==
  /\ SuccessMeansDone
  /\ \A i \in Instances, t \in Topics, o \in Orders :
       job[i][t][o] = "sent" =>
         /\ pass[i] = "INIT" => Published(t, o)
         /\ pass[i] = "FAIL" /\ Certain(t) => Compensated(t, o)

\* A lock is free, or a handler that is at work on the topic holds it.
LockHeld(t) ==
  lock[t] # Free =>
    /\ lock[t] \in Instances
    /\ pc[lock[t]] \in {"work", "reopen", "failrow", "ack"}
    /\ msg[lock[t]].topic = t

\* Messages below the offsets are processed, but for the one being handled.
OffsetsSound(t, k) ==
  /\ consumed[t][k] <= Len(log[t][k])
  /\ committed[t][k] <= Len(log[t][k])
  /\ \A n \in 1 .. Len(log[t][k]) :
       \/ Processed(t, log[t][k][n])
       \/ n > committed[t][k] /\ n > consumed[t][k]
       \/ /\ n > committed[t][k]
          /\ \E i \in Instances, p \in {"lock", "work", "failrow"} :
               Handling(i, p, t, log[t][k][n])

\* A handler's message is there, all before it are processed, and so is the
\* message itself when its offset is about to be committed.
HandlerSound(i) ==
  pc[i] # "idle" =>
    /\ msg[i].idx <= Len(log[msg[i].topic][msg[i].part])
    /\ \A n \in 1 .. (msg[i].idx - 1) :
         Processed(msg[i].topic, log[msg[i].topic][msg[i].part][n])
    /\ pc[i] = "lock" => msg[i].topic \in LockedTopics
    /\ pc[i] \in {"reopen", "ack"} => Processed(msg[i].topic, msg[i].order)

\* A finished row was published or its order compensated.
RowSound(o) ==
  /\ status[o] # "none" => Taken("ORDER_CREATED", o)
  /\ Taken("ORDER_SUCCESS", o) => status[o] = "PAID"
  /\ \A t \in Topics : outbox[t][o] = "SUCCESS" => Published(t, o) \/ Compensated(t, o)

JobSound(i, t, o) ==
  /\ job[i][t][o] # "giveup"
  /\ job[i][t][o] = "sent" /\ pass[i] = "INIT" /\ t \in Topics => Published(t, o)
  /\ job[i][t][o] = "sent" /\ pass[i] = "FAIL" => Compensated(t, o)

\* A failed payment whose units are back is not read by a later pass: it is
\* marked within this one.
RestockOnce(i, o) ==
  LET payment == job[i]["ORDER_PAYMENT"][o] IN
  /\ restored[o] <= 1
  /\ pass[i] = "FAIL" /\ payment = "queued" => restored[o] = 0
  /\ outbox["ORDER_PAYMENT"][o] = "FAIL" /\ restored[o] > 0 =>
       pass[i] = "FAIL" /\ payment = "sent"

\* The shelf and the orders that hold stock have all the units between them.
UnitsKept(p) ==
  LET held == UnitsOf({o \in Orders : deducted[o] > restored[o]}, p) IN
  /\ IsFiniteSet(held)
  /\ stock[p] + Cardinality(held) = InitStock[p]

\* The wallet and the charges of a user have all the points between them.
PointsKept(u) ==
  LET spent == PointsOf({o \in OrdersOf(u) : charged[o] > 0}) IN
  /\ IsFiniteSet(spent)
  /\ balance[u] + Cardinality(spent) = InitBalance[u]

\* The same for the shelf and the orders that hold stock, until one restocks twice.
ShelfInv == NoneRestockedTwice => \A p \in Products : UnitsKept(p)
WalletInv == \A u \in Users : PointsKept(u)

DeliveryInv ==
  OnlyDeliveryFaults =>
    /\ \A t \in LockedTopics : LockHeld(t)
    /\ \A t \in Topics, k \in Partitions : OffsetsSound(t, k)
    /\ \A i \in Instances : HandlerSound(i)
    /\ \A o \in Orders : RowSound(o)
    /\ \A i \in Instances, t \in EventTypes, o \in Orders : JobSound(i, t, o)
    /\ \A i \in Instances, o \in Orders : RestockOnce(i, o)
    /\ \A p \in Products : UnitsKept(p)

-----------------------------------------------------------------------------
\* Liveness

\* No placed order stays in between: it is PAID or FAILED in the end, or at least its
\* units are back on the shelf, even with a single worker that its rows wait for.
NoOrderStuck ==
  \A o \in Orders : (status[o] # "none") ~> (Settled(o) \/ Released(o))

\* Every placed order ends PAID or FAILED; one that costs more points than its user
\* has should be failed.
EveryOrderSettles ==
  \A o \in Orders : (status[o] # "none") ~> Settled(o)

\* The outbox drains for good: the pollers do not publish for ever.
OutboxDrains ==
  <>[](\A t \in EventTypes, o \in Orders : outbox[t][o] \in {"none", "SUCCESS"})

-----------------------------------------------------------------------------
\* The abstract specification

Phase(o) ==
  CASE status[o] = "none"     -> "none"
    [] status[o] = "PAID"     -> "paid"
    [] status[o] = "FAILED"   -> "rejected"
    [] status[o] = "PENDING_PAYMENT" /\ restored[o] > 0 -> "released"
    [] status[o] = "PENDING_PAYMENT" /\ restored[o] = 0 /\ charged[o] > 0 -> "charged"
    [] status[o] = "PENDING_PAYMENT" /\ restored[o] = 0 /\ charged[o] = 0 /\ deducted[o] > 0 -> "held"
    [] OTHER -> "placed"

Lifecycle == INSTANCE OrderLifecycle WITH phase <- [o \in Orders |-> Phase(o)]

\* Every behaviour of the saga is one of OrderLifecycle.
ImplementsLifecycle == Lifecycle!Spec

\* What became of a transaction of the saga for o: it took effect, or its row says
\* that it failed.
Result(times, t, o) ==
  IF times > 0 THEN "done" ELSE IF Taken(t, o) THEN "failed" ELSE "none"

PaymentsOf(u) == [o \in OrdersOf(u) |-> Result(charged[o], "ORDER_PAYMENT", o)]

\* The saga takes Wallet's transactions as one step each: towards a user it is an
\* AtomicWallet, whose payments take effect once or never, and not any more once
\* they were refused.
Purse(u) == INSTANCE AtomicWallet WITH
  Charges <- {}, Halves <- {}, Payments <- OrdersOf(u), InitPoint <- InitBalance[u],
  total <- balance[u], outcome <- PaymentsOf(u)

ImplementsAtomicWallets ==
  /\ \A u \in Users : Purse(u)!Init
  /\ [][\A u \in Users : UNCHANGED <<balance[u], PaymentsOf(u)>> \/ Purse(u)!Next]_vars

\* In the same way StockTransactions': a deduction and a restoration of an order.
StockSteps == {"deduct", "restore"} \X Orders
StockResults == [s \in StockSteps |->
  IF s[1] = "deduct" THEN Result(deducted[s[2]], "ORDER_DEDUCT_STOCK", s[2])
  ELSE IF restored[s[2]] > 0 THEN "done" ELSE "none"]

Shelf == INSTANCE AtomicStock WITH
  Deducts <- {"deduct"} \X Orders, Restores <- {"restore"} \X Orders,
  Qty <- [s \in StockSteps |-> Qty[s[2]]], outcome <- StockResults

\* The shelf is an AtomicStock until some order is restocked twice.
ImplementsAtomicStock ==
  /\ Shelf!Init
  /\ [][NoneRestockedTwice' => UNCHANGED <<stock, StockResults>> \/ Shelf!Next]_vars
=============================================================================
